---------------------------- MODULE FPEmuProofs -----------------------------
(***************************************************************************)
(* Proofs about the emulator, its monitor, and the programs it runs.       *)
(*                                                                         *)
(* For every image, every size of the stacks and every byte behind the     *)
(* memory array, the state keeps its type, no stack outgrows its size,     *)
(* run() stops only for a reason, the return stack holds return addresses, *)
(* and an instruction changes the depth of each stack as the manual says.  *)
(* The first three are proved together.  StackBound needs StopReason's     *)
(* first half (push leaves a full stack only with keep_going cleared), and *)
(* both need the type of the stacks.  What pop and push do to the part of  *)
(* the context threaded through an instruction is stated once, as Sound.   *)
(* The others rest on closed sets of contexts (Closed) and on how the      *)
(* effects of the calls add up (Adds).                                     *)
(*                                                                         *)
(* For every sequence of command lines, what the monitor keeps in its      *)
(* locals has its type and belongs to the command that is carried out, and *)
(* an exception once raised stays on record.  Here the processor may be    *)
(* resumed with a full stack, so that the bound of a plain run is gone.    *)
(* What is left of it is OverflowOnRecord, and no instruction leaves the   *)
(* contexts that have it (Recorded): ExecuteCloses then gives it for all of*)
(* them at once.                                                           *)
(*                                                                         *)
(* The last part holds the emulator against the assembler and the          *)
(* disassembler (module Programs): the targets that are listed are where   *)
(* the emulator goes, and the mnemonics that the assembler accepts do what *)
(* the manual says.  Three steps lead to the latter: what BinaryResults    *)
(* computes is what the manual computes (Means), an instruction that       *)
(* raised nothing has popped and pushed the cells its notation shows       *)
(* (Went), and the code of a mnemonic is decoded to its function (Coded).  *)
(***************************************************************************)
EXTENDS Monitor, Programs, WordsTheorems, SequenceTheorems

\* The contexts an instruction threads through pop and push: no stack is
\* larger than its stack, and an instruction that may still go on has room on
\* every stack and has raised nothing.
Contexts == [stacks : [StackID -> Seq(Word)], going : BOOLEAN,
             exception : Exception]

Sound(c) ==
  /\ c \in Contexts
  /\ \A s \in StackID : Len(c.stacks[s]) <= StackSize[s]
  /\ c.going => \A s \in StackID : Len(c.stacks[s]) < StackSize[s]
  /\ c.going <=> c.exception = "AllIsOK"

IInv == TypeOK /\ StackBound /\ StopReason /\ ~single_step

-----------------------------------------------------------------------------
(* Sequences.                                                              *)

\* A cell put on top of a stack.
LEMMA Prepend ==
  ASSUME NEW v \in Word, NEW q \in Seq(Word)
  PROVE  <<v>> \o q \in Seq(Word) /\ Len(<<v>> \o q) = Len(q) + 1
<1>1. <<v>> \in Seq(Word) /\ Len(<<v>>) = 1
  OBVIOUS
<1> QED BY <1>1, ConcatProperties

\* A cell taken from a stack that is not empty.
LEMMA TakeOne ==
  ASSUME NEW q \in Seq(Word), q # <<>>
  PROVE  /\ Head(q) \in Word
         /\ Tail(q) \in Seq(Word)
         /\ Len(q) \in Nat
         /\ Len(Tail(q)) = Len(q) - 1
  BY HeadTailProperties, LenProperties

-----------------------------------------------------------------------------
(* Push, pop and raise.                                                    *)

\* push keeps the context sound if the stack has room for the cell.
LEMMA PushSound ==
  ASSUME NEW c, Sound(c), NEW s \in StackID, NEW v \in Word,
         Len(c.stacks[s]) < StackSize[s]
  PROVE  /\ Sound(Push(c, s, v))
         /\ Len(Push(c, s, v).stacks[s]) = Len(c.stacks[s]) + 1
         /\ \A t \in StackID \ {s} : Push(c, s, v).stacks[t] = c.stacks[t]
<1> DEFINE d == [c EXCEPT !.stacks[s] = <<v>> \o @]
<1>1. c.stacks[s] \in Seq(Word) /\ \A t \in StackID : Len(c.stacks[t]) \in Nat
  BY LenProperties DEF Sound, Contexts
<1>2. /\ <<v>> \o c.stacks[s] \in Seq(Word)
      /\ Len(<<v>> \o c.stacks[s]) = Len(c.stacks[s]) + 1
  BY <1>1, Prepend
<1>3. /\ d \in Contexts
      /\ d.stacks[s] = <<v>> \o c.stacks[s]
      /\ \A t \in StackID \ {s} : d.stacks[t] = c.stacks[t]
      /\ d.going = c.going /\ d.exception = c.exception
  BY <1>2 DEF Sound, Contexts
<1> HIDE DEF d
<1>4. StackSize \in [StackID -> Nat]
  BY StackSizeAssumption
<1>5. CASE Len(d.stacks[s]) = StackSize[s]
  <2>1. Push(c, s, v) = Raise(d, "StackOverflow")
    BY <1>5 DEF Push, d
  <2>2. /\ Raise(d, "StackOverflow") \in Contexts
        /\ Raise(d, "StackOverflow").stacks = d.stacks
        /\ Raise(d, "StackOverflow").going = FALSE
        /\ Raise(d, "StackOverflow").exception = "StackOverflow"
    BY <1>3 DEF Raise, Exception, Contexts
  <2>3. \A t \in StackID : Len(d.stacks[t]) <= StackSize[t]
    BY <1>1, <1>2, <1>3, <1>4, <1>5 DEF Sound
  <2> QED BY <1>2, <1>3, <2>1, <2>2, <2>3 DEF Sound
<1>6. CASE Len(d.stacks[s]) # StackSize[s]
  <2>1. Push(c, s, v) = d
    BY <1>6 DEF Push, d
  <2>2. \A t \in StackID : /\ Len(d.stacks[t]) <= StackSize[t]
                           /\ d.going => Len(d.stacks[t]) < StackSize[t]
    BY <1>1, <1>2, <1>3, <1>4, <1>6 DEF Sound
  <2>3. d.going <=> d.exception = "AllIsOK"
    BY <1>3 DEF Sound
  <2>4. Sound(d)
    BY <1>3, <2>2, <2>3 DEF Sound
  <2> QED BY <1>2, <1>3, <2>1, <2>4
<1> QED BY <1>5, <1>6

\* raising an exception keeps the context sound, and its stacks.
LEMMA RaiseSound ==
  ASSUME NEW c, Sound(c), NEW e \in Exception \ {"AllIsOK"}
  PROVE  Sound(Raise(c, e)) /\ Raise(c, e).stacks = c.stacks
  BY DEF Sound, Contexts, Raise

\* pop keeps the context sound and returns a cell; from a stack that was not
\* full it leaves room for two.
LEMMA PopSound ==
  ASSUME NEW c, Sound(c), NEW s \in StackID, Len(c.stacks[s]) < StackSize[s]
  PROVE  /\ Sound(Pop(c, s))
         /\ Popped(c, s) \in Word
         /\ Len(Pop(c, s).stacks[s]) + 2 <= StackSize[s]
         /\ Len(Pop(c, s).stacks[s]) \in Nat
         /\ \A t \in StackID \ {s} : Pop(c, s).stacks[t] = c.stacks[t]
<1>1. c.stacks[s] \in Seq(Word) /\ \A t \in StackID : Len(c.stacks[t]) \in Nat
  BY LenProperties DEF Sound, Contexts
<1>2. StackSize \in [StackID -> Nat] /\ StackSize[s] >= 2
  BY StackSizeAssumption
<1>3. CASE c.stacks[s] = <<>>
  <2>1. Pop(c, s) = Raise(c, "StackUnderflow") /\ Popped(c, s) = DEAD
    BY <1>3 DEF Pop, Popped
  <2>2. DEAD \in Word
    BY WordInt DEF DEAD
  <2>3. Sound(Pop(c, s)) /\ Pop(c, s).stacks = c.stacks
    BY <2>1, RaiseSound DEF Exception
  <2>4. Len(c.stacks[s]) = 0
    BY <1>3, <1>1, EmptySeq
  <2> QED BY <1>2, <2>1, <2>2, <2>3, <2>4
<1>4. CASE c.stacks[s] # <<>>
  <2> DEFINE d == [c EXCEPT !.stacks[s] = Tail(@)]
  <2>1. Pop(c, s) = d /\ Popped(c, s) = Head(c.stacks[s])
    BY <1>4 DEF Pop, Popped
  <2>2. /\ Head(c.stacks[s]) \in Word /\ Tail(c.stacks[s]) \in Seq(Word)
        /\ Len(Tail(c.stacks[s])) = Len(c.stacks[s]) - 1
        /\ Len(Tail(c.stacks[s])) \in Nat
    BY <1>1, <1>4, TakeOne, LenProperties
  <2>3. /\ d \in Contexts
        /\ d.stacks[s] = Tail(c.stacks[s])
        /\ \A t \in StackID \ {s} : d.stacks[t] = c.stacks[t]
        /\ d.going = c.going /\ d.exception = c.exception
    BY <2>2 DEF Sound, Contexts
  <2> HIDE DEF d
  <2>4. Len(d.stacks[s]) + 2 <= StackSize[s]
    BY <1>1, <1>2, <2>2, <2>3
  <2>5. \A t \in StackID : /\ Len(d.stacks[t]) <= StackSize[t]
                           /\ d.going => Len(d.stacks[t]) < StackSize[t]
    <3>1. ASSUME NEW t \in StackID
          PROVE  /\ Len(c.stacks[t]) <= StackSize[t]
                 /\ c.going => Len(c.stacks[t]) < StackSize[t]
      BY DEF Sound
    <3>2. \A t \in StackID : Len(d.stacks[t]) <= Len(c.stacks[t])
      <4>1. Len(d.stacks[s]) <= Len(c.stacks[s])
        BY <1>1, <2>2, <2>3
      <4>2. \A t \in StackID \ {s} : Len(d.stacks[t]) <= Len(c.stacks[t])
        BY <1>1, <2>3
      <4> QED BY <4>1, <4>2
    <3>3. \A t \in StackID : /\ Len(d.stacks[t]) \in Nat
                             /\ Len(c.stacks[t]) \in Nat
                             /\ StackSize[t] \in Nat
      BY <1>1, <1>2, <2>2, <2>3
    <3> QED BY <2>3, <3>1, <3>2, <3>3
  <2>6. d.going <=> d.exception = "AllIsOK"
    BY <2>3 DEF Sound
  <2>7. Sound(d)
    BY <2>3, <2>5, <2>6 DEF Sound
  <2> QED BY <2>1, <2>2, <2>3, <2>4, <2>7
<1> QED BY <1>3, <1>4

-----------------------------------------------------------------------------
(* Decoding.                                                               *)

\* The fields of an instruction.
LEMMA Fields ==
  ASSUME NEW w \in Word
  PROVE  /\ Field(w, 64, 4) \in StackID
         /\ Field(w, 16, 4) \in StackID
         /\ Field(w, 1024, 4) \in StackID
         /\ w % 1024 \in Word
         /\ 4 * (w % 16384) \in Int
         /\ Offset(w) \in Int
<1>1. w \in Int /\ 0 <= w /\ w <= 65535
  BY WordInt
<1>2. /\ Field(w, 64, 4) \in StackID
      /\ Field(w, 16, 4) \in StackID
      /\ Field(w, 1024, 4) \in StackID
  BY <1>1 DEF Field, StackID, D, R, C, T
<1>3. w % 1024 \in Int /\ 0 <= w % 1024 /\ w % 1024 <= 1023
  BY <1>1
<1>4. 4 * (w % 16384) \in Int /\ Offset(w) \in Int
  BY <1>1 DEF Offset
<1> QED BY <1>2, <1>3, <1>4, WordInt

\* The code of HALT.
LEMMA HaltCode ==
  ASSUME NEW w \in Word
  PROVE  w \div 256 = 130 <=> w \div 4096 = 8 /\ Field(w, 256, 16) = 2
  BY WordInt DEF Field

\* An ENTER is no HALT.
LEMMA EnterCode ==
  ASSUME NEW w \in Word, w \div 16384 = 1
  PROVE  w \div 256 # 130
  BY WordInt

\* Memory holds bytes, at its end too, and a fetch gives a cell.
LEMMA FetchWord ==
  ASSUME TypeOK
  PROVE  /\ \A a : ByteAt(a) \in Byte /\ ByteAt(a) \in Word
         /\ \A a : WordAt(a) \in Word
<1>1. \A a : ByteAt(a) \in Byte
  <2>1. \A a \in DOMAIN memory : memory[a] \in Byte
    BY DEF TypeOK, IsImage
  <2>2. 0 \in Byte
    BY ByteInt
  <2> QED BY <2>1, <2>2, BeyondMemoryAssumption DEF ByteAt
<1>2. \A a : ByteAt(a) \in Word
  BY <1>1, ByteInt, WordInt
<1>3. \A a : WordAt(a) \in Word
  BY <1>1, ByteInt, WordInt DEF WordAt
<1> QED BY <1>1, <1>2, <1>3

\* What the instructions on two values push is a cell.
LEMMA BinaryWord ==
  ASSUME NEW func, NEW signed \in BOOLEAN, NEW m \in Word, NEW n \in Word,
         Implemented(func, signed), NEW r \in BinaryResults(func, signed, m, n)
  PROVE  r \in Word
<1>1. CASE func \in {0, 1}
  <2>1. m + n \in Int
    BY WordInt
  <2> QED BY <1>1, <2>1, WrapWord, MulWord DEF BinaryResults
<1>2. CASE func \in {3, 5, 6, 7, 8}
  BY <1>2, TruthWord DEF BinaryResults
<1>3. CASE func \in {4, 9, 10}
  BY <1>3, ShiftWord, ShiftCountsNat DEF BinaryResults
<1>4. CASE func \in {13, 14, 15}
  BY <1>4, FromBitsWord DEF BinaryResults, BitAnd, BitOr, BitXor
<1>5. func \in {0, 1, 3, 4, 5, 6, 7, 8, 9, 10, 13, 14, 15}
  BY DEF Implemented
<1> QED BY <1>1, <1>2, <1>3, <1>4, <1>5

-----------------------------------------------------------------------------
(* One instruction.                                                        *)

\* The context an instruction starts from is sound and has room everywhere.
LEMMA StartSound ==
  ASSUME IInv, keep_going
  PROVE  /\ Sound(Context)
         /\ \A s \in StackID : Len(Context.stacks[s]) < StackSize[s]
  BY DEF IInv, TypeOK, StackBound, StopReason, Sound, Contexts, Context

\* An instruction other than HALT that leaves a sound context keeps the
\* invariant.
LEMMA FinishSound ==
  ASSUME IInv, NEW c, Sound(c), NEW n \in Int, Finish(c, n),
         UNCHANGED <<memory, single_step>>, WordAt(pc) \div 256 # 130
  PROVE  IInv'
<1>1. TypeOK /\ ~single_step
  BY DEF IInv
<1>2. /\ instruction' = WordAt(pc)
      /\ stacks' = c.stacks
      /\ exception' = c.exception
      /\ keep_going' = (c.going /\ ~single_step)
      /\ pc' = Wrap(n)
      /\ memory' = memory /\ single_step' = single_step
  BY DEF Finish
<1>3. instruction' \in Word /\ pc' \in Word
  BY <1>1, <1>2, FetchWord, WrapWord
<1>4. c \in Contexts /\ c.going \in BOOLEAN
  BY DEF Sound, Contexts
<1>5. keep_going' = c.going
  BY <1>1, <1>2, <1>4
<1>6. TypeOK'
  BY <1>1, <1>2, <1>3, <1>4, <1>5 DEF TypeOK, Contexts, IsImage
<1>7. StackBound'
  BY <1>2, <1>5 DEF StackBound, Sound
<1>8. c.going <=> c.exception = "AllIsOK"
  BY DEF Sound
<1>9. StopReason'
  BY <1>2, <1>5, <1>8 DEF StopReason
<1> QED BY <1>1, <1>2, <1>6, <1>7, <1>9 DEF IInv

\* The stack operations leave a sound context.
LEMMA StackOperationSound ==
  ASSUME NEW c, Sound(c), \A u \in StackID : Len(c.stacks[u]) < StackSize[u],
         NEW func, NEW s \in StackID, NEW t \in StackID
  PROVE  Sound(StackOperation(c, func, s, t))
<1> DEFINE v1 == Popped(c, s)
           c1 == Pop(c, s)
           v2 == Popped(c1, s)
           c2 == Pop(c1, s)
<1>1. StackSize \in [StackID -> Nat]
  BY StackSizeAssumption
<1>2. /\ Sound(c1) /\ v1 \in Word
      /\ Len(c1.stacks[s]) \in Nat /\ Len(c1.stacks[s]) + 2 <= StackSize[s]
      /\ \A u \in StackID \ {s} : c1.stacks[u] = c.stacks[u]
  BY PopSound
<1> HIDE DEF v1, c1
<1>3. \A u \in StackID : Len(c1.stacks[u]) < StackSize[u]
  BY <1>1, <1>2
<1>4. /\ Sound(c2) /\ v2 \in Word
      /\ Len(c2.stacks[s]) \in Nat /\ Len(c2.stacks[s]) + 2 <= StackSize[s]
  BY <1>2, <1>3, PopSound
<1> HIDE DEF v2, c2
<1>5. CASE func = 0
  BY <1>2, <1>5 DEF StackOperation, c1
<1>6. CASE func = 1
  <2> DEFINE d == Push(c1, s, v1)
  <2>1. Sound(d) /\ Len(d.stacks[s]) = Len(c1.stacks[s]) + 1
    BY <1>2, <1>3, PushSound
  <2> HIDE DEF d
  <2>2. Len(d.stacks[s]) < StackSize[s]
    BY <1>1, <1>2, <2>1
  <2>3. Sound(Push(d, s, v1))
    BY <1>2, <2>1, <2>2, PushSound
  <2> QED BY <1>6, <2>3 DEF StackOperation, d, c1, v1
<1>7. CASE func = 2
  <2> DEFINE d == Push(c2, s, v1)
  <2>1. Len(c2.stacks[s]) < StackSize[s]
    BY <1>1, <1>4
  <2>2. Sound(d) /\ Len(d.stacks[s]) = Len(c2.stacks[s]) + 1
    BY <1>2, <1>4, <2>1, PushSound
  <2> HIDE DEF d
  <2>3. Len(d.stacks[s]) < StackSize[s]
    BY <1>1, <1>4, <2>2
  <2>4. Sound(Push(d, s, v2))
    BY <1>4, <2>2, <2>3, PushSound
  <2> QED BY <1>7, <2>4 DEF StackOperation, d, c1, v1, c2, v2
<1>8. CASE func = 3
  <2>1. Sound(Push(c1, t, v1))
    BY <1>2, <1>3, PushSound
  <2> QED BY <1>8, <2>1 DEF StackOperation, c1, v1
<1>9. CASE func \notin {0, 1, 2, 3}
  BY <1>9, RaiseSound DEF StackOperation, Exception
<1> QED BY <1>5, <1>6, <1>7, <1>8, <1>9

-----------------------------------------------------------------------------
(* The invariant and the theorems.                                         *)

LEMMA InitIInv == Init => IInv
<1> SUFFICES ASSUME Init PROVE IInv
  OBVIOUS
<1>1. StartPC \in Word /\ 0 \in Word /\ <<>> \in Seq(Word)
  BY WordInt DEF StartPC
<1>2. TypeOK
  BY <1>1, ImagesAssumption DEF Init, TypeOK, Exception
<1>3. StackBound
  <2>1. \A s \in StackID : stacks[s] = <<>> /\ StackSize[s] \in Nat /\ StackSize[s] >= 2
    BY StackSizeAssumption DEF Init
  <2> QED BY <2>1, EmptySeq DEF StackBound
<1>4. StopReason /\ ~single_step
  BY DEF Init, StopReason
<1> QED BY <1>2, <1>3, <1>4 DEF IInv

LEMMA StepIInv == IInv /\ Step => IInv'
<1> SUFFICES ASSUME IInv, Step PROVE IInv'
  OBVIOUS
<1> DEFINE w == WordAt(pc)
<1>1. keep_going /\ Execute /\ UNCHANGED <<memory, single_step>>
  BY DEF Step
<1>2. TypeOK
  BY DEF IInv
<1>3. w \in Word /\ pc \in Int /\ pc + 2 \in Int
  BY <1>2, FetchWord, WordInt DEF TypeOK
<1> HIDE DEF w
<1>4. /\ Sound(Context)
      /\ \A s \in StackID : Len(Context.stacks[s]) < StackSize[s]
      /\ \A s \in StackID : StackSize[s] \in Nat
  BY <1>1, StartSound, StackSizeAssumption
<1>5. D \in StackID /\ R \in StackID
  BY DEF StackID
\* What one and two pops from the data stack leave.
<1>6. /\ Sound(Pop(Context, D)) /\ First \in Word
      /\ \A s \in StackID : Len(Pop(Context, D).stacks[s]) < StackSize[s]
  <2>1. /\ Sound(Pop(Context, D)) /\ Popped(Context, D) \in Word
        /\ Len(Pop(Context, D).stacks[D]) \in Nat
        /\ Len(Pop(Context, D).stacks[D]) + 2 <= StackSize[D]
        /\ \A s \in StackID \ {D} :
             Pop(Context, D).stacks[s] = Context.stacks[s]
    BY <1>4, <1>5, PopSound
  <2> QED BY <1>4, <1>5, <2>1 DEF First
<1>7. /\ Sound(AfterTwoPops) /\ Second \in Word
      /\ Len(AfterTwoPops.stacks[D]) < StackSize[D]
  <2>1. /\ Sound(AfterTwoPops) /\ Second \in Word
        /\ Len(AfterTwoPops.stacks[D]) \in Nat
        /\ Len(AfterTwoPops.stacks[D]) + 2 <= StackSize[D]
    BY <1>5, <1>6, PopSound DEF AfterTwoPops, Second
  <2> QED BY <1>4, <1>5, <2>1
<1>8. "IllegalInstruction" \in Exception \ {"AllIsOK"}
  BY DEF Exception
\* HALT clears keep_going without an exception.
<1>9. CASE Halt
  <2> DEFINE c == [Context EXCEPT !.going = FALSE]
  <2>0. /\ c.stacks = stacks /\ c.exception = exception /\ c.going = FALSE
        /\ Finish(c, pc + 2 + 2)
        /\ w \div 4096 = 8 /\ Field(w, 256, 16) = 2
    BY <1>9 DEF Halt, Control, Context, w
  <2> HIDE DEF c
  <2>1. /\ instruction' = w /\ stacks' = stacks /\ exception' = exception
        /\ keep_going' = FALSE /\ pc' = Wrap(pc + 2 + 2)
    <3>1. keep_going' = (c.going /\ ~single_step)
      BY <2>0 DEF Finish
    <3>2. c.going = FALSE
      BY <2>0
    <3>3. keep_going' = FALSE
      BY <3>1, <3>2, Zenon
    <3> QED BY <2>0, <3>3 DEF Finish, w
  <2>2. pc + 2 + 2 \in Int
    BY <1>3
  <2>3. instruction' \in Word /\ pc' \in Word
    BY <1>3, <2>1, <2>2, WrapWord
  <2>4. TypeOK'
    BY <1>1, <1>2, <2>1, <2>3 DEF TypeOK, IsImage
  <2>5. StackBound'
    BY <2>1 DEF StackBound, IInv
  <2>6. instruction' \div 256 = 130
    BY <1>3, <2>0, <2>1, HaltCode
  <2>7. StopReason'
    BY <1>1, <2>1, <2>6 DEF StopReason, IInv
  <2> QED BY <1>1, <2>4, <2>5, <2>7 DEF IInv
\* Every other instruction finishes with a sound context.
<1>10. ASSUME NEW c, Sound(c), NEW n \in Int, Finish(c, n), w \div 256 # 130
       PROVE  IInv'
  BY <1>1, <1>10, FinishSound DEF w
<1>11. \A g : w \div 4096 = g /\ g # 8 => w \div 256 # 130
  BY <1>3, HaltCode
<1>12. CASE Enter
  <2>1. Sound(Push(Context, R, Wrap(pc + 2)))
    BY <1>3, <1>4, <1>5, WrapWord, PushSound
  <2>2. 4 * (w % 16384) \in Int
    BY <1>3, Fields
  <2>3. w \div 256 # 130
    BY <1>3, <1>12, EnterCode DEF Enter, w
  <2> QED BY <1>12, <1>10, <2>1, <2>2, <2>3 DEF Enter, w
<1>13. CASE BranchIfFalse
  <2>1. (IF Popped(Context, D) = 0 THEN pc + Offset(w) ELSE pc + 2) \in Int
    BY <1>3, Fields
  <2>2. w \div 256 # 130
    BY <1>11, <1>13 DEF BranchIfFalse, w
  <2> QED BY <1>6, <1>10, <1>13, <2>1, <2>2 DEF BranchIfFalse, w
<1>14. CASE Nop
  <2>1. pc + 2 + 2 \in Int
    BY <1>3
  <2>2. w \div 256 # 130
    BY <1>3, <1>14, HaltCode DEF Nop, Control, w
  <2> QED BY <1>4, <1>10, <1>14, <2>1, <2>2 DEF Nop, Control, w
<1>15. CASE Leave
  <2>1. Sound(Pop(Context, R)) /\ Popped(Context, R) \in Word
    BY <1>4, <1>5, PopSound
  <2>2. Popped(Context, R) + 2 \in Int
    BY <2>1, WordInt
  <2>3. w \div 256 # 130
    BY <1>3, <1>15, HaltCode DEF Leave, Control, w
  <2> QED BY <1>10, <1>15, <2>1, <2>2, <2>3 DEF Leave, Control, w
<1>16. CASE Stack
  <2>1. Sound(StackOperation(Context, Field(w, 256, 16), Field(w, 64, 4),
                             Field(w, 16, 4)))
    BY <1>3, <1>4, Fields, StackOperationSound
  <2>2. w \div 256 # 130
    BY <1>11, <1>16 DEF Stack, w
  <2> QED BY <1>3, <1>10, <1>16, <2>1, <2>2 DEF Stack, w
<1>17. CASE LoadLow
  <2>1. Sound(Push(Context, Field(w, 1024, 4), w % 1024))
    BY <1>3, <1>4, Fields, PushSound
  <2>2. w \div 256 # 130
    BY <1>11, <1>17 DEF LoadLow, w
  <2> QED BY <1>3, <1>10, <1>17, <2>1, <2>2 DEF LoadLow, w
<1>18. CASE LoadHigh
  <2> DEFINE s == Field(w, 1024, 4)
             v == BitOr(Popped(Context, s), 1024 * (w % 64))
  <2>1. s \in StackID
    BY <1>3, Fields
  <2>2. v \in Word
    BY FromBitsWord DEF BitOr
  <2> HIDE DEF v, s
  <2>3. /\ Sound(Pop(Context, s)) /\ Len(Pop(Context, s).stacks[s]) \in Nat
        /\ Len(Pop(Context, s).stacks[s]) + 2 <= StackSize[s]
    BY <1>4, <2>1, PopSound
  <2>4. Len(Pop(Context, s).stacks[s]) < StackSize[s]
    BY <1>4, <2>1, <2>3
  <2>5. Sound(Push(Pop(Context, s), s, v))
    BY <2>1, <2>2, <2>3, <2>4, PushSound
  <2>6. w \div 256 # 130
    BY <1>11, <1>18 DEF LoadHigh, w
  <2> QED BY <1>3, <1>10, <1>18, <2>5, <2>6 DEF LoadHigh, w, s, v
<1>19. CASE Binary
  <2> DEFINE func   == Field(w, 128, 32)
             signed == Field(w, 16, 2) = 1
  <2>1. PICK n \in BinaryResults(func, signed, First, Second) :
          Finish(Push(AfterTwoPops, D, n), pc + 2)
    BY <1>19 DEF Binary, w
  <2>2. Implemented(func, signed) /\ signed \in BOOLEAN
    BY <1>19 DEF Binary, w
  <2> HIDE DEF func, signed
  <2>3. n \in Word
    BY <1>6, <1>7, <2>1, <2>2, BinaryWord
  <2>4. Sound(Push(AfterTwoPops, D, n))
    BY <1>5, <1>7, <2>3, PushSound
  <2>5. w \div 256 # 130
    BY <1>11, <1>19 DEF Binary, w
  <2> QED BY <1>3, <1>10, <2>1, <2>4, <2>5
<1>20. CASE Store
  <2>1. Sound(Raise(AfterTwoPops, "IllegalInstruction"))
    BY <1>7, <1>8, RaiseSound
  <2>2. w \div 256 # 130
    BY <1>11, <1>20 DEF Store, w
  <2> QED BY <1>3, <1>7, <1>10, <1>20, <2>1, <2>2 DEF Store, w
<1>21. CASE NegNot
  <2> DEFINE n == IF Field(w, 256, 16) = 0 THEN Wrap(0 - First) ELSE BitNot(First)
  <2>1. n \in Word
    <3>1. First \in Int /\ 0 <= First /\ First <= 65535
      BY <1>6, WordInt
    <3>2. Wrap(0 - First) \in Word
      BY <3>1, WrapWord
    <3>3. BitNot(First) \in Word
      BY <3>1, WordInt DEF BitNot
    <3> QED BY <3>2, <3>3
  <2>2. Finish(Push(Pop(Context, D), D, n), pc + 2)
    BY <1>21 DEF NegNot, w
  <2> HIDE DEF n
  <2>3. Sound(Push(Pop(Context, D), D, n))
    BY <1>5, <1>6, <2>1, PushSound
  <2>4. w \div 256 # 130
    BY <1>11, <1>21 DEF NegNot, w
  <2> QED BY <1>3, <1>10, <2>2, <2>3, <2>4
<1>22. CASE Read
  <2>1. Sound(Raise(Pop(Context, D), "IllegalInstruction"))
    BY <1>6, <1>8, RaiseSound
  <2>2. Sound(Push(Pop(Context, D), D, ByteAt(First)))
    BY <1>2, <1>5, <1>6, FetchWord, PushSound
  <2>3. w \div 256 # 130
    BY <1>11, <1>22 DEF Read, w
  <2> QED BY <1>3, <1>10, <1>22, <2>1, <2>2, <2>3 DEF Read, w
<1>23. CASE Illegal
  <2>1. Sound(Raise(Context, "IllegalInstruction"))
    BY <1>4, <1>8, RaiseSound
  <2>2. IsIllegal(w) /\ Finish(Raise(Context, "IllegalInstruction"), pc + 2)
    BY <1>23 DEF Illegal, w
  <2>3. ~(w \div 4096 = 8 /\ Field(w, 256, 16) = 2)
    BY <2>2 DEF IsIllegal
  <2>4. w \div 256 # 130
    BY <1>3, <2>3, HaltCode
  <2> QED BY <1>3, <1>10, <2>1, <2>2, <2>4
<1> QED
  BY <1>1, <1>9, <1>12, <1>13, <1>14, <1>15, <1>16, <1>17, <1>18, <1>19, <1>20,
     <1>21, <1>22, <1>23 DEF Execute

\* The strengthened invariant holds throughout a run.
THEOREM Invariant == Spec => []IInv
<1>1. IInv /\ UNCHANGED vars => IInv'
  BY DEF IInv, TypeOK, IsImage, ByteAt, StackBound, StopReason, vars, regs
<1>2. IInv /\ [Step]_vars => IInv'
  BY <1>1, StepIInv
<1> QED BY InitIInv, <1>2, PTL DEF Spec

\* For every image and every size of the stacks the state keeps its type: the
\* registers stay 16-bit cells and every stack holds 16-bit cells.
THEOREM TypeCorrect == Spec => []TypeOK
<1>1. IInv => TypeOK
  BY DEF IInv
<1> QED BY Invariant, <1>1, PTL

\* No program can make a stack of the emulator outgrow its size: push's test
\* for equality (fpemu.c:87) catches every overflow of a plain run.
THEOREM StacksBounded == Spec => []StackBound
<1>1. IInv => StackBound
  BY DEF IInv
<1> QED BY Invariant, <1>1, PTL

\* Every program that stops has executed HALT or raised an exception, and what
\* main() reports about it (fpemu.c:595-602) is true.
THEOREM StopsForAReason == Spec => []StopReason
<1>1. IInv => StopReason
  BY DEF IInv
<1> QED BY Invariant, <1>1, PTL

-----------------------------------------------------------------------------
(* Contexts as sets.  Whatever set of contexts push, pop and raise do not  *)
(* leave, no instruction leaves either: properties that hold of every such *)
(* call need not be proved again for every instruction.                    *)

Raised == Exception \ {"AllIsOK"}

\* S is not left by calls that push on the stacks ids only.
Closed(S, ids) ==
  /\ S \subseteq Contexts
  /\ \A c \in S :
       /\ [c EXCEPT !.going = FALSE] \in S
       /\ \A e \in Raised : Raise(c, e) \in S
       /\ \A s \in StackID : Pop(c, s) \in S
       /\ \A s \in ids, v \in Word : Push(c, s, v) \in S

\* What pop returns is a cell.
LEMMA PoppedWord ==
  ASSUME NEW c \in Contexts, NEW s \in StackID
  PROVE  Popped(c, s) \in Word
<1>1. c.stacks[s] \in Seq(Word)
  BY DEF Contexts
<1>2. DEAD \in Word
  BY WordInt DEF DEAD
<1> QED
  BY <1>1, <1>2, TakeOne DEF Popped

\* Instructions that push on the data stack only.
OnData ==
  \/ BranchIfFalse \/ Nop \/ Leave \/ Halt \/ Binary \/ Store \/ NegNot \/ Read
  \/ Illegal

LEMMA OnDataCloses ==
  ASSUME TypeOK, OnData, NEW S, Closed(S, {D}), Context \in S
  PROVE  \E c \in S, n \in Int : Finish(c, n)
<1> DEFINE w == WordAt(pc)
<1>1. w \in Word /\ pc \in Int /\ pc + 2 \in Int /\ pc + 2 + 2 \in Int
  BY FetchWord, WordInt DEF TypeOK
<1>2. /\ \A c \in S : [c EXCEPT !.going = FALSE] \in S
      /\ \A c \in S, e \in Raised : Raise(c, e) \in S
      /\ \A c \in S, s \in StackID : Pop(c, s) \in S
      /\ \A c \in S, v \in Word : Push(c, D, v) \in S
      /\ \A c \in S, s \in StackID : Popped(c, s) \in Word
  BY PoppedWord DEF Closed
<1>3. D \in StackID /\ R \in StackID /\ "IllegalInstruction" \in Raised
  BY DEF StackID, Raised, Exception
<1>4. First \in Word /\ Second \in Word /\ AfterTwoPops \in S
      /\ Pop(Context, D) \in S
  BY <1>2, <1>3 DEF First, Second, AfterTwoPops
<1>5. Offset(w) \in Int
  BY <1>1, Fields
<1> HIDE DEF w
<1>6. CASE BranchIfFalse
  <2> DEFINE n == IF Popped(Context, D) = 0 THEN pc + Offset(w) ELSE pc + 2
  <2>1. n \in Int
    BY <1>1, <1>5
  <2>2. Finish(Pop(Context, D), n)
    BY <1>6 DEF BranchIfFalse, w
  <2> HIDE DEF n
  <2> QED
    BY <1>4, <2>1, <2>2
<1>7. CASE Nop \/ Halt
  BY <1>1, <1>2, <1>7 DEF Nop, Halt
<1>8. CASE Leave
  <2>1. Popped(Context, R) + 2 \in Int
    BY <1>2, <1>3, WordInt
  <2> QED
    BY <1>2, <1>3, <1>8, <2>1 DEF Leave
<1>9. CASE Binary
  <2> DEFINE func   == Field(w, 128, 32)
             signed == Field(w, 16, 2) = 1
  <2>1. PICK n \in BinaryResults(func, signed, First, Second) :
          Finish(Push(AfterTwoPops, D, n), pc + 2)
    BY <1>9 DEF Binary, w
  <2>2. Implemented(func, signed) /\ signed \in BOOLEAN
    BY <1>9 DEF Binary, w
  <2> HIDE DEF func, signed
  <2>3. n \in Word
    BY <1>4, <2>1, <2>2, BinaryWord
  <2> QED
    BY <1>1, <1>2, <1>3, <1>4, <2>1, <2>3
<1>10. CASE Store
  <2>1. \/ Finish(AfterTwoPops, pc + 2)
        \/ Finish(Raise(AfterTwoPops, "IllegalInstruction"), pc + 2)
    BY <1>10 DEF Store
  <2> QED
    BY <1>1, <1>2, <1>3, <1>4, <2>1
<1>11. CASE NegNot
  <2> DEFINE n == IF Field(w, 256, 16) = 0 THEN Wrap(0 - First)
                                           ELSE BitNot(First)
  <2>1. First \in Int /\ 0 <= First /\ First <= 65535
    BY <1>4, WordInt
  <2>2. n \in Word
    BY <2>1, WrapWord, WordInt DEF BitNot
  <2>3. Finish(Push(Pop(Context, D), D, n), pc + 2)
    BY <1>11 DEF NegNot, w
  <2> HIDE DEF n
  <2> QED
    BY <1>1, <1>2, <1>3, <1>4, <2>2, <2>3
<1>12. CASE Read
  <2>1. ByteAt(First) \in Word
    BY FetchWord
  <2>2. \/ Finish(Push(Pop(Context, D), D, ByteAt(First)), pc + 2)
        \/ Finish(Raise(Pop(Context, D), "IllegalInstruction"), pc + 2)
    BY <1>12 DEF Read
  <2> QED
    BY <1>1, <1>2, <1>3, <1>4, <2>1, <2>2
<1>13. CASE Illegal
  BY <1>1, <1>2, <1>3, <1>13 DEF Illegal
<1> QED
  BY <1>6, <1>7, <1>8, <1>9, <1>10, <1>11, <1>12, <1>13 DEF OnData

\* Every action of the processor finishes with a context of a closed set.
LEMMA ExecuteCloses ==
  ASSUME TypeOK, Execute, NEW S, Closed(S, StackID), Context \in S
  PROVE  \E c \in S, n \in Int : Finish(c, n)
<1> DEFINE w == WordAt(pc)
<1>1. w \in Word /\ pc \in Int /\ pc + 2 \in Int
  BY FetchWord, WordInt DEF TypeOK
<1>2. /\ \A c \in S, e \in Raised : Raise(c, e) \in S
      /\ \A c \in S, s \in StackID : Pop(c, s) \in S
      /\ \A c \in S, s \in StackID, v \in Word : Push(c, s, v) \in S
      /\ \A c \in S, s \in StackID : Popped(c, s) \in Word
  BY PoppedWord DEF Closed
<1>3. R \in StackID /\ "IllegalInstruction" \in Raised
  BY DEF StackID, Raised, Exception
<1>4. CASE OnData
  <2>1. Closed(S, {D})
    BY DEF Closed, StackID
  <2> QED
    BY <1>4, <2>1, OnDataCloses
<1>5. /\ Field(w, 64, 4) \in StackID /\ Field(w, 16, 4) \in StackID
      /\ Field(w, 1024, 4) \in StackID /\ w % 1024 \in Word
      /\ 4 * (w % 16384) \in Int
  BY <1>1, Fields
<1> HIDE DEF w
<1>6. CASE Enter
  <2>1. Wrap(pc + 2) \in Word
    BY <1>1, WrapWord
  <2> QED
    BY <1>2, <1>3, <1>5, <1>6, <2>1 DEF Enter, w
<1>7. CASE Stack
  <2> DEFINE d == StackOperation(Context, Field(w, 256, 16), Field(w, 64, 4),
                                 Field(w, 16, 4))
  <2>1. ASSUME NEW func, NEW s \in StackID, NEW t \in StackID
        PROVE  StackOperation(Context, func, s, t) \in S
    BY <1>2, <1>3 DEF StackOperation
  <2>2. d \in S
    BY <1>5, <2>1
  <2>3. Finish(d, pc + 2)
    BY <1>7 DEF Stack, w
  <2> QED
    BY <1>1, <2>2, <2>3
<1>8. CASE LoadLow
  BY <1>1, <1>2, <1>5, <1>8 DEF LoadLow, w
<1>9. CASE LoadHigh
  <2> DEFINE s == Field(w, 1024, 4)
             v == BitOr(Popped(Context, s), 1024 * (w % 64))
  <2>1. v \in Word
    BY FromBitsWord DEF BitOr
  <2>2. Finish(Push(Pop(Context, s), s, v), pc + 2)
    BY <1>9 DEF LoadHigh, w
  <2> HIDE DEF v
  <2>3. Push(Pop(Context, s), s, v) \in S
    BY <1>2, <1>5, <2>1
  <2> QED
    BY <1>1, <2>2, <2>3
<1> QED
  BY <1>4, <1>6, <1>7, <1>8, <1>9 DEF Execute, OnData

-----------------------------------------------------------------------------
(* What push and pop do to a context of any size.                          *)

LEMMA RaiseType ==
  ASSUME NEW c \in Contexts, NEW e \in Raised
  PROVE  /\ Raise(c, e) \in Contexts
         /\ Raise(c, e).exception # "AllIsOK"
         /\ Raise(c, e).stacks = c.stacks
  BY DEF Contexts, Raise, Raised

LEMMA HaltType ==
  ASSUME NEW c \in Contexts
  PROVE  /\ [c EXCEPT !.going = FALSE] \in Contexts
         /\ [c EXCEPT !.going = FALSE].stacks = c.stacks
         /\ [c EXCEPT !.going = FALSE].exception = c.exception
  BY DEF Contexts

\* pop takes a cell, unless there is none and it says so.
LEMMA PopType ==
  ASSUME NEW c \in Contexts, NEW s \in StackID
  PROVE  /\ Pop(c, s) \in Contexts
         /\ \A t \in StackID \ {s} : Pop(c, s).stacks[t] = c.stacks[t]
         /\ \/ Pop(c, s) = Raise(c, "StackUnderflow")
            \/ /\ Pop(c, s).exception = c.exception
               /\ c.stacks[s] # <<>>
               /\ Popped(c, s) = Head(c.stacks[s])
               /\ Pop(c, s).stacks[s] = Tail(c.stacks[s])
<1>1. c.stacks[s] \in Seq(Word)
  BY DEF Contexts
<1>2. CASE c.stacks[s] = <<>>
  <2>1. Pop(c, s) = Raise(c, "StackUnderflow")
    BY <1>2 DEF Pop
  <2> QED
    BY <2>1, RaiseType DEF Raised, Exception
<1>3. CASE c.stacks[s] # <<>>
  <2>1. Tail(c.stacks[s]) \in Seq(Word)
    BY <1>1, <1>3, TakeOne
  <2>2. /\ Pop(c, s) = [c EXCEPT !.stacks[s] = Tail(@)]
        /\ Popped(c, s) = Head(c.stacks[s])
    BY <1>3 DEF Pop, Popped
  <2> QED
    BY <1>3, <2>1, <2>2 DEF Contexts
<1> QED
  BY <1>2, <1>3

\* push puts a cell on top in any case; an exception stays on record.
LEMMA PushType ==
  ASSUME NEW c \in Contexts, NEW s \in StackID, NEW v \in Word
  PROVE  /\ Push(c, s, v) \in Contexts
         /\ Push(c, s, v).stacks[s] = <<v>> \o c.stacks[s]
         /\ \A t \in StackID \ {s} : Push(c, s, v).stacks[t] = c.stacks[t]
         /\ IF Len(c.stacks[s]) + 1 = StackSize[s]
              THEN Push(c, s, v).exception # "AllIsOK"
              ELSE Push(c, s, v).exception = c.exception
<1> DEFINE d == [c EXCEPT !.stacks[s] = <<v>> \o @]
<1>1. c.stacks[s] \in Seq(Word)
  BY DEF Contexts
<1>2. /\ <<v>> \o c.stacks[s] \in Seq(Word)
      /\ Len(<<v>> \o c.stacks[s]) = Len(c.stacks[s]) + 1
  BY <1>1, Prepend
<1>3. /\ d \in Contexts
      /\ d.stacks[s] = <<v>> \o c.stacks[s]
      /\ \A t \in StackID \ {s} : d.stacks[t] = c.stacks[t]
      /\ d.exception = c.exception
  BY <1>2 DEF Contexts
<1>4. Push(c, s, v) = IF Len(d.stacks[s]) = StackSize[s]
                      THEN Raise(d, "StackOverflow") ELSE d
  BY DEF Push
<1> HIDE DEF d
<1> QED
  BY <1>2, <1>3, <1>4, RaiseType DEF Raised, Exception

-----------------------------------------------------------------------------
(* The return stack.                                                       *)

\* The addresses behind an ENTER.
Returns == {v \in Word : WordAt(Wrap(v - 2)) \div 16384 = 1}

\* Contexts that went wrong, or have nothing else on the return stack.
Returning ==
  {c \in Contexts : c.exception = "AllIsOK" => c.stacks[R] \in Seq(Returns)}

LEMMA ReturningPop ==
  ASSUME NEW c \in Returning, NEW s \in StackID
  PROVE  /\ Pop(c, s) \in Returning
         /\ Popped(c, s) \in Word
         /\ Pop(c, R).exception = "AllIsOK" => Popped(c, R) \in Returns
<1>1. c \in Contexts /\ R \in StackID
  BY DEF Returning, StackID
<1>2. Pop(c, s) \in Contexts /\ Popped(c, s) \in Word
  BY <1>1, PopType, PoppedWord
<1>3. Raise(c, "StackUnderflow").exception # "AllIsOK"
  BY <1>1, RaiseType DEF Raised, Exception
<1>4. ASSUME NEW q \in Seq(Returns), q # <<>>
      PROVE  Head(q) \in Returns /\ Tail(q) \in Seq(Returns)
  BY <1>4, HeadTailProperties
<1>5. ASSUME Pop(c, s).exception = "AllIsOK"
      PROVE  Pop(c, s).stacks[R] \in Seq(Returns)
  <2>1. /\ c.exception = "AllIsOK" /\ c.stacks[s] # <<>>
        /\ Pop(c, s).stacks[s] = Tail(c.stacks[s])
    BY <1>1, <1>3, <1>5, PopType
  <2>2. c.stacks[R] \in Seq(Returns)
    BY <2>1 DEF Returning
  <2>3. CASE s = R
    BY <1>4, <2>1, <2>2, <2>3
  <2>4. CASE s # R
    <3>1. Pop(c, s).stacks[R] = c.stacks[R]
      BY <1>1, <2>4, PopType
    <3> QED
      BY <2>2, <3>1
  <2> QED
    BY <2>3, <2>4
<1>6. ASSUME Pop(c, R).exception = "AllIsOK"
      PROVE  Popped(c, R) \in Returns
  <2>1. /\ c.exception = "AllIsOK" /\ c.stacks[R] # <<>>
        /\ Popped(c, R) = Head(c.stacks[R])
    <3>1. Pop(c, R) # Raise(c, "StackUnderflow")
      BY <1>3, <1>6
    <3> QED
      BY <1>1, <1>6, <3>1, PopType
  <2>2. c.stacks[R] \in Seq(Returns)
    BY <2>1 DEF Returning
  <2> QED
    BY <1>4, <2>1, <2>2
<1> QED
  BY <1>2, <1>5, <1>6 DEF Returning

\* Another stack may be pushed anything, and one that went wrong as well.
LEMMA ReturningPush ==
  ASSUME NEW c \in Returning, NEW s \in StackID, NEW v \in Word,
         s = R /\ c.exception = "AllIsOK" => v \in Returns
  PROVE  Push(c, s, v) \in Returning
<1>1. c \in Contexts /\ R \in StackID
  BY DEF Returning, StackID
<1>2. Push(c, s, v) \in Contexts
  BY <1>1, PushType
<1>3. ASSUME Push(c, s, v).exception = "AllIsOK"
      PROVE  Push(c, s, v).stacks[R] \in Seq(Returns)
  <2>1. c.exception = "AllIsOK"
    BY <1>1, <1>3, PushType
  <2>2. c.stacks[R] \in Seq(Returns)
    BY <2>1 DEF Returning
  <2>3. CASE s = R
    <3>1. v \in Returns
      BY <2>1, <2>3
    <3>2. <<v>> \o c.stacks[R] \in Seq(Returns)
      BY <2>2, <3>1, ConcatProperties
    <3> QED
      BY <1>1, <2>3, <3>2, PushType
  <2>4. CASE s # R
    <3>0. R \in StackID \ {s}
      BY <1>1, <2>4
    <3>1. Push(c, s, v).stacks[R] = c.stacks[R]
      BY <1>1, <3>0, PushType
    <3> QED
      BY <2>2, <3>1
  <2> QED
    BY <2>3, <2>4
<1> QED
  BY <1>2, <1>3 DEF Returning

LEMMA ReturningRaise ==
  ASSUME NEW c \in Returning
  PROVE  /\ \A e \in Raised : Raise(c, e) \in Returning
         /\ [c EXCEPT !.going = FALSE] \in Returning
<1>1. c \in Contexts
  BY DEF Returning
<1> QED
  BY <1>1, RaiseType, HaltType DEF Returning

\* Code that loads nothing on the return stack keeps it that way.
LEMMA ReturningExecute ==
  ASSUME TypeOK, Execute, Context \in Returning, ~LoadsReturn(WordAt(pc))
  PROVE  \E c \in Returning, n \in Int : Finish(c, n)
<1> DEFINE w == WordAt(pc)
<1>1. w \in Word /\ pc \in Int /\ 0 <= pc /\ pc <= 65535 /\ pc + 2 \in Int
  BY FetchWord, WordInt DEF TypeOK
<1>2. /\ Field(w, 64, 4) \in StackID /\ Field(w, 16, 4) \in StackID
      /\ Field(w, 1024, 4) \in StackID /\ w % 1024 \in Word
      /\ 4 * (w % 16384) \in Int
  BY <1>1, Fields
<1>3. ~LoadsReturn(w)
  OBVIOUS
<1>4. R \in StackID /\ D \in StackID /\ D # R
  BY DEF StackID, D, R
<1> HIDE DEF w
<1>5. CASE OnData
  <2>1. Closed(Returning, {D})
    <3>1. Returning \subseteq Contexts
      BY DEF Returning
    <3> QED
      BY <1>4, <3>1, ReturningPop, ReturningPush, ReturningRaise DEF Closed
  <2> QED
    BY <1>5, <2>1, OnDataCloses
<1>6. CASE Enter
  <2>1. Wrap(pc + 2) \in Word /\ Wrap(Wrap(pc + 2) - 2) = pc
    BY <1>1, WrapWord DEF Wrap
  <2>2. Wrap(pc + 2) \in Returns
    BY <1>6, <2>1 DEF Enter, Returns
  <2>3. Push(Context, R, Wrap(pc + 2)) \in Returning
    BY <1>4, <2>1, <2>2, ReturningPush
  <2> QED
    BY <1>2, <1>6, <2>3 DEF Enter, w
<1>7. CASE Stack
  <2> DEFINE func == Field(w, 256, 16)
             s    == Field(w, 64, 4)
             t    == Field(w, 16, 4)
             v1   == Popped(Context, s)
             c1   == Pop(Context, s)
             v2   == Popped(c1, s)
             c2   == Pop(c1, s)
  <2>1. Finish(StackOperation(Context, func, s, t), pc + 2)
    BY <1>7 DEF Stack, w
  <2>2. func = 3 => t # R
    BY <1>3, <1>7 DEF Stack, LoadsReturn, w
  <2>3. s \in StackID /\ t \in StackID
    BY <1>2
  <2>4. StackOperation(Context, func, s, t)
          = CASE func = 0 -> c1
              [] func = 1 -> Push(Push(c1, s, v1), s, v1)
              [] func = 2 -> Push(Push(c2, s, v1), s, v2)
              [] func = 3 -> Push(c1, t, v1)
              [] OTHER    -> Raise(Context, "IllegalInstruction")
    BY DEF StackOperation
  <2> HIDE DEF func, s, t
  <2>5. /\ c1 \in Returning /\ v1 \in Word
        /\ s = R /\ c1.exception = "AllIsOK" => v1 \in Returns
    BY <2>3, ReturningPop
  <2> HIDE DEF c1, v1
  <2>6. /\ c2 \in Returning /\ v2 \in Word
        /\ s = R /\ c2.exception = "AllIsOK" => v2 \in Returns
    BY <2>3, <2>5, ReturningPop
  <2>7. c2.exception = "AllIsOK" => c1.exception = "AllIsOK"
    <3>1. c1 \in Contexts
      BY <2>5 DEF Returning
    <3> QED
      BY <2>3, <3>1, PopType, RaiseType DEF Raised, Exception
  <2> HIDE DEF c2, v2
  \* A push leaves nothing but exceptions that were there before, or one more.
  <2>8. ASSUME NEW c \in Returning, NEW v \in Word
        PROVE  Push(c, s, v).exception = "AllIsOK" => c.exception = "AllIsOK"
    <3>1. c \in Contexts
      BY DEF Returning
    <3> QED
      BY <2>3, <3>1, PushType
  <2>9. Push(c1, s, v1) \in Returning
    BY <2>3, <2>5, ReturningPush
  <2>10. Push(Push(c1, s, v1), s, v1) \in Returning
    <3>1. Push(c1, s, v1).exception = "AllIsOK" => c1.exception = "AllIsOK"
      BY <2>5, <2>8
    <3> QED
      BY <2>3, <2>5, <2>9, <3>1, ReturningPush
  <2>11. Push(c2, s, v1) \in Returning
    BY <2>3, <2>5, <2>6, <2>7, ReturningPush
  <2>12. Push(Push(c2, s, v1), s, v2) \in Returning
    <3>1. Push(c2, s, v1).exception = "AllIsOK" => c2.exception = "AllIsOK"
      BY <2>5, <2>6, <2>8
    <3> QED
      BY <2>3, <2>6, <2>11, <3>1, ReturningPush
  <2>13. func = 3 => Push(c1, t, v1) \in Returning
    BY <2>2, <2>3, <2>5, ReturningPush
  <2>14. Raise(Context, "IllegalInstruction") \in Returning
    BY ReturningRaise DEF Raised, Exception
  <2>15. StackOperation(Context, func, s, t) \in Returning
    BY <2>4, <2>5, <2>10, <2>12, <2>13, <2>14
  <2> QED
    BY <1>1, <2>1, <2>15
<1>8. CASE LoadLow
  <2>1. Field(w, 1024, 4) # R
    BY <1>3, <1>8 DEF LoadLow, LoadsReturn, w
  <2>2. Push(Context, Field(w, 1024, 4), w % 1024) \in Returning
    BY <1>2, <2>1, ReturningPush
  <2> QED
    BY <1>1, <1>8, <2>2 DEF LoadLow, w
<1>9. CASE LoadHigh
  <2> DEFINE s == Field(w, 1024, 4)
             v == BitOr(Popped(Context, s), 1024 * (w % 64))
  <2>1. s # R /\ s \in StackID
    BY <1>2, <1>3, <1>9 DEF LoadHigh, LoadsReturn, w
  <2>2. v \in Word
    BY FromBitsWord DEF BitOr
  <2>3. Finish(Push(Pop(Context, s), s, v), pc + 2)
    BY <1>9 DEF LoadHigh, w
  <2> HIDE DEF v, s
  <2>4. Push(Pop(Context, s), s, v) \in Returning
    BY <2>1, <2>2, ReturningPop, ReturningPush
  <2> QED
    BY <1>1, <2>3, <2>4
<1> QED
  BY <1>5, <1>6, <1>7, <1>8, <1>9 DEF Execute, OnData

\* An instruction that loads the return stack is found at a code address.
LEMMA CodeFetched ==
  ASSUME TypeOK, \A a \in CodeAddresses : ~LoadsReturn(WordAt(a))
  PROVE  ~LoadsReturn(WordAt(pc))
<1>1. pc \in Int /\ 0 <= pc /\ pc <= 65535
  BY WordInt DEF TypeOK
<1>2. CASE pc \in CodeAddresses
  BY <1>2
<1>3. CASE pc \notin CodeAddresses
  <2>1. pc \notin DOMAIN memory /\ pc # 65535
    BY <1>3 DEF CodeAddresses
  <2>2. pc + 1 \notin DOMAIN memory
    <3>1. \A a \in DOMAIN memory : a - 1 \in CodeAddresses
      BY DEF CodeAddresses
    <3> DEFINE b == pc + 1
    <3>2. b - 1 = pc
      BY <1>1
    <3> HIDE DEF b
    <3>3. b \notin DOMAIN memory
      BY <1>3, <3>1, <3>2
    <3> QED
      BY <3>3 DEF b
  <2>3. pc # 65536 /\ pc + 1 # 65536
    BY <1>1, <2>1
  <2>4. ByteAt(pc) = 0 /\ ByteAt(pc + 1) = 0
    BY <2>1, <2>2, <2>3 DEF ByteAt
  <2>5. WordAt(pc) = 0
    BY <2>4 DEF WordAt
  <2> QED
    BY <2>5 DEF LoadsReturn
<1> QED
  BY <1>2, <1>3

\* A state whose return stack is in order gives such a context.
LEMMA ReturningState ==
  ASSUME TypeOK, ReturnAddresses,
         \A a \in CodeAddresses : ~LoadsReturn(WordAt(a))
  PROVE  Context \in Returning
<1>1. stacks[R] \in Seq(Word)
  BY DEF TypeOK, StackID
<1>2. ASSUME exception = "AllIsOK" PROVE stacks[R] \in Seq(Returns)
  <2>1. CASE stacks[R] = <<>>
    BY <2>1
  <2>2. CASE stacks[R] # <<>>
    <3>1. \A i \in 1 .. Len(stacks[R]) : stacks[R][i] \in Returns
      BY <1>1, <1>2, <2>2 DEF ReturnAddresses, Returns
    <3> QED
      BY <1>1, <3>1
  <2> QED
    BY <2>1, <2>2
<1> QED
  BY <1>2 DEF Returning, Contexts, Context, TypeOK

LEMMA StepReturning == TypeOK /\ TypeOK' /\ ReturnAddresses /\ Step
                         => ReturnAddresses'
<1> SUFFICES ASSUME TypeOK, TypeOK', ReturnAddresses, Step,
                    \A a \in CodeAddresses' : ~LoadsReturn(WordAt(a))'
             PROVE  ReturnAddresses'
  BY DEF ReturnAddresses
<1>1. memory' = memory /\ Execute
  BY DEF Step
<1>2. /\ CodeAddresses' = CodeAddresses /\ Returns' = Returns
      /\ \A a : WordAt(a)' = WordAt(a)
  BY <1>1 DEF CodeAddresses, Returns, WordAt, ByteAt
<1>3. \A a \in CodeAddresses : ~LoadsReturn(WordAt(a))
  BY <1>2 DEF LoadsReturn
<1>4. Context \in Returning
  BY <1>3, ReturningState
<1>5. PICK c \in Returning, n \in Int : Finish(c, n)
  BY <1>1, <1>3, <1>4, CodeFetched, ReturningExecute
<1>6. exception' = "AllIsOK" => stacks'[R] \in Seq(Returns)
  BY <1>5 DEF Finish, Returning
<1>7. exception' = "AllIsOK" =>
        \A i \in 1 .. Len(stacks'[R]) : stacks'[R][i] \in Returns
  BY <1>6
<1> QED
  BY <1>2, <1>7 DEF ReturnAddresses, Returns

-----------------------------------------------------------------------------
(* The effect of an instruction on the depth of the stacks.                *)

\* Without an exception, d holds k cells more than c on the stack s and as
\* many on the others, and there was no exception before.
Adds(c, d, s, k) ==
  /\ d \in Contexts
  /\ d.exception = "AllIsOK" =>
       /\ c.exception = "AllIsOK"
       /\ Len(d.stacks[s]) = Len(c.stacks[s]) + k
       /\ \A t \in StackID \ {s} : Len(d.stacks[t]) = Len(c.stacks[t])

LEMMA PopAdds ==
  ASSUME NEW c \in Contexts, NEW s \in StackID
  PROVE  Adds(c, Pop(c, s), s, -1)
<1>1. c.stacks[s] \in Seq(Word)
  BY DEF Contexts
<1>2. CASE Pop(c, s) = Raise(c, "StackUnderflow")
  BY <1>2, PopType, RaiseType DEF Adds, Raised, Exception
<1>3. CASE Pop(c, s) # Raise(c, "StackUnderflow")
  <2>1. /\ Pop(c, s).exception = c.exception
        /\ c.stacks[s] # <<>>
        /\ Pop(c, s).stacks[s] = Tail(c.stacks[s])
    BY <1>3, PopType
  <2>2. Len(Tail(c.stacks[s])) = Len(c.stacks[s]) + (-1)
    BY <1>1, <2>1, TakeOne
  <2> QED
    BY <2>1, <2>2, PopType DEF Adds
<1> QED
  BY <1>2, <1>3

LEMMA PushAdds ==
  ASSUME NEW c \in Contexts, NEW s \in StackID, NEW v \in Word
  PROVE  Adds(c, Push(c, s, v), s, 1)
<1>1. Len(<<v>> \o c.stacks[s]) = Len(c.stacks[s]) + 1
  BY Prepend DEF Contexts
<1>2. Push(c, s, v).exception = "AllIsOK" => c.exception = "AllIsOK"
  BY PushType
<1> QED
  BY <1>1, <1>2, PushType DEF Adds

\* Effects on the same stack add up.
LEMMA AddsUp ==
  ASSUME NEW c \in Contexts, NEW d, NEW e, NEW s \in StackID,
         NEW j \in Int, NEW k \in Int, Adds(c, d, s, j), Adds(d, e, s, k)
  PROVE  Adds(c, e, s, j + k)
<1>1. /\ \A t \in StackID : Len(c.stacks[t]) \in Nat
      /\ \A t \in StackID : Len(d.stacks[t]) \in Nat
  BY LenProperties DEF Adds, Contexts
<1>2. ASSUME e.exception = "AllIsOK"
      PROVE  /\ Len(e.stacks[s]) = Len(c.stacks[s]) + (j + k)
             /\ \A t \in StackID \ {s} : Len(e.stacks[t]) = Len(c.stacks[t])
  <2>1. /\ d.exception = "AllIsOK"
        /\ Len(e.stacks[s]) = Len(d.stacks[s]) + k
        /\ \A t \in StackID \ {s} : Len(e.stacks[t]) = Len(d.stacks[t])
    BY <1>2 DEF Adds
  <2>2. /\ Len(d.stacks[s]) = Len(c.stacks[s]) + j
        /\ \A t \in StackID \ {s} : Len(d.stacks[t]) = Len(c.stacks[t])
    BY <2>1 DEF Adds
  <2>3. Len(e.stacks[s]) = (Len(c.stacks[s]) + j) + k
    BY <2>1, <2>2
  <2>4. Len(c.stacks[s]) \in Nat
    BY <1>1
  <2>5. Len(e.stacks[s]) = Len(c.stacks[s]) + (j + k)
    <3> DEFINE n == Len(c.stacks[s])
               m == Len(e.stacks[s])
    <3>1. n \in Int /\ m = (n + j) + k
      BY <2>3, <2>4
    <3> HIDE DEF n, m
    <3>2. m = n + (j + k)
      BY <3>1
    <3> QED
      BY <3>2 DEF n, m
  <2>6. \A t \in StackID \ {s} : Len(e.stacks[t]) = Len(c.stacks[t])
    BY <2>1, <2>2
  <2> QED
    BY <2>5, <2>6
<1>3. e \in Contexts /\ (e.exception = "AllIsOK" => c.exception = "AllIsOK")
  BY DEF Adds
<1> QED
  BY <1>2, <1>3 DEF Adds

LEMMA RaiseAdds ==
  ASSUME NEW c \in Contexts, NEW e \in Raised, NEW s, NEW k
  PROVE  Adds(c, Raise(c, e), s, k)
BY RaiseType DEF Adds

\* The depths a context must have to agree with a stack notation f.
Fits(d, f) ==
  d.exception = "AllIsOK" =>
    \A t \in StackID : Len(d.stacks[t]) = Len(stacks[t]) + f[t]

LEMMA AddsFits ==
  ASSUME TypeOK, NEW d, NEW s \in StackID, NEW k \in Int,
         Adds(Context, d, s, k)
  PROVE  Fits(d, [None EXCEPT ![s] = k])
<1>1. \A t \in StackID : Len(stacks[t]) \in Nat /\ Context.stacks = stacks
  BY LenProperties DEF TypeOK, Context
<1>2. \A t \in StackID : [None EXCEPT ![s] = k][t] = IF t = s THEN k ELSE 0
  BY DEF None
<1> QED
  BY <1>1, <1>2 DEF Adds, Fits

\* The groups of the manual's table.
LEMMA EffectOf ==
  ASSUME NEW w \in Word
  PROVE  /\ w \div 16384 = 1 => ManualEffect(w) = [None EXCEPT ![R] = 1]
         /\ w \div 4096 = 1 => ManualEffect(w) = [None EXCEPT ![D] = -1]
         /\ w \div 4096 = 12 =>
              ManualEffect(w) = [None EXCEPT ![Field(w, 1024, 4)] = 1]
         /\ w \div 4096 \in {13, 15} => ManualEffect(w) = None
<1>1. w \div 16384 = 1 => w \div 4096 \in 4 .. 7
  BY WordInt
<1> DEFINE g == w \div 4096
<1>2. g \in Int
  BY WordInt
<1> HIDE DEF g
<1>3. g \in 4 .. 7 => ManualEffect(w) = [None EXCEPT ![R] = 1]
  BY <1>2 DEF ManualEffect, g
<1>4. g = 1 => ManualEffect(w) = [None EXCEPT ![D] = -1]
  BY <1>2 DEF ManualEffect, g
<1>5. g = 12 => ManualEffect(w) = [None EXCEPT ![Field(w, 1024, 4)] = 1]
  BY <1>2 DEF ManualEffect, g
<1>6. g \in {13, 15} => ManualEffect(w) = None
  BY <1>2 DEF ManualEffect, g
<1> QED
  BY <1>1, <1>3, <1>4, <1>5, <1>6 DEF g

\* and their members.
LEMMA EffectOfControl ==
  ASSUME NEW w \in Word, w \div 4096 = 8
  PROVE  /\ Field(w, 256, 16) = 1 => ManualEffect(w) = [None EXCEPT ![R] = -1]
         /\ Field(w, 256, 16) # 1 => ManualEffect(w) = None
BY DEF ManualEffect

LEMMA EffectOfStack ==
  ASSUME NEW w \in Word, w \div 4096 = 11
  PROVE  LET func == Field(w, 256, 16)
             s    == Field(w, 64, 4)
             t    == Field(w, 16, 4)
         IN  /\ func = 0 => ManualEffect(w) = [None EXCEPT ![s] = -1]
             /\ func = 1 => ManualEffect(w) = [None EXCEPT ![s] = 1]
             /\ func = 2 => ManualEffect(w) = None
             /\ func = 3 /\ s = t => ManualEffect(w) = None
             /\ func = 3 /\ s # t =>
                  ManualEffect(w) = [None EXCEPT ![s] = -1, ![t] = 1]
BY DEF ManualEffect

LEMMA EffectOfBinary ==
  ASSUME NEW w \in Word, w \div 4096 = 14
  PROVE  ManualEffect(w) = IF Field(w, 128, 32) = 11
                           THEN [None EXCEPT ![D] = -2]
                           ELSE [None EXCEPT ![D] = -1]
BY DEF ManualEffect

LEMMA NoneFits ==
  ASSUME TypeOK, NEW d, NEW s \in StackID, Adds(Context, d, s, 0)
  PROVE  Fits(d, None)
<1>1. [None EXCEPT ![s] = 0] = None
  BY DEF None
<1> QED
  BY <1>1, AddsFits

\* MOV between two stacks.
LEMMA MoveFits ==
  ASSUME TypeOK, NEW c, NEW d, NEW s \in StackID, NEW t \in StackID, s # t,
         Adds(Context, c, s, -1), Adds(c, d, t, 1)
  PROVE  Fits(d, [None EXCEPT ![s] = -1, ![t] = 1])
<1> DEFINE f == [None EXCEPT ![s] = -1, ![t] = 1]
<1>1. /\ f[s] = -1 /\ f[t] = 1
      /\ \A u \in StackID \ {s, t} : f[u] = 0
  BY DEF None
<1> HIDE DEF f
<1>2. \A u \in StackID : Len(stacks[u]) \in Nat /\ Context.stacks = stacks
  BY LenProperties DEF TypeOK, Context
<1>3. ASSUME d.exception = "AllIsOK", NEW u \in StackID
      PROVE  Len(d.stacks[u]) = Len(stacks[u]) + f[u]
  <2>1. /\ Len(d.stacks[t]) = Len(c.stacks[t]) + 1
        /\ \A v \in StackID \ {t} : Len(d.stacks[v]) = Len(c.stacks[v])
        /\ Len(c.stacks[s]) = Len(stacks[s]) + (-1)
        /\ \A v \in StackID \ {s} : Len(c.stacks[v]) = Len(stacks[v])
    BY <1>2, <1>3 DEF Adds
  <2>2. CASE u = t
    BY <1>1, <2>1, <2>2
  <2>3. CASE u = s
    BY <1>1, <2>1, <2>3
  <2>4. CASE u \notin {s, t}
    BY <1>1, <1>2, <2>1, <2>4
  <2> QED
    BY <2>2, <2>3, <2>4
<1> QED
  BY <1>3 DEF Fits, f

\* Every instruction has the effect the manual gives it.
LEMMA ExecuteFits ==
  ASSUME TypeOK, Execute
  PROVE  \E c : (\E n : Finish(c, n)) /\ Fits(c, ManualEffect(WordAt(pc)))
<1> DEFINE w == WordAt(pc)
           Done(c) == \E n : Finish(c, n)
           Fit(c) == Fits(c, ManualEffect(w))
<1>1. w \in Word
  BY FetchWord
<1>2. /\ Field(w, 64, 4) \in StackID /\ Field(w, 16, 4) \in StackID
      /\ Field(w, 1024, 4) \in StackID /\ w % 1024 \in Word
  BY <1>1, Fields
<1>3. Context \in Contexts /\ Context.stacks = stacks
  BY DEF Context, Contexts, TypeOK
<1>4. /\ D \in StackID /\ R \in StackID
      /\ "IllegalInstruction" \in Raised
  BY DEF StackID, Raised, Exception
<1> HIDE DEF w
\* Two pops from the data stack.
<1>5. /\ Adds(Context, Pop(Context, D), D, -1)
      /\ Adds(Context, AfterTwoPops, D, -2)
      /\ Pop(Context, D) \in Contexts /\ AfterTwoPops \in Contexts
      /\ First \in Word /\ Second \in Word
  <2>1. Pop(Context, D) \in Contexts
    BY <1>3, <1>4, PopType
  <2>2. AfterTwoPops \in Contexts /\ First \in Word /\ Second \in Word
    BY <1>3, <1>4, <2>1, PopType, PoppedWord DEF AfterTwoPops, First, Second
  <2>3. /\ Adds(Context, Pop(Context, D), D, -1)
        /\ Adds(Pop(Context, D), AfterTwoPops, D, -1)
    BY <1>3, <1>4, <2>1, PopAdds DEF AfterTwoPops
  <2>4. Adds(Context, AfterTwoPops, D, (-1) + (-1))
    BY <1>3, <1>4, <2>3, AddsUp
  <2> QED
    BY <2>1, <2>2, <2>3, <2>4
\* A pop and a push.
<1>6. ASSUME NEW s \in StackID, NEW v \in Word
      PROVE  Adds(Context, Push(Pop(Context, s), s, v), s, 0)
  <2>1. /\ Adds(Context, Pop(Context, s), s, -1)
        /\ Adds(Pop(Context, s), Push(Pop(Context, s), s, v), s, 1)
    BY <1>3, PopType, PopAdds, PushAdds
  <2> QED
    BY <1>3, <2>1, AddsUp
<1>7. ASSUME NEW c \in Contexts
      PROVE  Fits(Raise(c, "IllegalInstruction"), ManualEffect(w))
  BY <1>4, <1>7, RaiseType DEF Fits
<1>8. CASE Enter
  <2>1. Wrap(pc + 2) \in Word /\ w \div 16384 = 1
    BY <1>8, WordInt, WrapWord DEF Enter, TypeOK, w
  <2>2. Fit(Push(Context, R, Wrap(pc + 2)))
    BY <1>1, <1>3, <1>4, <2>1, PushAdds, AddsFits, EffectOf
  <2> QED
    BY <1>8, <2>2 DEF Enter, w
<1>9. CASE BranchIfFalse
  <2>1. Fit(Pop(Context, D))
    BY <1>1, <1>4, <1>5, <1>9, AddsFits, EffectOf DEF BranchIfFalse, w
  <2> QED
    BY <1>9, <2>1 DEF BranchIfFalse, w
<1>10. CASE Nop \/ Halt
  <2>1. w \div 4096 = 8 /\ Field(w, 256, 16) # 1
    BY <1>10 DEF Nop, Halt, Control, w
  <2>2. ManualEffect(w) = None
    BY <1>1, <2>1, EffectOfControl
  <2>3. Adds(Context, Context, D, 0)
    BY <1>3, <1>4, LenProperties DEF Adds, Contexts
  <2>4. Adds(Context, [Context EXCEPT !.going = FALSE], D, 0)
    BY <1>3, <1>4, HaltType, LenProperties DEF Adds, Contexts
  <2> QED
    BY <1>4, <1>10, <2>2, <2>3, <2>4, NoneFits DEF Nop, Halt, w
<1>11. CASE Leave
  <2>1. w \div 4096 = 8 /\ Field(w, 256, 16) = 1
    BY <1>11 DEF Leave, Control, w
  <2>2. Fit(Pop(Context, R))
    BY <1>1, <1>3, <1>4, <2>1, PopAdds, AddsFits, EffectOfControl
  <2> QED
    BY <1>11, <2>2 DEF Leave, w
<1>12. CASE LoadLow
  <2>1. w \div 4096 = 12
    BY <1>12 DEF LoadLow, w
  <2>2. Fit(Push(Context, Field(w, 1024, 4), w % 1024))
    BY <1>1, <1>2, <1>3, <2>1, PushAdds, AddsFits, EffectOf
  <2> QED
    BY <1>12, <2>2 DEF LoadLow, w
<1>13. CASE LoadHigh
  <2> DEFINE s == Field(w, 1024, 4)
             v == BitOr(Popped(Context, s), 1024 * (w % 64))
  <2>1. w \div 4096 = 13
    BY <1>13 DEF LoadHigh, w
  <2>2. v \in Word
    BY FromBitsWord DEF BitOr
  <2>3. Done(Push(Pop(Context, s), s, v))
    BY <1>13 DEF LoadHigh, w
  <2> HIDE DEF v, s
  <2>4. Fit(Push(Pop(Context, s), s, v))
    BY <1>1, <1>2, <1>6, <2>1, <2>2, NoneFits, EffectOf DEF s
  <2> QED
    BY <2>3, <2>4 DEF w
<1>14. CASE Binary
  <2> DEFINE func   == Field(w, 128, 32)
             signed == Field(w, 16, 2) = 1
  <2>1. PICK n \in BinaryResults(func, signed, First, Second) :
          Finish(Push(AfterTwoPops, D, n), pc + 2)
    BY <1>14 DEF Binary, w
  <2>2. /\ Implemented(func, signed) /\ signed \in BOOLEAN
        /\ w \div 4096 = 14 /\ func # 11
    BY <1>14 DEF Binary, Implemented, w
  <2>3. ManualEffect(w) = [None EXCEPT ![D] = -1]
    BY <1>1, <2>2, EffectOfBinary
  <2> HIDE DEF func, signed
  <2>4. n \in Word
    BY <1>5, <2>1, <2>2, BinaryWord
  <2>5. Adds(AfterTwoPops, Push(AfterTwoPops, D, n), D, 1)
    BY <1>4, <1>5, <2>4, PushAdds
  <2>6. Adds(Context, Push(AfterTwoPops, D, n), D, -1)
    <3>1. Adds(Context, Push(AfterTwoPops, D, n), D, (-2) + 1)
      BY <1>3, <1>4, <1>5, <2>5, AddsUp
    <3> QED
      BY <3>1
  <2>7. Fits(Push(AfterTwoPops, D, n), [None EXCEPT ![D] = -1])
    BY <1>4, <2>6, AddsFits
  <2> QED
    BY <2>1, <2>3, <2>7 DEF w
<1>15. CASE Store
  <2>1. ManualEffect(w) = [None EXCEPT ![D] = -2]
    BY <1>1, <1>15, EffectOfBinary DEF Store, w
  <2>2. Fit(AfterTwoPops)
    <3>1. Fits(AfterTwoPops, [None EXCEPT ![D] = -2])
      BY <1>4, <1>5, AddsFits
    <3> QED
      BY <2>1, <3>1
  <2>3. Fit(Raise(AfterTwoPops, "IllegalInstruction"))
    BY <1>5, <1>7
  <2>4. \/ Finish(AfterTwoPops, pc + 2)
        \/ Finish(Raise(AfterTwoPops, "IllegalInstruction"), pc + 2)
    BY <1>15 DEF Store
  <2> QED
    BY <2>2, <2>3, <2>4 DEF w
<1>16. CASE NegNot
  <2> DEFINE n == IF Field(w, 256, 16) = 0 THEN Wrap(0 - First)
                                           ELSE BitNot(First)
  <2>1. First \in Int /\ 0 <= First /\ First <= 65535
    BY <1>5, WordInt
  <2>2. n \in Word
    BY <2>1, WrapWord, WordInt DEF BitNot
  <2>3. w \div 4096 = 15 /\ Finish(Push(Pop(Context, D), D, n), pc + 2)
    BY <1>16 DEF NegNot, w
  <2> HIDE DEF n
  <2>4. Fit(Push(Pop(Context, D), D, n))
    BY <1>1, <1>4, <1>6, <2>2, <2>3, NoneFits, EffectOf
  <2> QED
    BY <2>3, <2>4 DEF w
<1>17. CASE Read
  <2>1. ByteAt(First) \in Word /\ w \div 4096 = 15
    BY <1>17, FetchWord DEF Read, w
  <2>2. Fit(Push(Pop(Context, D), D, ByteAt(First)))
    BY <1>1, <1>4, <1>6, <2>1, NoneFits, EffectOf
  <2>3. Fit(Raise(Pop(Context, D), "IllegalInstruction"))
    BY <1>5, <1>7
  <2>4. \/ Finish(Push(Pop(Context, D), D, ByteAt(First)), pc + 2)
        \/ Finish(Raise(Pop(Context, D), "IllegalInstruction"), pc + 2)
    BY <1>17 DEF Read
  <2> QED
    BY <2>2, <2>3, <2>4 DEF w
<1>18. CASE Illegal
  <2>1. Fit(Raise(Context, "IllegalInstruction"))
    BY <1>3, <1>7
  <2> QED
    BY <1>18, <2>1 DEF Illegal, w
<1>19. CASE Stack
  <2> DEFINE func == Field(w, 256, 16)
             s    == Field(w, 64, 4)
             t    == Field(w, 16, 4)
             v1   == Popped(Context, s)
             c1   == Pop(Context, s)
             v2   == Popped(c1, s)
             c2   == Pop(c1, s)
             d1   == Push(c1, s, v1)
             d2   == Push(c2, s, v1)
  <2>1. w \div 4096 = 11 /\ Done(StackOperation(Context, func, s, t))
    BY <1>19 DEF Stack, w
  <2>2. s \in StackID /\ t \in StackID
    BY <1>2
  <2>3. /\ StackOperation(Context, func, s, t)
             = CASE func = 0 -> c1
                 [] func = 1 -> Push(d1, s, v1)
                 [] func = 2 -> Push(d2, s, v2)
                 [] func = 3 -> Push(c1, t, v1)
                 [] OTHER    -> Raise(Context, "IllegalInstruction")
    BY DEF StackOperation
  <2>4. /\ func = 0 => ManualEffect(w) = [None EXCEPT ![s] = -1]
        /\ func = 1 => ManualEffect(w) = [None EXCEPT ![s] = 1]
        /\ func = 2 => ManualEffect(w) = None
        /\ func = 3 /\ s = t => ManualEffect(w) = None
        /\ func = 3 /\ s # t =>
             ManualEffect(w) = [None EXCEPT ![s] = -1, ![t] = 1]
    BY <1>1, <2>1, EffectOfStack
  <2> HIDE DEF func, s, t
  <2>5. c1 \in Contexts /\ v1 \in Word /\ Adds(Context, c1, s, -1)
    BY <1>3, <2>2, PopType, PoppedWord, PopAdds
  <2> HIDE DEF c1, v1
  <2>6. c2 \in Contexts /\ v2 \in Word /\ Adds(c1, c2, s, -1)
    BY <2>2, <2>5, PopType, PoppedWord, PopAdds
  <2> HIDE DEF c2, v2
  <2>7. d1 \in Contexts /\ Adds(c1, d1, s, 1)
    BY <2>2, <2>5, PushType, PushAdds
  <2>8. d2 \in Contexts /\ Adds(c2, d2, s, 1)
    BY <2>2, <2>5, <2>6, PushType, PushAdds
  <2> HIDE DEF d1, d2
  <2>9. CASE func = 0
    <3>1. Fit(c1)
      BY <2>2, <2>4, <2>5, <2>9, AddsFits
    <3> QED
      BY <2>1, <2>3, <2>9, <3>1 DEF w
  <2>10. CASE func = 1
    <3>1. Adds(d1, Push(d1, s, v1), s, 1)
      BY <2>2, <2>5, <2>7, PushAdds
    <3>2. Adds(c1, Push(d1, s, v1), s, 1 + 1)
      BY <2>2, <2>5, <2>7, <3>1, AddsUp
    <3>3. Adds(Context, Push(d1, s, v1), s, (-1) + (1 + 1))
      BY <1>3, <2>2, <2>5, <3>2, AddsUp
    <3>4. Fit(Push(d1, s, v1))
      BY <2>2, <2>4, <2>10, <3>3, AddsFits
    <3> QED
      BY <2>1, <2>3, <2>10, <3>4 DEF w
  <2>11. CASE func = 2
    <3>1. Adds(d2, Push(d2, s, v2), s, 1)
      BY <2>2, <2>6, <2>8, PushAdds
    <3>2. Adds(c2, Push(d2, s, v2), s, 1 + 1)
      BY <2>2, <2>6, <2>8, <3>1, AddsUp
    <3>3. Adds(c1, Push(d2, s, v2), s, (-1) + (1 + 1))
      BY <2>2, <2>5, <2>6, <3>2, AddsUp
    <3>4. Adds(Context, Push(d2, s, v2), s, (-1) + ((-1) + (1 + 1)))
      BY <1>3, <2>2, <2>5, <3>3, AddsUp
    <3>5. Fit(Push(d2, s, v2))
      BY <2>2, <2>4, <2>11, <3>4, NoneFits
    <3> QED
      BY <2>1, <2>3, <2>11, <3>5 DEF w
  <2>12. CASE func = 3 /\ s = t
    <3>1. Adds(c1, Push(c1, s, v1), s, 1)
      BY <2>2, <2>5, PushAdds
    <3>2. Adds(Context, Push(c1, s, v1), s, (-1) + 1)
      BY <1>3, <2>2, <2>5, <3>1, AddsUp
    <3>3. Fit(Push(c1, t, v1))
      BY <2>2, <2>4, <2>12, <3>2, NoneFits
    <3> QED
      BY <2>1, <2>3, <2>12, <3>3 DEF w
  <2>13. CASE func = 3 /\ s # t
    <3>1. Adds(c1, Push(c1, t, v1), t, 1)
      BY <2>2, <2>5, PushAdds
    <3>2. Fit(Push(c1, t, v1))
      BY <2>2, <2>4, <2>5, <2>13, <3>1, MoveFits
    <3> QED
      BY <2>1, <2>3, <2>13, <3>2 DEF w
  <2>14. CASE func \notin {0, 1, 2, 3}
    <3>1. Fit(Raise(Context, "IllegalInstruction"))
      BY <1>3, <1>7
    <3> QED
      BY <2>1, <2>3, <2>14, <3>1 DEF w
  <2> QED
    BY <2>9, <2>10, <2>11, <2>12, <2>13, <2>14
<1> QED
  BY <1>8, <1>9, <1>10, <1>11, <1>12, <1>13, <1>14, <1>15, <1>16, <1>17,
     <1>18, <1>19 DEF Execute

-----------------------------------------------------------------------------
(* What the instructions do to the stacks, as theorems.                    *)
\* Whatever program runs, as long as it puts nothing on the return stack with
\* MOV, LDL or LDH and nothing went wrong, each cell of that stack is the
\* address behind an ENTER: LEAVE (fpemu.c:226) goes back to a call.
THEOREM ReturnsInOrder == Spec => []ReturnAddresses
<1>1. Init => ReturnAddresses
  BY DEF Init, ReturnAddresses, StackID
<1>2. ReturnAddresses /\ UNCHANGED vars => ReturnAddresses'
  BY DEF ReturnAddresses, CodeAddresses, WordAt, ByteAt, vars, regs
<1>3. TypeOK /\ TypeOK' /\ ReturnAddresses /\ [Step]_vars => ReturnAddresses'
  BY <1>2, StepReturning
<1> QED
  BY <1>1, <1>3, TypeCorrect, PTL DEF Spec

\* Every instruction that raises nothing has the effect on the depth of each
\* of the four stacks that the manual's notation gives it (run(), fpemu.c:177).
THEOREM EffectsAsDocumented == Spec => StackEffect
<1> DEFINE A == exception' = "AllIsOK" =>
                  \A s \in StackID :
                    Len(stacks'[s])
                      = Len(stacks[s]) + ManualEffect(instruction')[s]
<1>1. TypeOK /\ Step => A
  <2> SUFFICES ASSUME TypeOK, Step PROVE A
    OBVIOUS
  <2>1. PICK c : (\E n : Finish(c, n)) /\ Fits(c, ManualEffect(WordAt(pc)))
    BY ExecuteFits DEF Step
  <2>2. /\ instruction' = WordAt(pc)
        /\ stacks' = c.stacks
        /\ exception' = c.exception
    BY <2>1 DEF Finish
  <2> QED
    BY <2>1, <2>2 DEF Fits
<1>2. TypeOK /\ [Step]_vars => [A]_vars
  BY <1>1
<1> QED
  BY <1>2, TypeCorrect, PTL DEF Spec, StackEffect

-----------------------------------------------------------------------------
(* The monitor.                                                            *)

\* The contexts an instruction may leave: only one without an exception, then
\* and before, has a stack with room everywhere.
Recorded ==
  {c \in Contexts :
     c.exception = "AllIsOK" =>
       /\ exception = "AllIsOK"
       /\ \A s \in StackID : Len(c.stacks[s]) < StackSize[s]}

LEMMA RecordedClosed == Closed(Recorded, StackID)
<1> SUFFICES ASSUME NEW c \in Recorded
             PROVE  /\ [c EXCEPT !.going = FALSE] \in Recorded
                    /\ \A e \in Raised : Raise(c, e) \in Recorded
                    /\ \A s \in StackID : Pop(c, s) \in Recorded
                    /\ \A s \in StackID, v \in Word : Push(c, s, v) \in Recorded
  BY DEF Closed, Recorded
<1>1. c \in Contexts
  BY DEF Recorded
<1>2. \A t \in StackID : StackSize[t] \in Nat /\ Len(c.stacks[t]) \in Nat
  BY <1>1, StackSizeAssumption, LenProperties DEF Contexts
<1>3. [c EXCEPT !.going = FALSE] \in Recorded
  BY <1>1, HaltType DEF Recorded
<1>4. \A e \in Raised : Raise(c, e) \in Recorded
  BY <1>1, RaiseType DEF Recorded
<1>5. ASSUME NEW s \in StackID PROVE Pop(c, s) \in Recorded
  <2>1. CASE Pop(c, s) = Raise(c, "StackUnderflow")
    BY <1>4, <2>1 DEF Raised, Exception
  <2>2. CASE Pop(c, s) # Raise(c, "StackUnderflow")
    <3>1. Adds(c, Pop(c, s), s, -1)
      BY <1>1, PopAdds
    <3>2. ASSUME Pop(c, s).exception = "AllIsOK", NEW t \in StackID
          PROVE  Len(Pop(c, s).stacks[t]) < StackSize[t]
      <4>1. Len(c.stacks[t]) < StackSize[t]
        BY <3>1, <3>2 DEF Adds, Recorded
      <4>2. CASE t = s
        BY <1>2, <3>1, <3>2, <4>1, <4>2 DEF Adds
      <4>3. CASE t # s
        BY <3>1, <3>2, <4>1, <4>3 DEF Adds
      <4> QED
        BY <4>2, <4>3
    <3> QED
      BY <3>1, <3>2 DEF Adds, Recorded
  <2> QED
    BY <2>1, <2>2
<1>6. ASSUME NEW s \in StackID, NEW v \in Word PROVE Push(c, s, v) \in Recorded
  <2>1. Adds(c, Push(c, s, v), s, 1)
    BY <1>1, PushAdds
  <2>2. ASSUME Push(c, s, v).exception = "AllIsOK", NEW t \in StackID
        PROVE  Len(Push(c, s, v).stacks[t]) < StackSize[t]
    <3>1. Len(c.stacks[t]) < StackSize[t]
      BY <2>1, <2>2 DEF Adds, Recorded
    <3>2. CASE t = s
      <4>1. Len(c.stacks[s]) + 1 # StackSize[s]
        BY <1>1, <2>2, PushType
      <4>2. Len(Push(c, s, v).stacks[s]) = Len(c.stacks[s]) + 1
        BY <2>1, <2>2 DEF Adds
      <4> QED
        BY <1>2, <3>1, <3>2, <4>1, <4>2
    <3>3. CASE t # s
      BY <2>1, <2>2, <3>1, <3>3 DEF Adds
    <3> QED
      BY <3>2, <3>3
  <2> QED
    BY <2>1, <2>2 DEF Adds, Recorded
<1> QED
  BY <1>3, <1>4, <1>5, <1>6

\* What a turn of run()'s loop does to the state the monitor hands it.
LEMMA StepRecorded ==
  ASSUME TypeOK, OverflowOnRecord, Step
  PROVE  /\ TypeOK'
         /\ OverflowOnRecord'
         /\ exception # "AllIsOK" => exception' # "AllIsOK"
<1>1. Execute /\ UNCHANGED <<memory, single_step>>
  BY DEF Step
<1>2. \A s \in StackID : StackSize[s] \in Nat /\ Len(stacks[s]) \in Nat
  BY StackSizeAssumption, LenProperties DEF TypeOK
<1>3. Context \in Recorded
  BY <1>2 DEF Recorded, Contexts, Context, TypeOK, OverflowOnRecord
<1>4. PICK c \in Recorded, n \in Int : Finish(c, n)
  BY <1>1, <1>3, RecordedClosed, ExecuteCloses
<1>5. /\ instruction' = WordAt(pc)
      /\ stacks' = c.stacks
      /\ exception' = c.exception
      /\ keep_going' = (c.going /\ ~single_step)
      /\ pc' = Wrap(n)
  BY <1>4 DEF Finish
<1>6. c \in Contexts
  BY DEF Recorded
<1>7. /\ c.stacks \in [StackID -> Seq(Word)]
      /\ c.exception \in Exception
      /\ c.going \in BOOLEAN
  BY <1>6 DEF Contexts
<1>8. pc' \in Word /\ instruction' \in Word
  BY <1>5, FetchWord, WrapWord
<1>9. keep_going' \in BOOLEAN
  BY <1>5
<1>10. IsImage(memory)' /\ single_step' \in BOOLEAN
  BY <1>1 DEF TypeOK, IsImage
<1>11. TypeOK'
  BY <1>5, <1>7, <1>8, <1>9, <1>10 DEF TypeOK
<1>12. c.exception = "AllIsOK" =>
         /\ exception = "AllIsOK"
         /\ \A s \in StackID : Len(c.stacks[s]) < StackSize[s]
  BY DEF Recorded
<1>13. \A s \in StackID : Len(c.stacks[s]) \in Nat
  BY <1>7, LenProperties
<1>14. OverflowOnRecord'
  BY <1>2, <1>5, <1>12, <1>13 DEF OverflowOnRecord
<1> QED
  BY <1>5, <1>11, <1>12, <1>14

\* A command letter is one the monitor knows.
LEMMA LetterKnown ==
  ASSUME MonitorTypeOK, NEW l \in Lines
  PROVE  Letter(l) \in Letters
BY DEF MonitorTypeOK, Lines, Letters, Letter

LEMMA LineAddress ==
  ASSUME NEW l \in Lines
  PROVE  l.address \in Word
<1>1. l.address \in Addresses \cup {0}
  BY DEF Lines
<1>2. 0 \in Word
  BY WordInt
<1> QED
  BY <1>1, <1>2, AddressesAssumption

MInv == MonitorTypeOK /\ OverflowOnRecord /\ StepFlagFollowsCommand

LEMMA InitMInv == MonitorInit => MInv
<1> SUFFICES ASSUME MonitorInit PROVE MInv
  OBVIOUS
<1>1. TypeOK /\ StackBound /\ keep_going
  BY InitIInv DEF MonitorInit, IInv, Init
<1>2. MonitorTypeOK
  BY <1>1 DEF MonitorInit, MonitorTypeOK, Lines, Letters
<1>3. \A s \in StackID : Len(stacks[s]) < StackSize[s]
  BY <1>1 DEF StackBound
<1>4. \A s \in StackID : StackSize[s] \in Nat /\ Len(stacks[s]) \in Nat
  BY <1>1, StackSizeAssumption, LenProperties DEF TypeOK
<1>5. OverflowOnRecord
  BY <1>3, <1>4 DEF OverflowOnRecord
<1>6. StepFlagFollowsCommand
  BY DEF MonitorInit, StepFlagFollowsCommand
<1> QED
  BY <1>2, <1>5, <1>6 DEF MInv

\* What every command does to the locals of monitor().
LEMMA PromptType ==
  ASSUME MonitorTypeOK, NEW l \in Lines, NEW letters, Prompt(l, letters)
  PROVE  line' \in Lines /\ command' \in Letters /\ eof' \in BOOLEAN
<1>1. Letter(l) \in Letters
  BY LetterKnown
<1> QED
  BY <1>1 DEF Prompt, Input, MonitorTypeOK

LEMMA CommandMInv ==
  ASSUME MInv, NEW l \in Lines, Command(l)
  PROVE  MInv' /\ exception' = exception
<1>1. MonitorTypeOK /\ TypeOK
  BY DEF MInv, MonitorTypeOK
<1>2. \E letters : Prompt(l, letters)
  BY DEF Command, Run, SingleStep, SetPC, List, Quit
<1>3. line' \in Lines /\ command' \in Letters /\ eof' \in BOOLEAN
  BY <1>1, <1>2, PromptType
<1>4. /\ memory' = memory /\ instruction' = instruction /\ stacks' = stacks
      /\ exception' = exception
  BY DEF Command, Run, SingleStep, SetPC, List, Quit, vars, regs
<1>5. pc' \in {pc, l.address}
  BY DEF Command, Run, SingleStep, SetPC, List, Quit, vars, regs
<1>6. keep_going' \in BOOLEAN /\ single_step' \in BOOLEAN
  BY <1>1 DEF Command, Run, SingleStep, SetPC, List, Quit, vars, regs, TypeOK
<1>7. mode = "prompt" /\ mode' \in {"prompt", "run", "ended"}
  BY DEF Command, Run, SingleStep, SetPC, List, Quit, Prompt
<1>8. pc' \in Word
  BY <1>1, <1>5, LineAddress DEF TypeOK
<1>9. IsImage(memory)'
  BY <1>1, <1>4 DEF TypeOK, IsImage
<1>10. TypeOK'
  BY <1>1, <1>4, <1>6, <1>8, <1>9 DEF TypeOK
<1>11. OverflowOnRecord'
  BY <1>4 DEF MInv, OverflowOnRecord
<1>12. StepFlagFollowsCommand'
  BY <1>7 DEF Command, Run, SingleStep, SetPC, List, Quit, Prompt,
              StepFlagFollowsCommand
<1> QED
  BY <1>3, <1>4, <1>7, <1>10, <1>11, <1>12 DEF MInv, MonitorTypeOK

LEMMA RunningMInv ==
  ASSUME MInv, Running
  PROVE  MInv' /\ (exception # "AllIsOK" => exception' # "AllIsOK")
<1>1. TypeOK /\ OverflowOnRecord /\ Step
  BY DEF MInv, MonitorTypeOK, Running
<1>2. /\ TypeOK' /\ OverflowOnRecord'
      /\ exception # "AllIsOK" => exception' # "AllIsOK"
  BY <1>1, StepRecorded
<1>3. UNCHANGED <<line, command, eof, single_step>> /\ mode = "run"
  BY <1>1 DEF Running, Step
<1>4. mode' \in {"run", "prompt"}
  BY DEF Running
<1>5. MonitorTypeOK'
  BY <1>2, <1>3, <1>4 DEF MInv, MonitorTypeOK
<1>6. StepFlagFollowsCommand'
  BY <1>3 DEF MInv, StepFlagFollowsCommand
<1> QED
  BY <1>2, <1>5, <1>6 DEF MInv

LEMMA NextMInv == MInv /\ [MonitorNext]_monitorVars => MInv'
<1>1. MInv /\ Running => MInv'
  BY RunningMInv
<1>2. ASSUME MInv, NEW l \in Lines, Command(l) PROVE MInv'
  BY <1>2, CommandMInv
<1>3. MInv /\ UNCHANGED monitorVars => MInv'
  BY DEF MInv, MonitorTypeOK, TypeOK, IsImage, OverflowOnRecord,
         StepFlagFollowsCommand, monitorVars, vars, regs
<1> QED
  BY <1>1, <1>2, <1>3 DEF MonitorNext

-----------------------------------------------------------------------------
(* The theorems.                                                           *)

\* What holds at the prompt and inside run(), whatever was typed before.
THEOREM MonitorInvariant == MonitorSpec => []MInv
BY InitMInv, NextMInv, PTL DEF MonitorSpec

\* The registers keep their type under the monitor too, where pc is set by p
\* and the processor resumed at will, and command holds a command (fpemu.c:714).
THEOREM MonitorTypeCorrect == MonitorSpec => []MonitorTypeOK
<1>1. MInv => MonitorTypeOK
  BY DEF MInv
<1> QED
  BY MonitorInvariant, <1>1, PTL

\* A stack that is full or fuller has left an exception on record, however
\* often the processor was resumed (fpemu.c:87).
THEOREM OverflowRecorded == MonitorSpec => []OverflowOnRecord
<1>1. MInv => OverflowOnRecord
  BY DEF MInv
<1> QED
  BY MonitorInvariant, <1>1, PTL

\* No n leaves single_step behind for an r, and no r takes it from an n.
THEOREM StepFlagInForce == MonitorSpec => []StepFlagFollowsCommand
<1>1. MInv => StepFlagFollowsCommand
  BY DEF MInv
<1> QED
  BY MonitorInvariant, <1>1, PTL

\* Neither a command nor an instruction takes an exception off the record.
THEOREM ExceptionKept == MonitorSpec => ExceptionSticks
<1> DEFINE A == exception # "AllIsOK" => exception' # "AllIsOK"
<1>1. MInv /\ Running => A
  BY RunningMInv
<1>2. ASSUME MInv, NEW l \in Lines, Command(l) PROVE A
  BY <1>2, CommandMInv
<1>3. MInv /\ [MonitorNext]_monitorVars => [A]_monitorVars
  BY <1>1, <1>2 DEF MonitorNext
<1> QED
  BY <1>3, MonitorInvariant, PTL DEF MonitorSpec, ExceptionSticks

\* A line without a word never resumes the free run, moves pc or ends the
\* monitor: of the commands only n, d and x are repeated.
THEOREM EmptyLineRepeats == MonitorSpec => EmptyLineIsHarmless
<1> DEFINE A == line'.op = "" /\ mode = "prompt" =>
                  /\ ~(mode' = "run" /\ ~single_step')
                  /\ pc' = pc
                  /\ mode' # "ended"
<1>1. Running => A
  BY DEF Running
<1>2. ASSUME NEW l \in Lines, Command(l), l.op = ""
      PROVE  A
  <2>1. Letter(l) \in {"n", "d", "x", "h"}
    BY <1>2 DEF Letter, Repeatable
  <2>2. SingleStep(l) \/ List(l)
    BY <1>2, <2>1 DEF Command, Run, SetPC, Quit, Prompt
  <2> QED
    BY <2>2 DEF SingleStep, List, Prompt, vars, regs
<1>3. ASSUME NEW l \in Lines, Command(l), l.op # ""
      PROVE  line'.op # ""
  BY <1>3 DEF Command, Run, SingleStep, SetPC, List, Quit, Prompt
<1>4. [MonitorNext]_monitorVars => [A]_monitorVars
  BY <1>1, <1>2, <1>3 DEF MonitorNext
<1> QED
  BY <1>4, PTL DEF MonitorSpec, EmptyLineIsHarmless

-----------------------------------------------------------------------------
(* The targets of jumps.                                                   *)

\* What the disassembler names enter and bif is one, and what it lists behind
\* the name.
LEMMA ListedJump ==
  ASSUME NEW w \in Word, NEW a
  PROVE  LET l == Disassemble(w, a)
         IN  /\ l.name = "enter" => w \div 4096 \in 4 .. 7 /\ l.value = 4 * (w % 16384)
             /\ l.name = "bif" => w \div 4096 = 1 /\ l.value = Wrap(a + Offset(w))
<1> DEFINE g == w \div 4096
           f == Field(w, 256, 16)
           m == Field(w, 128, 32)
           p == Field(w, 16, 2) = 1
           v == 4 * (w % 16384)
           o == IF w % 4096 >= 2048 THEN (w % 4096) - 4096 ELSE w % 4096
           b == Wrap(a + o)
           l == Disassemble(w, a)
<1>1. /\ g \in 0 .. 15 /\ f \in 0 .. 15 /\ m \in 0 .. 31
  BY WordInt DEF Field
<1>2. o = Offset(w)
  BY WordInt DEF Offset
<1> HIDE DEF v, b
<1>3. CASE g \in 4 .. 7
  <2>1. l = Text("enter", <<>>, v)
    BY <1>3 DEF Disassemble, v
  <2> QED
    BY <1>3, <2>1 DEF Text, v
<1>4. CASE g = 1
  <2>1. l = Text("bif", <<>>, b)
    BY <1>4 DEF Disassemble, b
  <2> QED
    BY <1>2, <1>4, <2>1 DEF Text, b
<1>6. \A n, q, k : Instr(n, q).name = n /\ Text(n, q, k).name = n
  BY DEF Instr, Text
<1>5. CASE g \notin {1, 4, 5, 6, 7}
  <2> HIDE DEF g, f, m, p
  <2>1. l.name \notin {"enter", "bif"}
    <3>1. CASE g = 8 /\ f <= 2
      <4>1. l = Instr(<<"nop", "leave", "halt">>[f + 1], <<>>)
        BY <1>1, <3>1 DEF Disassemble, g, f
      <4>2. f = 0 \/ f = 1 \/ f = 2
        BY <1>1, <3>1
      <4>3. <<"nop", "leave", "halt">>[f + 1] \notin {"enter", "bif"}
        BY <4>2
      <4> QED
        BY <1>6, <4>1, <4>3
    <3>2. CASE g = 11 /\ f <= 2
      <4>1. l = Instr(<<"drop", "dup", "swap">>[f + 1], <<ListedStack(w, 64)>>)
        BY <1>1, <3>2 DEF Disassemble, g, f
      <4>2. f = 0 \/ f = 1 \/ f = 2
        BY <1>1, <3>2
      <4>3. <<"drop", "dup", "swap">>[f + 1] \notin {"enter", "bif"}
        BY <4>2
      <4> QED
        BY <1>6, <4>1, <4>3
    <3>3. CASE g = 14 /\ m # 11
      <4>1. l = Instr(Listed2(m, p), <<>>)
        BY <3>3 DEF Disassemble, g, m, p
      <4>2. Listed2(m, p) \notin {"enter", "bif"}
        BY <1>1 DEF Listed2
      <4> QED
        BY <1>6, <4>1, <4>2
    <3>4. CASE g = 15 /\ f <= 1
      <4>1. l = Instr(<<"neg", "not">>[f + 1], <<>>)
        BY <1>1, <3>4 DEF Disassemble, g, f
      <4>2. f = 0 \/ f = 1
        BY <1>1, <3>4
      <4>3. <<"neg", "not">>[f + 1] \notin {"enter", "bif"}
        BY <4>2
      <4> QED
        BY <1>6, <4>1, <4>3
    <3>5. CASE \/ g = 11 /\ f = 3
               \/ g \in {12, 13}
               \/ g = 14 /\ m = 11
               \/ g = 15 /\ f = 2
      <4>1. l.name \in {"mov", "ldl", "ldh", "isto", "sto", "ird", "rd"}
        <5>1. CASE g = 11 /\ f = 3
          BY <1>6, <5>1 DEF Disassemble, g, f
        <5>2. CASE g = 12
          BY <1>6, <5>2 DEF Disassemble, g, f
        <5>3. CASE g = 13
          BY <1>6, <5>3 DEF Disassemble, g, f
        <5>4. CASE g = 14 /\ m = 11
          BY <1>6, <5>4 DEF Disassemble, g, m
        <5>5. CASE g = 15 /\ f = 2
          BY <1>6, <5>5 DEF Disassemble, g, f
        <5> QED
          BY <3>5, <5>1, <5>2, <5>3, <5>4, <5>5
      <4> QED
        BY <4>1
    <3>6. CASE \/ g \in {0, 2, 3, 9, 10}
               \/ g = 8 /\ f > 2
               \/ g = 11 /\ f > 3
               \/ g = 15 /\ f > 2
      <4>1. l.name \in {"", "?"}
        <5>1. ASSUME g \in {0, 2, 3, 9, 10} PROVE l = Blank
          <6>1. /\ g \notin 4 .. 7 /\ g # 1 /\ g # 8 /\ g # 11 /\ g # 12 /\ g # 13
                /\ g # 14 /\ g # 15 /\ g \notin {8, 15}
            BY <5>1
          <6> QED
            BY <6>1 DEF Disassemble, g
        <5>2. g \in {8, 15} /\ f > 2 => l = Question
          BY <1>1 DEF Disassemble, g, f
        <5>3. g = 11 /\ f > 3 => l = Question
          BY <1>1 DEF Disassemble, g, f
        <5>4. l \in {Blank, Question}
          BY <3>6, <5>1, <5>2, <5>3
        <5> QED
          BY <1>6, <5>4 DEF Blank, Question
      <4> QED
        BY <4>1
    <3> HIDE DEF l
    <3> QED
      BY <1>1, <1>5, <3>1, <3>2, <3>3, <3>4, <3>5, <3>6
  <2> QED
    BY <2>1
<1> QED
  BY <1>1, <1>3, <1>4, <1>5

\* Every instruction that goes where a group says is of that group.
LEMMA JumpsByGroup ==
  ASSUME TypeOK, Execute
  PROVE  /\ WordAt(pc) \div 4096 \in 4 .. 7 => Enter
         /\ WordAt(pc) \div 4096 = 1 => BranchIfFalse
<1> DEFINE w == WordAt(pc)
<1>1. w \in Word
  BY FetchWord
<1>2. w \div 16384 = 1 <=> w \div 4096 \in 4 .. 7
  BY <1>1, WordInt
<1> HIDE DEF w
<1>3. \/ Enter \/ BranchIfFalse
      \/ w \div 4096 \in {0, 2, 3, 8, 9, 10, 11, 12, 13, 14, 15}
  BY DEF Execute, Nop, Leave, Halt, Control, Stack, LoadLow, LoadHigh, Binary,
         Store, NegNot, Read, Illegal, IsIllegal, w
<1>4. Enter => w \div 4096 \in 4 .. 7
  BY <1>2 DEF Enter, w
<1>5. BranchIfFalse => w \div 4096 = 1
  BY DEF BranchIfFalse, w
<1> QED
  BY <1>3, <1>4, <1>5 DEF w

\* The disassembler's targets are where the emulator goes: at every address of
\* every image, forwards, backwards and across the end of memory.
THEOREM TargetsAsListed == Spec => ListedTargets
<1> DEFINE Lists(l) ==
             /\ l.name = "enter" => pc' = l.value
             /\ l.name = "bif" /\ stacks[D] # <<>> =>
                  pc' = IF Head(stacks[D]) = 0 THEN l.value ELSE Wrap(pc + 2)
           A == \A l \in {Disassemble(instruction', pc)} : Lists(l)
<1>1. ASSUME TypeOK, Step PROVE A
  <2> DEFINE w == WordAt(pc)
             l == Disassemble(w, pc)
  <2>1. w \in Word /\ pc \in Int
    BY <1>1, FetchWord, WordInt DEF TypeOK
  <2>2. Execute
    BY <1>1 DEF Step
  <2>3. instruction' = w
    BY <1>1, <2>2 DEF Execute, Enter, BranchIfFalse, Nop, Leave, Halt, Stack,
       LoadLow, LoadHigh, Binary, Store, NegNot, Read, Illegal, Finish
  <2>4. /\ l.name = "enter" => w \div 4096 \in 4 .. 7 /\ l.value = 4 * (w % 16384)
        /\ l.name = "bif" => w \div 4096 = 1 /\ l.value = Wrap(pc + Offset(w))
    BY <2>1, ListedJump
  <2> HIDE DEF l
  <2>5. ASSUME l.name = "enter" PROVE pc' = l.value
    <3>1. Enter
      BY <1>1, <2>2, <2>4, <2>5, JumpsByGroup
    <3>2. pc' = Wrap(4 * (w % 16384))
      BY <3>1 DEF Enter, Finish
    <3>3. Wrap(4 * (w % 16384)) = 4 * (w % 16384)
      BY <2>1, WordInt DEF Wrap
    <3> QED
      BY <2>4, <2>5, <3>2, <3>3
  <2>6. ASSUME l.name = "bif", stacks[D] # <<>>
        PROVE  pc' = IF Head(stacks[D]) = 0 THEN l.value ELSE Wrap(pc + 2)
    <3>1. BranchIfFalse
      BY <1>1, <2>2, <2>4, <2>6, JumpsByGroup
    <3>2. Popped(Context, D) = Head(stacks[D])
      BY <2>6 DEF Popped, Context
    <3>3. pc' = Wrap(IF Popped(Context, D) = 0 THEN pc + Offset(w) ELSE pc + 2)
      BY <3>1 DEF BranchIfFalse, Finish
    <3> QED
      BY <2>4, <2>6, <3>2, <3>3
  <2> QED
    BY <2>3, <2>5, <2>6 DEF l
<1>2. TypeOK /\ [Step]_vars => [A]_vars
  BY <1>1
<1> QED
  BY TypeCorrect, <1>2, PTL DEF Spec, ListedTargets

-----------------------------------------------------------------------------
(* Cells and their bits.                                                   *)

\* The powers of two of the manual's bits are those the shifts use.
LEMMA PowerIs == \A k \in 0 .. 15 : Power[k + 1] = 2 ^ k
<1> SUFFICES ASSUME NEW k \in 0 .. 15 PROVE Power[k + 1] = 2 ^ k
  OBVIOUS
<1>1. /\ Power[1] = 2 ^ 0 /\ Power[2] = 2 ^ 1 /\ Power[3] = 2 ^ 2
      /\ Power[4] = 2 ^ 3 /\ Power[5] = 2 ^ 4 /\ Power[6] = 2 ^ 5
      /\ Power[7] = 2 ^ 6 /\ Power[8] = 2 ^ 7 /\ Power[9] = 2 ^ 8
      /\ Power[10] = 2 ^ 9 /\ Power[11] = 2 ^ 10 /\ Power[12] = 2 ^ 11
      /\ Power[13] = 2 ^ 12 /\ Power[14] = 2 ^ 13 /\ Power[15] = 2 ^ 14
      /\ Power[16] = 2 ^ 15
  BY DEF Power
<1>2. \/ k = 0 \/ k = 1 \/ k = 2 \/ k = 3 \/ k = 4 \/ k = 5 \/ k = 6 \/ k = 7
      \/ k = 8 \/ k = 9 \/ k = 10 \/ k = 11 \/ k = 12 \/ k = 13 \/ k = 14
      \/ k = 15
  OBVIOUS
<1> DEFINE p(i) == Power[i + 1]
           e(i) == 2 ^ i
<1>3. /\ p(0) = e(0) /\ p(1) = e(1) /\ p(2) = e(2) /\ p(3) = e(3)
      /\ p(4) = e(4) /\ p(5) = e(5) /\ p(6) = e(6) /\ p(7) = e(7)
      /\ p(8) = e(8) /\ p(9) = e(9) /\ p(10) = e(10) /\ p(11) = e(11)
      /\ p(12) = e(12) /\ p(13) = e(13) /\ p(14) = e(14) /\ p(15) = e(15)
  BY <1>1
<1> HIDE DEF p, e
<1>4. p(k) = e(k)
  BY <1>2, <1>3
<1> QED
  BY <1>4 DEF p, e

\* The value of a set of bits is a sum that can be split.
LEMMA CellSum ==
  ASSUME NEW B, IsFiniteSet(B)
  PROVE  \E g : Summed(g, [k \in B |-> 2 ^ k], B) /\ CellOf(B) = g[B]
<1> DEFINE f == [k \in B |-> 2 ^ k]
           Folded(g) ==
             g = [Q \in SUBSET B |->
                    IF Q = {} THEN 0
                    ELSE LET x == CHOOSE x \in Q : TRUE
                         IN  2 ^ x + g[Q \ {x}]]
           h == CHOOSE g : Folded(g)
<1>1. CellOf(B) = h[B]
  BY DEF CellOf, MapThenSumSet, MapThenFoldSet
<1>2. ASSUME NEW g PROVE Folded(g) <=> Summed(g, f, B)
  <2> DEFINE at(Q) == CHOOSE x \in Q : TRUE
  <2>1. \A Q \in SUBSET B : Q # {} => at(Q) \in B
    OBVIOUS
  <2> HIDE DEF at
  <2>2. \A Q \in SUBSET B : Q # {} => f[at(Q)] = 2 ^ at(Q)
    BY <2>1
  <2> HIDE DEF f
  <2> QED
    BY <2>2 DEF Summed, at
<1>3. Folded(h)
  <2>1. PICK g : Summed(g, f, B)
    BY SumExists
  <2> HIDE DEF Folded
  <2> QED
    BY <1>2, <2>1
<1>4. Summed(h, f, B)
  BY <1>2, <1>3
<1> QED
  BY <1>1, <1>4

\* The cell with given bits, as Words builds it.
LEMMA CellBits ==
  ASSUME NEW P \in [0 .. 15 -> BOOLEAN]
  PROVE  CellOf({k \in 0 .. 15 : P[k]}) = FromBits(P)
<1> DEFINE B == {k \in 0 .. 15 : P[k]}
           f == [k \in B |-> 2 ^ k]
           Above(j) == {k \in B : k >= j}
<1>1. IsFiniteSet(B)
  <2>1. IsFiniteSet(0 .. 15)
    <3> DEFINE lo == 0
               hi == 15
    <3>1. lo \in Int /\ hi \in Int
      OBVIOUS
    <3> HIDE DEF lo, hi
    <3>2. IsFiniteSet(lo .. hi)
      BY <3>1, FS_Interval
    <3> QED
      BY <3>2 DEF lo, hi
  <2>2. B \in SUBSET (0 .. 15)
    OBVIOUS
  <2> HIDE DEF B
  <2> QED
    BY <2>1, <2>2, FS_Subset
<1>2. PICK g : Summed(g, f, B) /\ CellOf(B) = g[B]
  <2> HIDE DEF B
  <2> QED
    BY <1>1, CellSum
<1>3. f \in [B -> Int] /\ \A k \in B : f[k] = Power[k + 1]
  <2>1. \A k \in 0 .. 15 : 2 ^ k = Power[k + 1] /\ Power[k + 1] \in Int
    <3>1. \A k \in 0 .. 15 : Power[k + 1] = 2 ^ k
      BY PowerIs
    <3>2. \A k \in 0 .. 15 : Power[k + 1] \in Int
      BY PowerNat
    <3> QED
      BY <3>1, <3>2, Zenon
  <2>2. B \in SUBSET (0 .. 15)
    OBVIOUS
  <2> HIDE DEF B
  <2> QED
    BY <2>1, <2>2
<1> DEFINE v(j) == g[Above(j)]
<1>4. \A Q \in SUBSET B : g[Q] \in Int /\ \A x \in Q : g[Q] = f[x] + g[Q \ {x}]
  <2> HIDE DEF B, f
  <2> QED
    BY <1>1, <1>2, <1>3, SumSplits
<1>5. g[{}] = 0
  BY <1>2 DEF Summed
<1>6. ASSUME NEW j \in 0 .. 15
      PROVE  v(j) = Power[j + 1] * Digit(P, j) + v(j + 1)
  <2>1. Power[j + 1] \in Int /\ v(j) \in Int /\ v(j + 1) \in Int
    <3>1. Above(j) \in SUBSET B /\ Above(j + 1) \in SUBSET B
      OBVIOUS
    <3> HIDE DEF Above, B, f
    <3> QED
      BY <1>4, <3>1, PowerNat
  <2>2. CASE P[j]
    <3>1. j \in Above(j) /\ Above(j) \ {j} = Above(j + 1) /\ j \in B
      BY <2>2
    <3>2. Above(j) \in SUBSET B
      OBVIOUS
    <3> HIDE DEF Above, B, f
    <3>3. v(j) = Power[j + 1] + v(j + 1)
      BY <1>3, <1>4, <3>1, <3>2
    <3>4. Digit(P, j) = 1
      BY <2>2 DEF Digit
    <3> HIDE DEF v
    <3> QED
      BY <2>1, <3>3, <3>4
  <2>3. CASE ~P[j]
    <3>1. Above(j) = Above(j + 1)
      BY <2>3
    <3>2. Digit(P, j) = 0
      BY <2>3 DEF Digit
    <3>3. v(j) = v(j + 1)
      BY <3>1
    <3> HIDE DEF v
    <3> QED
      BY <2>1, <3>2, <3>3
  <2> QED
    BY <2>2, <2>3
<1>7. Above(0) = B /\ Above(16) = {}
  OBVIOUS
<1>8. v(16) = 0 /\ CellOf(B) = v(0)
  BY <1>2, <1>5, <1>7
<1> HIDE DEF v
<1> DEFINE d(i) == Digit(P, i)
<1>9. \A i : d(i) \in Int
  BY DEF Digit
<1>10. /\ v(0) = d(0) + v(1) /\ v(1) = 2 * d(1) + v(2)
       /\ v(2) = 4 * d(2) + v(3) /\ v(3) = 8 * d(3) + v(4)
       /\ v(4) = 16 * d(4) + v(5) /\ v(5) = 32 * d(5) + v(6)
       /\ v(6) = 64 * d(6) + v(7) /\ v(7) = 128 * d(7) + v(8)
  <2> HIDE DEF d
  <2>1. \A j \in 0 .. 7 : v(j) = Power[j + 1] * d(j) + v(j + 1)
    BY <1>6 DEF d
  <2> QED
    BY <1>9, <2>1 DEF Power
<1>11. /\ v(8) = 256 * d(8) + v(9) /\ v(9) = 512 * d(9) + v(10)
       /\ v(10) = 1024 * d(10) + v(11) /\ v(11) = 2048 * d(11) + v(12)
       /\ v(12) = 4096 * d(12) + v(13) /\ v(13) = 8192 * d(13) + v(14)
       /\ v(14) = 16384 * d(14) + v(15) /\ v(15) = 32768 * d(15) + v(16)
  <2> HIDE DEF d
  <2>1. \A j \in 8 .. 15 : v(j) = Power[j + 1] * d(j) + v(j + 1)
    BY <1>6 DEF d
  <2> QED
    BY <1>9, <2>1 DEF Power
<1>12. LowByte(P) = d(0) + 2*d(1) + 4*d(2) + 8*d(3)
                      + 16*d(4) + 32*d(5) + 64*d(6) + 128*d(7)
  BY DEF LowByte
<1>13. HighByte(P) = d(8) + 2*d(9) + 4*d(10) + 8*d(11)
                      + 16*d(12) + 32*d(13) + 64*d(14) + 128*d(15)
  BY DEF HighByte
<1> HIDE DEF d
<1>14. v(0) = LowByte(P) + 256 * HighByte(P)
  <2>1. v(0) = LowByte(P) + v(8)
    <3>1. v(8) \in Int
      BY <1>4 DEF v
    <3> QED
      BY <1>9, <1>10, <1>12, <3>1
  <2>2. v(8) = 256 * HighByte(P)
    BY <1>8, <1>9, <1>11, <1>13
  <2> QED
    BY <2>1, <2>2
<1> QED
  BY <1>8, <1>14 DEF FromBits

-----------------------------------------------------------------------------
(* Arithmetic on signed and unsigned cells, and shifts.                    *)

\* The signed reading of a cell is the cell, up to a carry.
LEMMA SignedRest ==
  ASSUME NEW n \in Word
  PROVE  \E q \in Int : ToSigned(n) = n - 65536 * q
<1>1. n \in Int
  BY WordInt
<1>2. ToSigned(n) = n - 65536 * 0 \/ ToSigned(n) = n - 65536 * 1
  BY <1>1 DEF ToSigned
<1> QED
  BY <1>2

\* A sum is the same for both readings.
LEMMA AddMeans ==
  ASSUME NEW m \in Word, NEW n \in Word
  PROVE  Wrap(n + m) = Wrap(ToSigned(m) + ToSigned(n))
<1>1. /\ m \in Int /\ n \in Int /\ n + m \in Int
  BY WordInt
<1>2. PICK p \in Int : ToSigned(m) = m - 65536 * p
  BY SignedRest
<1>3. PICK q \in Int : ToSigned(n) = n - 65536 * q
  BY SignedRest
<1>4. PICK r \in Int : Wrap(n + m) = (n + m) - 65536 * r
  BY <1>1, WrapRest
<1> DEFINE d == (r - p) - q
           w == Wrap(n + m)
           z == ToSigned(m) + ToSigned(n)
<1>5. z = w + 65536 * d /\ d \in Int /\ z \in Int
  BY <1>1, <1>2, <1>3, <1>4
<1>6. w \in Word
  BY <1>1, WrapWord
<1> HIDE DEF d, w, z
<1>7. Wrap(z) = w
  BY <1>5, <1>6, WrapSame
<1> QED
  BY <1>7 DEF w, z

\* and so are the low bits of a product.
LEMMA MulMeans ==
  ASSUME NEW m \in Word, NEW n \in Word
  PROVE  Mul(n, m) = Wrap(ToSigned(m) * ToSigned(n))
<1>1. m \in Int /\ n \in Int
  BY WordInt
<1>2. PICK r \in Int : Mul(n, m) = n * m - 65536 * r
  BY MulRest
<1> DEFINE w == Mul(n, m)
           z == ToSigned(m) * ToSigned(n)
<1>3. w \in Word
  BY MulWord
<1> DEFINE nm == n * m
<1>4. nm \in Int /\ w = nm - 65536 * r
  BY <1>1, <1>2
<1>5. \E d \in Int : z = nm - 65536 * d
  <2> DEFINE x == 65536
             a == m - x
             b == n - x
             times(i, j) == i * j
             sm == ToSigned(m)
             sn == ToSigned(n)
             less(i) == nm - x * i
  <2>1. x \in Int
    OBVIOUS
  <2>2. (sm = m \/ sm = a) /\ (sn = n \/ sn = b)
    BY DEF ToSigned
  <2>3. z = times(sm, sn)
    OBVIOUS
  <2> HIDE DEF x
  <2>4. times(m, n) = less(0)
    BY <1>1, <2>1
  <2>5. times(a, n) = less(n)
    BY <1>1, <2>1
  <2>6. times(m, b) = less(m)
    BY <1>1, <2>1
  <2>7. times(a, b) = less(m + b)
    BY <1>1, <2>1
  <2>8. m + b \in Int
    BY <1>1, <2>1
  <2> HIDE DEF times, less, sm, sn, a, b, z
  <2>9. \E d \in Int : z = less(d)
    BY <1>1, <2>2, <2>3, <2>4, <2>5, <2>6, <2>7, <2>8
  <2> QED
    BY <2>9 DEF less, x
<1>6. PICK d \in Int : z = nm - 65536 * d
  BY <1>5
<1> HIDE DEF w, z, nm
<1> DEFINE e == r - d
<1>7. z = w + 65536 * e /\ e \in Int /\ z \in Int
  BY <1>4, <1>6
<1> HIDE DEF e
<1>8. Wrap(z) = w
  BY <1>3, <1>7, WrapSame
<1> QED
  BY <1>8 DEF w, z

\* The shifts, by less than the width of a cell.
LeftOf(m, k)  == Wrap((m % (65536 \div 2 ^ k)) * 2 ^ k)
RightOf(m, k) == m \div 2 ^ k
ArithOf(m, k) == Wrap(ToSigned(m) \div 2 ^ k)

ShiftsAgree(m, k) ==
  /\ ShiftLeft(m, k) = LeftOf(m, k)
  /\ ShiftRight(m, k) = RightOf(m, k)
  /\ ShiftArithmetic(m, k) = ArithOf(m, k)

\* The three shifts by less than the width of a cell.
LEMMA ShiftMeans ==
  ASSUME NEW m \in Word, NEW k \in 0 .. 15
  PROVE  ShiftsAgree(m, k)
<1>1. m \in Int /\ 0 <= m /\ m <= 65535 /\ k < 16
  BY WordInt
<1> DEFINE p == Power[k + 1]
<1>2. p = 2 ^ k
  BY PowerIs
<1>3. p \in {1, 2, 4, 8, 16, 32, 64, 128, 256, 512, 1024, 2048, 4096, 8192,
             16384, 32768}
  <2>1. \/ k = 0 \/ k = 1 \/ k = 2 \/ k = 3 \/ k = 4 \/ k = 5 \/ k = 6 \/ k = 7
        \/ k = 8 \/ k = 9 \/ k = 10 \/ k = 11 \/ k = 12 \/ k = 13 \/ k = 14
        \/ k = 15
    OBVIOUS
  <2> QED
    BY <2>1 DEF Power
<1> HIDE DEF p
<1>4. Wrap(m * p) = Wrap((m % (65536 \div p)) * p)
  <2>1. CASE p \in {1, 2, 4, 8}
    BY <1>1, <2>1 DEF Wrap
  <2>2. CASE p \in {16, 32, 64, 128}
    BY <1>1, <2>2 DEF Wrap
  <2>3. CASE p \in {256, 512, 1024, 2048}
    BY <1>1, <2>3 DEF Wrap
  <2>4. CASE p \in {4096, 8192, 16384, 32768}
    BY <1>1, <2>4 DEF Wrap
  <2> QED
    BY <1>3, <2>1, <2>2, <2>3, <2>4
<1>5. m \div p \in Int /\ 0 <= m \div p /\ m \div p <= 65535
  BY <1>1, <1>3
<1>6. Wrap(m \div p) = m \div p
  BY <1>5 DEF Wrap
<1> QED
  BY <1>1, <1>2, <1>4, <1>6 DEF ShiftsAgree, LeftOf, RightOf, ArithOf,
     ShiftLeft, ShiftRight, ShiftArithmetic, p

-----------------------------------------------------------------------------
(* What the emulator computes is what the manual computes.                 *)

\* The bits of a cell, as Words reads them.
LEMMA BitsAre ==
  ASSUME NEW n
  PROVE  BitsOf(n) = {k \in 0 .. 15 : Bit(n, k)}
<1>1. \A k \in 0 .. 15 : (n \div 2 ^ k) % 2 = 1 <=> Bit(n, k)
  BY PowerIs DEF Bit
<1> QED
  BY <1>1 DEF BitsOf

\* and, or and xor, bit by bit.
LEMMA BitsMean ==
  ASSUME NEW m, NEW n
  PROVE  /\ BitAnd(n, m) = CellOf(BitsOf(m) \cap BitsOf(n))
         /\ BitOr(n, m) = CellOf(BitsOf(m) \cup BitsOf(n))
         /\ BitXor(n, m) = CellOf((BitsOf(m) \cup BitsOf(n))
                                    \ (BitsOf(m) \cap BitsOf(n)))
<1> DEFINE a == [i \in 0 .. 15 |-> Bit(n, i) /\ Bit(m, i)]
           o == [i \in 0 .. 15 |-> Bit(n, i) \/ Bit(m, i)]
           x == [i \in 0 .. 15 |-> Bit(n, i) # Bit(m, i)]
           Set(P) == {k \in 0 .. 15 : P[k]}
<1>1. \A k : Bit(m, k) \in BOOLEAN /\ Bit(n, k) \in BOOLEAN
  BY DEF Bit
<1>2. /\ a \in [0 .. 15 -> BOOLEAN] /\ o \in [0 .. 15 -> BOOLEAN]
      /\ x \in [0 .. 15 -> BOOLEAN]
  OBVIOUS
<1>3. /\ BitsOf(m) = {k \in 0 .. 15 : Bit(m, k)}
      /\ BitsOf(n) = {k \in 0 .. 15 : Bit(n, k)}
  BY BitsAre
<1>4. BitsOf(m) \cap BitsOf(n) = Set(a)
  BY <1>3
<1>5. BitsOf(m) \cup BitsOf(n) = Set(o)
  BY <1>3
<1>6. (BitsOf(m) \cup BitsOf(n)) \ (BitsOf(m) \cap BitsOf(n)) = Set(x)
  BY <1>1, <1>3, Zenon
<1> HIDE DEF a, o, x
<1>7. CellOf(Set(a)) = FromBits(a) /\ CellOf(Set(o)) = FromBits(o)
      /\ CellOf(Set(x)) = FromBits(x)
  BY <1>2, CellBits
<1> QED
  BY <1>4, <1>5, <1>6, <1>7 DEF a, o, x, BitAnd, BitOr, BitXor

\* What the emulator computes for n1 below n2 is what the manual allows.
Means(func, signed, name) ==
  \A n1, n2 \in Word :
    BinaryResults(func, signed, n2, n1) \subseteq ManualResult(name, n1, n2)

\* Sums, products and equality.
LEMMA SumsMean ==
  ASSUME NEW signed
  PROVE  /\ Means(0, signed, "add") /\ Means(1, signed, "mul")
         /\ Means(1, signed, "mulu") /\ Means(3, signed, "eq")
<1> SUFFICES ASSUME NEW m \in Word, NEW n \in Word
             PROVE  /\ BinaryResults(0, signed, n, m) \subseteq ManualResult("add", m, n)
                    /\ BinaryResults(1, signed, n, m) \subseteq ManualResult("mul", m, n)
                    /\ BinaryResults(1, signed, n, m) \subseteq ManualResult("mulu", m, n)
                    /\ BinaryResults(3, signed, n, m) \subseteq ManualResult("eq", m, n)
  BY Zenon DEF Means
<1>1. /\ BinaryResults(0, signed, n, m) = {Wrap(n + m)}
      /\ BinaryResults(1, signed, n, m) = {Mul(n, m)}
      /\ BinaryResults(3, signed, n, m) = {Truth(m = n)}
  BY DEF BinaryResults
<1>2. /\ ManualResult("add", m, n) = {Wrap(ToSigned(m) + ToSigned(n))}
      /\ ManualResult("mul", m, n) = {Wrap(ToSigned(m) * ToSigned(n))}
      /\ ManualResult("mulu", m, n) = {Wrap(ToSigned(m) * ToSigned(n))}
      /\ ManualResult("eq", m, n) = {Truth(m = n)}
  BY DEF ManualResult
<1> QED
  BY <1>1, <1>2, AddMeans, MulMeans

\* The comparisons, signed and unsigned.
LEMMA ComparisonsMean ==
  /\ \A signed : signed = TRUE =>
       /\ Means(5, signed, "lt") /\ Means(6, signed, "gt")
       /\ Means(7, signed, "lte") /\ Means(8, signed, "gte")
  /\ \A signed : signed = FALSE =>
       /\ Means(5, signed, "ltu") /\ Means(6, signed, "gtu")
       /\ Means(7, signed, "lteu") /\ Means(8, signed, "gteu")
<1>1. ASSUME NEW signed, signed = TRUE, NEW m \in Word, NEW n \in Word
      PROVE  /\ BinaryResults(5, signed, n, m) \subseteq ManualResult("lt", m, n)
             /\ BinaryResults(6, signed, n, m) \subseteq ManualResult("gt", m, n)
             /\ BinaryResults(7, signed, n, m) \subseteq ManualResult("lte", m, n)
             /\ BinaryResults(8, signed, n, m) \subseteq ManualResult("gte", m, n)
  <2> DEFINE x == ToSigned(m)
             y == ToSigned(n)
  <2> HIDE DEF x, y
  <2>1. /\ BinaryResults(5, signed, n, m) = {Truth(x < y)}
        /\ BinaryResults(6, signed, n, m) = {Truth(x > y)}
        /\ BinaryResults(7, signed, n, m) = {Truth(x <= y)}
        /\ BinaryResults(8, signed, n, m) = {Truth(x >= y)}
    BY <1>1 DEF BinaryResults, x, y
  <2>2. /\ ManualResult("lt", m, n) = {Truth(x < y)}
        /\ ManualResult("gt", m, n) = {Truth(x > y)}
        /\ ManualResult("lte", m, n) = {Truth(x <= y)}
        /\ ManualResult("gte", m, n) = {Truth(x >= y)}
    BY DEF ManualResult, x, y
  <2> QED
    BY <2>1, <2>2
<1>2. ASSUME NEW signed, signed = FALSE, NEW m \in Word, NEW n \in Word
      PROVE  /\ BinaryResults(5, signed, n, m) \subseteq ManualResult("ltu", m, n)
             /\ BinaryResults(6, signed, n, m) \subseteq ManualResult("gtu", m, n)
             /\ BinaryResults(7, signed, n, m) \subseteq ManualResult("lteu", m, n)
             /\ BinaryResults(8, signed, n, m) \subseteq ManualResult("gteu", m, n)
  <2>1. /\ BinaryResults(5, signed, n, m) = {Truth(m < n)}
        /\ BinaryResults(6, signed, n, m) = {Truth(m > n)}
        /\ BinaryResults(7, signed, n, m) = {Truth(m <= n)}
        /\ BinaryResults(8, signed, n, m) = {Truth(m >= n)}
    BY <1>2 DEF BinaryResults
  <2>2. /\ ManualResult("ltu", m, n) = {Truth(m < n)}
        /\ ManualResult("gtu", m, n) = {Truth(m > n)}
        /\ ManualResult("lteu", m, n) = {Truth(m <= n)}
        /\ ManualResult("gteu", m, n) = {Truth(m >= n)}
    BY DEF ManualResult
  <2> QED
    BY <2>1, <2>2
<1> QED
  BY <1>1, <1>2, Zenon DEF Means

\* The shifts, whatever the count.
LEMMA ShiftsMean ==
  ASSUME NEW signed
  PROVE  /\ Means(4, signed, "asr") /\ Means(9, signed, "lsl")
         /\ Means(10, signed, "lsr")
<1> SUFFICES ASSUME NEW m \in Word, NEW n \in Word
             PROVE  /\ BinaryResults(4, signed, n, m) \subseteq ManualResult("asr", m, n)
                    /\ BinaryResults(9, signed, n, m) \subseteq ManualResult("lsl", m, n)
                    /\ BinaryResults(10, signed, n, m) \subseteq ManualResult("lsr", m, n)
  BY Zenon DEF Means
<1>1. /\ BinaryResults(4, signed, n, m) = {ShiftArithmetic(m, k) : k \in ShiftCounts(n)}
      /\ BinaryResults(9, signed, n, m) = {ShiftLeft(m, k) : k \in ShiftCounts(n)}
      /\ BinaryResults(10, signed, n, m) = {ShiftRight(m, k) : k \in ShiftCounts(n)}
  BY DEF BinaryResults
<1>2. CASE n < 16
  <2>1. n \in 0 .. 15 /\ ShiftCounts(n) = {n}
    BY <1>2, WordInt DEF ShiftCounts
  <2>2. /\ ManualResult("asr", m, n) = {ArithOf(m, n)}
        /\ ManualResult("lsl", m, n) = {LeftOf(m, n)}
        /\ ManualResult("lsr", m, n) = {RightOf(m, n)}
    <3> DEFINE p == 2 ^ n
    <3> HIDE DEF p
    <3>1. ManualResult("asr", m, n) = {ArithOf(m, n)}
      BY <1>2 DEF ManualResult, ArithOf, p
    <3>2. ManualResult("lsl", m, n) = {LeftOf(m, n)}
      BY <1>2 DEF ManualResult, LeftOf, p
    <3>3. ManualResult("lsr", m, n) = {RightOf(m, n)}
      BY <1>2 DEF ManualResult, RightOf, p
    <3> QED
      BY <3>1, <3>2, <3>3
  <2>3. ShiftsAgree(m, n)
    BY <2>1, ShiftMeans
  <2>4. /\ ManualResult("asr", m, n) = {ShiftArithmetic(m, n)}
        /\ ManualResult("lsl", m, n) = {ShiftLeft(m, n)}
        /\ ManualResult("lsr", m, n) = {ShiftRight(m, n)}
    BY <2>2, <2>3 DEF ShiftsAgree
  <2>5. ShiftCounts(n) = {n}
    BY <2>1
  <2> QED
    BY <1>1, <2>4, <2>5
<1>3. CASE ~(n < 16)
  <2>1. /\ ManualResult("asr", m, n) = Word
        /\ ManualResult("lsl", m, n) = Word
        /\ ManualResult("lsr", m, n) = Word
    BY <1>3 DEF ManualResult
  <2>2. ShiftCounts(n) \subseteq Nat
    BY ShiftCountsNat
  <2> QED
    BY <1>1, <2>1, <2>2, ShiftWord
<1> QED
  BY <1>2, <1>3

\* The bitwise operations.
LEMMA LogicMeans ==
  ASSUME NEW signed
  PROVE  Means(13, signed, "and") /\ Means(14, signed, "or") /\ Means(15, signed, "xor")
<1> SUFFICES ASSUME NEW m \in Word, NEW n \in Word
             PROVE  /\ BinaryResults(13, signed, n, m) \subseteq ManualResult("and", m, n)
                    /\ BinaryResults(14, signed, n, m) \subseteq ManualResult("or", m, n)
                    /\ BinaryResults(15, signed, n, m) \subseteq ManualResult("xor", m, n)
  BY Zenon DEF Means
<1>1. /\ BinaryResults(13, signed, n, m) = {BitAnd(m, n)}
      /\ BinaryResults(14, signed, n, m) = {BitOr(m, n)}
      /\ BinaryResults(15, signed, n, m) = {BitXor(m, n)}
  BY DEF BinaryResults
<1>2. /\ ManualResult("and", m, n) = {CellOf(BitsOf(m) \cap BitsOf(n))}
      /\ ManualResult("or", m, n) = {CellOf(BitsOf(m) \cup BitsOf(n))}
      /\ ManualResult("xor", m, n) =
           {CellOf((BitsOf(m) \cup BitsOf(n)) \ (BitsOf(m) \cap BitsOf(n)))}
  BY DEF ManualResult
<1>3. /\ BitAnd(m, n) = CellOf(BitsOf(n) \cap BitsOf(m))
      /\ BitOr(m, n) = CellOf(BitsOf(n) \cup BitsOf(m))
      /\ BitXor(m, n) = CellOf((BitsOf(n) \cup BitsOf(m))
                                 \ (BitsOf(n) \cap BitsOf(m)))
  BY BitsMean
<1>4. /\ BitsOf(n) \cap BitsOf(m) = BitsOf(m) \cap BitsOf(n)
      /\ BitsOf(n) \cup BitsOf(m) = BitsOf(m) \cup BitsOf(n)
  OBVIOUS
<1> QED
  BY <1>1, <1>2, <1>3, <1>4

-----------------------------------------------------------------------------
(* Cells taken from and put on the stacks.                                 *)

\* The two cells on top of a stack, and what is below them.
LEMMA TopCells ==
  ASSUME NEW q \in Seq(Word), q # <<>>
  PROVE  /\ Head(q) = q[1] /\ q = <<Head(q)>> \o Tail(q)
         /\ Tail(q) # <<>> =>
              /\ Len(q) >= 2
              /\ Head(Tail(q)) = q[2]
              /\ Tail(Tail(q)) = SubSeq(q, 3, Len(q))
<1>1. Len(q) \in Nat /\ Len(q) >= 1
  BY EmptySeq, LenProperties
<1>2. Tail(q) \in Seq(Word) /\ Len(Tail(q)) = Len(q) - 1
  BY TakeOne
<1>3. \A i \in 1 .. Len(q) - 1 : Tail(q)[i] = q[i + 1]
  BY <1>1, HeadTailProperties
<1>4. q = <<Head(q)>> \o Tail(q)
  <2>1. <<Head(q)>> \o Tail(q) \in Seq(Word) /\ Len(<<Head(q)>> \o Tail(q)) = Len(q)
    BY <1>2, TakeOne, Prepend
  <2>2. \A i \in 1 .. Len(q) : q[i] = (<<Head(q)>> \o Tail(q))[i]
    BY <1>1, <1>2, <1>3
  <2> QED
    BY <2>1, <2>2, SeqEqual
<1>5. ASSUME Tail(q) # <<>>
      PROVE  /\ Len(q) >= 2
             /\ Head(Tail(q)) = q[2]
             /\ Tail(Tail(q)) = SubSeq(q, 3, Len(q))
  <2>1. Len(Tail(q)) >= 1
    BY <1>2, <1>5, EmptySeq, LenProperties
  <2>2. Len(q) >= 2
    BY <1>1, <1>2, <2>1
  <2>3. Head(Tail(q)) = q[2]
    BY <1>3, <1>5, <2>2
  <2>4. Tail(Tail(q)) \in Seq(Word) /\ Len(Tail(Tail(q))) = Len(q) - 2
    BY <1>1, <1>2, <1>5, TakeOne
  <2>5. \A i \in 1 .. Len(q) - 2 : Tail(Tail(q))[i] = q[i + 2]
    <3>1. \A i \in 1 .. Len(Tail(q)) - 1 : Tail(Tail(q))[i] = Tail(q)[i + 1]
      BY <1>2, <1>5, HeadTailProperties
    <3> QED
      BY <1>1, <1>2, <1>3, <3>1
  <2>6. /\ SubSeq(q, 3, Len(q)) \in Seq(Word)
        /\ Len(SubSeq(q, 3, Len(q))) = Len(q) - 2
        /\ \A i \in 1 .. Len(q) - 2 : SubSeq(q, 3, Len(q))[i] = q[i + 2]
    <3> DEFINE l == Len(q)
               r == SubSeq(q, 3, l)
    <3>1. l \in Int /\ l >= 2 /\ 3 \in 1 .. l + 1 /\ \A i \in 3 .. l : q[i] \in Word
      BY <1>1, <2>2
    <3> HIDE DEF l
    <3>2. /\ r \in Seq(Word) /\ Len(r) = l - 2
          /\ \A i \in 1 .. l - 2 : r[i] = q[i + 2]
      BY <3>1
    <3> QED
      BY <3>2 DEF l
  <2>7. Tail(Tail(q)) = SubSeq(q, 3, Len(q))
    BY <2>4, <2>5, <2>6, SeqEqual
  <2> QED
    BY <2>2, <2>3, <2>7
<1> QED
  BY <1>4, <1>5

\* A pop and a push that raise nothing.
LEMMA Takes ==
  ASSUME NEW c \in Contexts, NEW s \in StackID,
         Pop(c, s).exception = "AllIsOK"
  PROVE  /\ Pop(c, s) \in Contexts
         /\ c.exception = "AllIsOK"
         /\ c.stacks[s] # <<>>
         /\ Popped(c, s) = Head(c.stacks[s])
         /\ Pop(c, s).stacks = [c.stacks EXCEPT ![s] = Tail(c.stacks[s])]
<1>1. Pop(c, s) # Raise(c, "StackUnderflow")
  BY RaiseType DEF Raised, Exception
<1>2. c.stacks[s] # <<>>
  BY <1>1 DEF Pop
<1>3. Pop(c, s) = [c EXCEPT !.stacks[s] = Tail(@)]
  BY <1>2 DEF Pop
<1>4. Pop(c, s).stacks = [c.stacks EXCEPT ![s] = Tail(c.stacks[s])]
  BY <1>3 DEF Contexts
<1> QED
  BY <1>1, <1>2, <1>4, PopType

\* A push that left no exception has put the cell on top.
LEMMA Puts ==
  ASSUME NEW c \in Contexts, NEW s \in StackID, NEW v \in Word,
         Push(c, s, v).exception = "AllIsOK"
  PROVE  /\ Push(c, s, v) \in Contexts
         /\ c.exception = "AllIsOK"
         /\ Push(c, s, v).stacks = [c.stacks EXCEPT ![s] = <<v>> \o c.stacks[s]]
<1> DEFINE d == [c EXCEPT !.stacks[s] = <<v>> \o @]
<1>1. d.stacks = [c.stacks EXCEPT ![s] = <<v>> \o c.stacks[s]]
  BY DEF Contexts
<1>2. Push(c, s, v).stacks = d.stacks
  <2> HIDE DEF d
  <2>1. Push(c, s, v) = IF Len(d.stacks[s]) = StackSize[s]
                          THEN Raise(d, "StackOverflow") ELSE d
    BY DEF Push, d
  <2>2. Push(c, s, v) = [d EXCEPT !.going = FALSE, !.exception = "StackOverflow"]
          \/ Push(c, s, v) = d
    BY <2>1 DEF Raise
  <2>3. d \in Contexts
    <3>1. <<v>> \o c.stacks[s] \in Seq(Word)
      BY Prepend DEF Contexts
    <3> QED
      BY <3>1 DEF d, Contexts
  <2> QED
    BY <2>2, <2>3 DEF Contexts
<1>3. c.exception = "AllIsOK"
  BY PushType
<1> QED
  BY <1>1, <1>2, <1>3, PushType

\* The context of an instruction, and two pops from the data stack that raise
\* nothing.
LEMMA TakesTwo ==
  ASSUME TypeOK, NEW s \in StackID,
         Pop(Pop(Context, s), s).exception = "AllIsOK"
  PROVE  LET q == stacks[s]
         IN  /\ q \in Seq(Word) /\ q # <<>> /\ Tail(q) # <<>>
             /\ Len(q) >= 2 /\ q[1] \in Word /\ q[2] \in Word
             /\ Popped(Context, s) = q[1]
             /\ Popped(Pop(Context, s), s) = q[2]
             /\ Pop(Pop(Context, s), s) \in Contexts
             /\ Pop(Pop(Context, s), s).stacks = [stacks EXCEPT ![s] = Tail(Tail(q))]
<1> DEFINE q == stacks[s]
           c1 == Pop(Context, s)
           c2 == Pop(c1, s)
<1>1. Context \in Contexts /\ Context.stacks = stacks /\ q \in Seq(Word)
  BY DEF Context, Contexts, TypeOK
<1>2. c1 \in Contexts
  BY <1>1, PopType
<1> HIDE DEF c1
<1>3. /\ c2 \in Contexts /\ c1.exception = "AllIsOK" /\ c1.stacks[s] # <<>>
      /\ Popped(c1, s) = Head(c1.stacks[s])
      /\ c2.stacks = [c1.stacks EXCEPT ![s] = Tail(c1.stacks[s])]
  BY <1>2, Takes DEF c1
<1>4. /\ q # <<>> /\ Popped(Context, s) = Head(q)
      /\ c1.stacks = [stacks EXCEPT ![s] = Tail(q)]
  BY <1>1, <1>3, Takes DEF c1
<1>5. c1.stacks[s] = Tail(q)
  BY <1>4 DEF TypeOK
<1>6. c2.stacks = [stacks EXCEPT ![s] = Tail(Tail(q))]
  BY <1>3, <1>4, <1>5 DEF TypeOK
<1>7. /\ Len(q) >= 2 /\ Head(q) = q[1] /\ Head(Tail(q)) = q[2]
  BY <1>1, <1>3, <1>4, <1>5, TopCells
<1>8. Head(q) \in Word /\ Tail(q) \in Seq(Word)
  BY <1>1, <1>4, TakeOne
<1>9. Head(Tail(q)) \in Word
  BY <1>3, <1>5, <1>8, TakeOne
<1> HIDE DEF q, c2
<1>10. /\ q \in Seq(Word) /\ q # <<>> /\ Tail(q) # <<>>
       /\ Len(q) >= 2 /\ q[1] \in Word /\ q[2] \in Word
  BY <1>1, <1>3, <1>4, <1>5, <1>7, <1>8, <1>9
<1>11. Popped(Context, s) = q[1] /\ Popped(c1, s) = q[2]
  BY <1>3, <1>4, <1>5, <1>7
<1> QED
  BY <1>3, <1>6, <1>10, <1>11 DEF q, c1, c2

-----------------------------------------------------------------------------
(* The instructions that raised nothing.                                   *)

\* The step that leaves these cells on the stacks and goes to the next word.
Went(cells) == stacks' = cells /\ pc' = Wrap(pc + 2)

\* The groups of the agreed mnemonics, when no exception was raised.
LEMMA MeantGroups ==
  ASSUME TypeOK, Execute, exception' = "AllIsOK"
  PROVE  LET w == WordAt(pc)
         IN  /\ w \div 4096 = 14 /\ Field(w, 128, 32) # 11 => Binary
             /\ w \div 4096 = 14 /\ Field(w, 128, 32) = 11 => Store
             /\ w \div 4096 = 11 => Stack
             /\ w \div 4096 = 15 /\ Field(w, 256, 16) = 2 => Read
<1> DEFINE w == WordAt(pc)
           g == w \div 4096
<1>1. w \in Word
  BY FetchWord
<1>2. Enter => g \in 4 .. 7
  BY <1>1, WordInt DEF Enter
<1>3. ~Illegal
  <2> SUFFICES ASSUME Illegal PROVE FALSE
    OBVIOUS
  <2>1. exception' = Raise(Context, "IllegalInstruction").exception
    BY DEF Illegal, Finish
  <2>2. Context \in Contexts /\ "IllegalInstruction" \in Raised
    BY DEF Context, Contexts, TypeOK, Raised, Exception
  <2> QED
    BY <2>1, <2>2, RaiseType
<1> HIDE DEF w
<1>4. /\ BranchIfFalse => g = 1
      /\ Nop \/ Leave \/ Halt => g = 8
      /\ Stack => g = 11
      /\ LoadLow => g = 12
      /\ LoadHigh => g = 13
  BY DEF BranchIfFalse, Nop, Leave, Halt, Control, Stack, LoadLow, LoadHigh, w
<1>5. /\ Binary => g = 14 /\ Field(w, 128, 32) # 11
      /\ Store => g = 14 /\ Field(w, 128, 32) = 11
      /\ NegNot => g = 15 /\ Field(w, 256, 16) \in {0, 1}
      /\ Read => g = 15 /\ Field(w, 256, 16) = 2
  BY DEF Binary, Implemented, Store, NegNot, Read, w
<1> HIDE DEF g
<1>6. \/ Enter \/ BranchIfFalse \/ Nop \/ Leave \/ Halt \/ Stack \/ LoadLow
      \/ LoadHigh \/ Binary \/ Store \/ NegNot \/ Read
  BY <1>3 DEF Execute
<1> DEFINE f == Field(w, 128, 32)
           h == Field(w, 256, 16)
<1> HIDE DEF f, h
<1>7. /\ g = 14 /\ f # 11 => Binary
      /\ g = 14 /\ f = 11 => Store
      /\ g = 11 => Stack
      /\ g = 15 /\ h = 2 => Read
  BY <1>2, <1>4, <1>5, <1>6 DEF f, h
<1> QED
  BY <1>7 DEF w, g, f, h

\* The instructions on two values.
LEMMA BinaryMeant ==
  ASSUME TypeOK, Binary, exception' = "AllIsOK"
  PROVE  LET w == WordAt(pc)
             q == stacks[D]
         IN  /\ q[1] \in Word /\ q[2] \in Word
             /\ \E n \in BinaryResults(Field(w, 128, 32), Field(w, 16, 2) = 1,
                                       q[1], q[2]) :
                  n \in Word /\
                  Went([stacks EXCEPT ![D] = <<n>> \o SubSeq(q, 3, Len(q))])
<1> DEFINE w == WordAt(pc)
           q == stacks[D]
           func   == Field(w, 128, 32)
           signed == Field(w, 16, 2) = 1
           c == AfterTwoPops
<1>1. D \in StackID
  BY DEF StackID
<1>2. PICK n \in BinaryResults(func, signed, First, Second) :
        Finish(Push(c, D, n), pc + 2)
  BY DEF Binary
<1>3. Implemented(func, signed) /\ signed \in BOOLEAN
  BY DEF Binary
<1>4. /\ Context \in Contexts /\ Pop(Context, D) \in Contexts /\ c \in Contexts
      /\ First \in Word /\ Second \in Word
  <2>1. Context \in Contexts
    BY DEF Context, Contexts, TypeOK
  <2>2. Pop(Context, D) \in Contexts
    BY <1>1, <2>1, PopType
  <2> QED
    BY <1>1, <2>1, <2>2, PopType, PoppedWord DEF AfterTwoPops, First, Second
<1> HIDE DEF func, signed
<1>5. n \in Word
  BY <1>2, <1>3, <1>4, BinaryWord
<1> HIDE DEF c
<1>6. /\ Push(c, D, n).exception = "AllIsOK" /\ stacks' = Push(c, D, n).stacks
      /\ pc' = Wrap(pc + 2)
  BY <1>2 DEF Finish
<1>7. /\ c.exception = "AllIsOK"
      /\ stacks' = [c.stacks EXCEPT ![D] = <<n>> \o c.stacks[D]]
  BY <1>1, <1>4, <1>5, <1>6, Puts
<1>8. /\ q \in Seq(Word) /\ q # <<>> /\ Tail(q) # <<>>
      /\ q[1] \in Word /\ q[2] \in Word
      /\ First = q[1] /\ Second = q[2]
      /\ c.stacks = [stacks EXCEPT ![D] = Tail(Tail(q))]
  BY <1>1, <1>7, TakesTwo DEF c, AfterTwoPops, First, Second
<1> HIDE DEF q
<1>9. Tail(Tail(q)) = SubSeq(q, 3, Len(q))
  BY <1>8, TopCells
<1>10. stacks' = [stacks EXCEPT ![D] = <<n>> \o SubSeq(q, 3, Len(q))]
  BY <1>1, <1>7, <1>8, <1>9 DEF TypeOK
<1> QED
  BY <1>2, <1>5, <1>6, <1>8, <1>10 DEF Went, q, func, signed, w

\* isto drops its two values.
LEMMA StoreMeant ==
  ASSUME TypeOK, Store, exception' = "AllIsOK"
  PROVE  Went([stacks EXCEPT ![D] = Tail(Tail(stacks[D]))])
<1> DEFINE c == AfterTwoPops
<1>1. D \in StackID /\ "IllegalInstruction" \in Raised
  BY DEF StackID, Raised, Exception
<1>2. c \in Contexts
  <2>1. Context \in Contexts
    BY DEF Context, Contexts, TypeOK
  <2> QED
    BY <1>1, <2>1, PopType DEF AfterTwoPops
<1> HIDE DEF c
<1>3. \/ Finish(c, pc + 2)
      \/ Finish(Raise(c, "IllegalInstruction"), pc + 2)
  BY DEF Store, c
<1>4. ~Finish(Raise(c, "IllegalInstruction"), pc + 2)
  BY <1>1, <1>2, RaiseType DEF Finish
<1>5. c.exception = "AllIsOK" /\ stacks' = c.stacks /\ pc' = Wrap(pc + 2)
  BY <1>3, <1>4 DEF Finish
<1>6. c.stacks = [stacks EXCEPT ![D] = Tail(Tail(stacks[D]))]
  BY <1>1, <1>5, TakesTwo DEF c, AfterTwoPops
<1> QED
  BY <1>5, <1>6 DEF Went

\* rd replaces the address on top by the byte that lies there.
LEMMA ReadMeant ==
  ASSUME TypeOK, Read, exception' = "AllIsOK"
  PROVE  LET q == stacks[D]
         IN  Went([stacks EXCEPT ![D] = <<ByteAt(Head(q))>> \o Tail(q)])
<1> DEFINE c == Pop(Context, D)
           b == ByteAt(First)
<1>1. D \in StackID /\ "IllegalInstruction" \in Raised
  BY DEF StackID, Raised, Exception
<1>2. Context \in Contexts /\ Context.stacks = stacks
  BY DEF Context, Contexts, TypeOK
<1>3. c \in Contexts /\ b \in Word
  BY <1>1, <1>2, PopType, FetchWord
<1> HIDE DEF c, b
<1>4. \/ Finish(Push(c, D, b), pc + 2)
      \/ Finish(Raise(c, "IllegalInstruction"), pc + 2)
  BY DEF Read, c, b
<1>5. ~Finish(Raise(c, "IllegalInstruction"), pc + 2)
  BY <1>1, <1>3, RaiseType DEF Finish
<1>6. /\ Push(c, D, b).exception = "AllIsOK" /\ stacks' = Push(c, D, b).stacks
      /\ pc' = Wrap(pc + 2)
  BY <1>4, <1>5 DEF Finish
<1>7. /\ c.exception = "AllIsOK"
      /\ stacks' = [c.stacks EXCEPT ![D] = <<b>> \o c.stacks[D]]
  BY <1>1, <1>3, <1>6, Puts
<1>8. /\ First = Head(stacks[D])
      /\ c.stacks = [stacks EXCEPT ![D] = Tail(stacks[D])]
  BY <1>1, <1>2, <1>7, Takes DEF c, First
<1>9. stacks' = [stacks EXCEPT ![D] = <<b>> \o Tail(stacks[D])]
  BY <1>1, <1>7, <1>8 DEF TypeOK
<1> QED
  BY <1>6, <1>8, <1>9 DEF Went, b

-----------------------------------------------------------------------------
(* The stack operations.                                                   *)

\* Two cells put on a stack one after the other.
LEMMA TwoCells ==
  ASSUME NEW a \in Word, NEW b \in Word, NEW q \in Seq(Word)
  PROVE  <<a>> \o (<<b>> \o q) = <<a, b>> \o q
<1>1. <<a>> \in Seq(Word) /\ <<b>> \in Seq(Word)
  OBVIOUS
<1>2. <<a>> \o (<<b>> \o q) = (<<a>> \o <<b>>) \o q
  BY <1>1, ConcatAssociative
<1>3. <<a>> \o <<b>> = <<a, b>>
  <2> DEFINE l == <<a>> \o <<b>>
  <2>1. l \in Seq(Word) /\ Len(l) = 2 /\ l[1] = a /\ l[2] = b
    BY <1>1, ConcatProperties
  <2> HIDE DEF l
  <2>2. <<a, b>> \in Seq(Word) /\ Len(<<a, b>>) = 2
    OBVIOUS
  <2>3. \A i \in 1 .. 2 : l[i] = <<a, b>>[i]
    BY <2>1
  <2>4. l = <<a, b>>
    BY <2>1, <2>2, <2>3, SeqEqual
  <2> QED
    BY <2>4 DEF l
<1> QED
  BY <1>2, <1>3

\* The stacks after the stack operations on a stack s, and from s to t.
Dropped(s)  == [stacks EXCEPT ![s] = Tail(stacks[s])]
Doubled(s)  == [stacks EXCEPT ![s] = <<Head(stacks[s])>> \o stacks[s]]
Swapped(s)  == [stacks EXCEPT ![s] =
                  <<Head(Tail(stacks[s])), Head(stacks[s])>> \o Tail(Tail(stacks[s]))]
Moved(s, t) == [stacks EXCEPT ![s] = Tail(stacks[s]),
                              ![t] = <<Head(stacks[s])>> \o stacks[t]]

OperationMeans(func, s, t) ==
  /\ func = 0 => Went(Dropped(s))
  /\ func = 1 => Went(Doubled(s))
  /\ func = 2 => Went(Swapped(s))
  /\ func = 3 /\ s = t => Went(stacks)
  /\ func = 3 /\ s # t => Went(Moved(s, t))

\* What an operation on the stacks does if it raises nothing.
LEMMA OperationMeant ==
  ASSUME TypeOK, Stack, exception' = "AllIsOK"
  PROVE  LET w == WordAt(pc)
         IN  OperationMeans(Field(w, 256, 16), Field(w, 64, 4), Field(w, 16, 4))
<1> DEFINE w == WordAt(pc)
           func == Field(w, 256, 16)
           s == Field(w, 64, 4)
           t == Field(w, 16, 4)
           q == stacks[s]
           v1 == Popped(Context, s)
           c1 == Pop(Context, s)
           v2 == Popped(c1, s)
           c2 == Pop(c1, s)
           c == StackOperation(Context, func, s, t)
<1>1. s \in StackID /\ t \in StackID
  BY FetchWord, Fields
<1>2. Finish(c, pc + 2)
  BY DEF Stack
<1> SUFFICES OperationMeans(func, s, t)
  OBVIOUS
<1> HIDE DEF s, t, func
<1>3. Context \in Contexts /\ Context.stacks = stacks /\ q \in Seq(Word)
  BY <1>1 DEF Context, Contexts, TypeOK
<1>4. c1 \in Contexts /\ v1 \in Word
  BY <1>1, <1>3, PopType, PoppedWord
<1>5. c2 \in Contexts /\ v2 \in Word
  BY <1>1, <1>4, PopType, PoppedWord
<1>6. c.exception = "AllIsOK" /\ Went(c.stacks)
  BY <1>2 DEF Finish, Went
<1>7. ASSUME c1.exception = "AllIsOK"
      PROVE  /\ q # <<>> /\ v1 = Head(q) /\ c1.stacks = [stacks EXCEPT ![s] = Tail(q)]
             /\ q = <<v1>> \o Tail(q) /\ Tail(q) \in Seq(Word)
  <2>1. /\ q # <<>> /\ v1 = Head(q)
        /\ c1.stacks = [stacks EXCEPT ![s] = Tail(q)]
    BY <1>1, <1>3, <1>7, Takes
  <2> QED
    BY <1>3, <2>1, TopCells, TakeOne
<1>8. CASE func = 0
  <2>1. c = c1
    BY <1>8 DEF StackOperation
  <2> HIDE DEF c, c1, v1, q
  <2> QED
    <3>1. c.stacks = Dropped(s)
      BY <1>6, <1>7, <2>1 DEF Dropped, q
    <3> QED
      BY <1>6, <1>8, <3>1 DEF OperationMeans
<1>9. CASE func = 1
  <2> DEFINE d == Push(c1, s, v1)
  <2>1. c = Push(d, s, v1)
    BY <1>9 DEF StackOperation
  <2> HIDE DEF c, c1, v1
  <2>2. d \in Contexts
    BY <1>1, <1>4, PushType
  <2> HIDE DEF d
  <2>3. /\ d.exception = "AllIsOK"
        /\ c.stacks = [d.stacks EXCEPT ![s] = <<v1>> \o d.stacks[s]]
    BY <1>1, <1>4, <1>6, <2>1, <2>2, Puts
  <2>4. /\ c1.exception = "AllIsOK"
        /\ d.stacks = [c1.stacks EXCEPT ![s] = <<v1>> \o c1.stacks[s]]
    BY <1>1, <1>4, <2>3, Puts DEF d
  <2>5. /\ v1 = Head(q) /\ c1.stacks = [stacks EXCEPT ![s] = Tail(q)]
        /\ q = <<v1>> \o Tail(q)
    BY <1>7, <2>4
  <2> HIDE DEF q
  <2>6. d.stacks = [stacks EXCEPT ![s] = q]
    BY <1>1, <2>4, <2>5 DEF TypeOK
  <2>7. c.stacks = [stacks EXCEPT ![s] = <<Head(q)>> \o q]
    BY <1>1, <2>3, <2>5, <2>6 DEF TypeOK
  <2> QED
    <3>1. c.stacks = Doubled(s)
      BY <2>7 DEF Doubled, q
    <3> QED
      BY <1>6, <1>9, <3>1 DEF OperationMeans
<1>10. CASE func = 2
  <2> DEFINE d == Push(c2, s, v1)
             r == Tail(Tail(q))
  <2>1. c = Push(d, s, v2)
    BY <1>10 DEF StackOperation
  <2> HIDE DEF c, c2, v1, v2
  <2>2. d \in Contexts
    BY <1>1, <1>4, <1>5, PushType
  <2> HIDE DEF d
  <2>3. /\ d.exception = "AllIsOK"
        /\ c.stacks = [d.stacks EXCEPT ![s] = <<v2>> \o d.stacks[s]]
    BY <1>1, <1>5, <1>6, <2>1, <2>2, Puts
  <2>4. /\ c2.exception = "AllIsOK"
        /\ d.stacks = [c2.stacks EXCEPT ![s] = <<v1>> \o c2.stacks[s]]
    <3>1. Push(c2, s, v1).exception = "AllIsOK"
      BY <2>3 DEF d
    <3> QED
      BY <1>1, <1>4, <1>5, <3>1, Puts DEF d
  <2>5. /\ v1 = q[1] /\ v2 = q[2] /\ q # <<>> /\ Tail(q) # <<>>
        /\ c2.stacks = [stacks EXCEPT ![s] = r]
    <3>1. Pop(Pop(Context, s), s).exception = "AllIsOK"
      BY <2>4 DEF c2
    <3>2. /\ Popped(Context, s) = stacks[s][1]
          /\ Popped(Pop(Context, s), s) = stacks[s][2]
          /\ stacks[s] # <<>> /\ Tail(stacks[s]) # <<>>
          /\ Pop(Pop(Context, s), s).stacks
               = [stacks EXCEPT ![s] = Tail(Tail(stacks[s]))]
      BY <1>1, <3>1, TakesTwo
    <3> QED
      BY <3>2 DEF c2, v1, v2
  <2>6. v1 = Head(q) /\ v2 = Head(Tail(q)) /\ r \in Seq(Word)
    BY <1>3, <2>5, TopCells, TakeOne
  <2> HIDE DEF q, r
  <2>7. d.stacks = [stacks EXCEPT ![s] = <<v1>> \o r]
    BY <1>1, <2>4, <2>5 DEF TypeOK
  <2>8. c.stacks = [stacks EXCEPT ![s] = <<v2>> \o (<<v1>> \o r)]
    BY <1>1, <2>3, <2>7 DEF TypeOK
  <2>9. <<v2>> \o (<<v1>> \o r) = <<v2, v1>> \o r
    BY <1>4, <1>5, <2>6, TwoCells
  <2> QED
    <3>1. c.stacks = Swapped(s)
      BY <2>6, <2>8, <2>9 DEF Swapped, q, r
    <3> QED
      BY <1>6, <1>10, <3>1 DEF OperationMeans
<1>11. CASE func = 3
  <2>1. c = Push(c1, t, v1)
    BY <1>11 DEF StackOperation
  <2> HIDE DEF c, c1, v1
  <2>2. /\ c1.exception = "AllIsOK"
        /\ c.stacks = [c1.stacks EXCEPT ![t] = <<v1>> \o c1.stacks[t]]
    BY <1>1, <1>4, <1>6, <2>1, Puts
  <2>3. /\ v1 = Head(q) /\ c1.stacks = [stacks EXCEPT ![s] = Tail(q)]
        /\ q = <<v1>> \o Tail(q)
    BY <1>7, <2>2
  <2>4. CASE s = t
    <3> HIDE DEF q
    <3>1. c.stacks = [stacks EXCEPT ![s] = q]
      BY <1>1, <2>2, <2>3, <2>4 DEF TypeOK
    <3>2. c.stacks = stacks
      BY <1>1, <3>1 DEF TypeOK, q
    <3> QED
      BY <1>6, <1>11, <2>4, <3>2 DEF OperationMeans
  <2>5. CASE s # t
    <3> HIDE DEF q
    <3>1. c.stacks = [stacks EXCEPT ![s] = Tail(q), ![t] = <<Head(q)>> \o stacks[t]]
      BY <1>1, <2>2, <2>3, <2>5 DEF TypeOK
    <3> QED
      BY <1>6, <1>11, <2>5, <3>1 DEF OperationMeans, Moved, q
  <2> QED
    BY <2>4, <2>5
<1>12. CASE func \notin {0, 1, 2, 3}
  BY <1>12 DEF OperationMeans
<1> QED
  BY <1>8, <1>9, <1>10, <1>11, <1>12

-----------------------------------------------------------------------------
(* The codes and the sources of the agreed mnemonics.                      *)

\* The codes of the mnemonics of two values: function f, with p bit p.
Coded(name, f, p) ==
  /\ FixedCode[name] \div 4096 = 14
  /\ Field(FixedCode[name], 128, 32) = f
  /\ Field(FixedCode[name], 16, 2) = p

\* Function and sign bit of the code of each of these mnemonics.
LEMMA BinaryCodes ==
  /\ Coded("add", 0, 1) /\ Coded("mul", 1, 0) /\ Coded("mulu", 1, 1)
  /\ Coded("eq", 3, 0) /\ Coded("asr", 4, 1)
  /\ Coded("lt", 5, 1) /\ Coded("ltu", 5, 0) /\ Coded("gt", 6, 1) /\ Coded("gtu", 6, 0)
  /\ Coded("lte", 7, 1) /\ Coded("lteu", 7, 0)
  /\ Coded("gte", 8, 1) /\ Coded("gteu", 8, 0)
  /\ Coded("lsl", 9, 0) /\ Coded("lsr", 10, 0)
  /\ Coded("and", 13, 0) /\ Coded("or", 14, 0) /\ Coded("xor", 15, 0)
<1>1. /\ FixedCode["add"] = \hE010 /\ FixedCode["mul"] = \hE080
      /\ FixedCode["mulu"] = \hE090 /\ FixedCode["eq"] = \hE180
      /\ FixedCode["asr"] = \hE210 /\ FixedCode["lsl"] = \hE480
      /\ FixedCode["lsr"] = \hE500 /\ FixedCode["and"] = \hE680
      /\ FixedCode["or"] = \hE700 /\ FixedCode["xor"] = \hE780
  BY DEF FixedCode
<1>2. /\ FixedCode["lt"] = \hE290 /\ FixedCode["ltu"] = \hE280
      /\ FixedCode["gt"] = \hE310 /\ FixedCode["gtu"] = \hE300
      /\ FixedCode["lte"] = \hE390 /\ FixedCode["lteu"] = \hE380
      /\ FixedCode["gte"] = \hE410 /\ FixedCode["gteu"] = \hE400
  BY DEF FixedCode
<1> QED
  BY <1>1, <1>2 DEF Coded, Field

\* The sign bit of a code, and what its function means.
SignedAs(name, signed) ==
  /\ Field(FixedCode[name], 16, 2) = 1 => signed = TRUE
  /\ Field(FixedCode[name], 16, 2) = 0 => signed = FALSE

Decoded(name, signed) ==
  \E f : /\ FixedCode[name] \div 4096 = 14 /\ f # 11
         /\ Field(FixedCode[name], 128, 32) = f
         /\ Means(f, signed, name)

\* They mean what the manual says.
LEMMA BinaryDecoded ==
  ASSUME NEW name \in ManualBinary, NEW signed, SignedAs(name, signed)
  PROVE  Decoded(name, signed)
<1> DEFINE Done(f) == /\ FixedCode[name] \div 4096 = 14 /\ f # 11
                      /\ Field(FixedCode[name], 128, 32) = f
                      /\ Means(f, signed, name)
<1>1. ASSUME NEW f \in {0, 1, 3, 4, 5, 6, 7, 8, 9, 10, 13, 14, 15}, NEW p,
             Coded(name, f, p), Means(f, signed, name)
      PROVE  Done(f)
  BY <1>1 DEF Coded
<1>2. \A f : Coded(name, f, 1) => signed = TRUE
  <2> DEFINE p == Field(FixedCode[name], 16, 2)
  <2>1. \A f : Coded(name, f, 1) => p = 1
    BY DEF Coded
  <2>2. p = 1 => signed = TRUE
    BY DEF SignedAs
  <2> HIDE DEF p
  <2> QED
    BY <2>1, <2>2
<1>3. \A f : Coded(name, f, 0) => signed = FALSE
  <2> DEFINE p == Field(FixedCode[name], 16, 2)
  <2>1. \A f : Coded(name, f, 0) => p = 0
    BY DEF Coded
  <2>2. p = 0 => signed = FALSE
    BY DEF SignedAs
  <2> HIDE DEF p
  <2> QED
    BY <2>1, <2>2
<1>4. /\ Means(0, signed, "add") /\ Means(1, signed, "mul")
      /\ Means(1, signed, "mulu") /\ Means(3, signed, "eq")
      /\ Means(4, signed, "asr") /\ Means(9, signed, "lsl")
      /\ Means(10, signed, "lsr") /\ Means(13, signed, "and")
      /\ Means(14, signed, "or") /\ Means(15, signed, "xor")
  BY SumsMean, ShiftsMean, LogicMeans
<1>5. signed = TRUE => /\ Means(5, signed, "lt") /\ Means(6, signed, "gt")
                       /\ Means(7, signed, "lte") /\ Means(8, signed, "gte")
  BY ComparisonsMean, Zenon
<1>6. signed = FALSE => /\ Means(5, signed, "ltu") /\ Means(6, signed, "gtu")
                        /\ Means(7, signed, "lteu") /\ Means(8, signed, "gteu")
  BY ComparisonsMean, Zenon
<1> SUFFICES \E f : Done(f)
  BY DEF Decoded
<1> HIDE DEF Done
<1>7. CASE name \in {"add", "mul", "mulu", "eq"}
  <2>1. /\ Coded("add", 0, 1) /\ Coded("mul", 1, 0) /\ Coded("mulu", 1, 1)
        /\ Coded("eq", 3, 0)
    BY BinaryCodes
  <2> QED
    BY <1>1, <1>4, <1>7, <2>1
<1>8. CASE name \in {"asr", "lsl", "lsr", "and", "or", "xor"}
  <2>1. /\ Coded("asr", 4, 1) /\ Coded("lsl", 9, 0) /\ Coded("lsr", 10, 0)
        /\ Coded("and", 13, 0) /\ Coded("or", 14, 0) /\ Coded("xor", 15, 0)
    BY BinaryCodes
  <2> QED
    BY <1>1, <1>4, <1>8, <2>1
<1>9. CASE name \in {"lt", "gt", "lte", "gte"}
  <2>1. /\ Coded("lt", 5, 1) /\ Coded("gt", 6, 1)
        /\ Coded("lte", 7, 1) /\ Coded("gte", 8, 1)
    BY BinaryCodes
  <2>2. signed = TRUE
    BY <1>2, <1>9, <2>1
  <2> QED
    BY <1>1, <1>5, <1>9, <2>1, <2>2
<1>10. CASE name \in {"ltu", "gtu", "lteu", "gteu"}
  <2>1. /\ Coded("ltu", 5, 0) /\ Coded("gtu", 6, 0)
        /\ Coded("lteu", 7, 0) /\ Coded("gteu", 8, 0)
    BY BinaryCodes
  <2>2. signed = FALSE
    BY <1>3, <1>10, <2>1
  <2> QED
    BY <1>1, <1>6, <1>10, <2>1, <2>2
<1> QED
  BY <1>7, <1>8, <1>9, <1>10 DEF ManualBinary

\* A source with the code w.
LEMMA SourceOf ==
  ASSUME NEW w, NEW l \in SourcesOfWord(w)
  PROVE  l \in Sources /\ Assembled(l) = w
<1> DEFINE codes == {Assembled(k) : k \in Sources}
<1>1. w \in codes /\ l \in SourcesOf[w]
  BY DEF SourcesOfWord, SourcesOf
<1>2. SourcesOf[w] = {k \in Sources : Assembled(k) = w}
  BY <1>1 DEF SourcesOf
<1> QED
  BY <1>1, <1>2

\* What the agreed mnemonics look like.
LEMMA AgreedSources ==
  ASSUME NEW l \in Sources, Agreed(l)
  PROVE  \/ \E n \in ManualBinary : l = Instr(n, <<>>)
         \/ \E n \in {"rd", "isto"}, z \in {"b", "w", "l"} : l = Instr(n, <<z>>)
         \/ \E n \in {"drop", "dup", "swap"}, z \in {"d", "t"} : l = Instr(n, <<z>>)
         \/ \E y, z \in {"d", "t"} : l = Instr("mov", <<y, z>>)
<1>1. \A n, q : Instr(n, q).name = n /\ Instr(n, q).letters = q
  BY DEF Instr, Text
<1>2. \A z : Agreed(Instr(l.name, <<z>>)) => z \notin {"r", "c"}
  <2> SUFFICES ASSUME NEW z, Agreed(Instr(l.name, <<z>>)) PROVE z \notin {"r", "c"}
    OBVIOUS
  <2>1. \A k \in DOMAIN <<z>> : <<z>>[k] \notin {"r", "c"}
    BY <1>1 DEF Agreed
  <2> QED
    BY <2>1
<1>3. DOMAIN AsmStack = {"d", "c", "r", "t"} /\ DOMAIN SizeID = {"b", "w", "l"}
  BY DEF AsmStack, SizeID
<1>4. l.name \in ManualBinary \cup {"rd", "isto", "drop", "dup", "swap", "mov"}
  BY DEF Agreed
<1>5. CASE l \in FixedSources
  <2>1. PICK n \in DOMAIN FixedCode : l = Instr(n, <<>>)
    BY <1>5 DEF FixedSources
  <2>2. n = l.name
    BY <1>1, <2>1
  <2>3. n \notin {"rd", "isto", "drop", "dup", "swap", "mov"}
    BY <2>1 DEF FixedCode
  <2> QED
    BY <1>4, <2>1, <2>2, <2>3
<1>6. CASE l \in SizedSources
  <2>1. PICK n \in DOMAIN SizedCode, z \in DOMAIN SizeID : l = Instr(n, <<z>>)
    BY <1>6 DEF SizedSources, Instr, Text
  <2>2. n = l.name /\ n \in {"rd", "sto", "ird", "isto"}
    BY <1>1, <2>1 DEF SizedCode
  <2>3. n \in {"rd", "isto"}
    BY <1>4, <2>2 DEF ManualBinary
  <2> QED
    BY <1>3, <2>1, <2>3
<1>7. CASE l \in StackSources
  <2>1. \/ \E n \in {"drop", "dup", "swap"}, z \in DOMAIN AsmStack : l = Instr(n, <<z>>)
        \/ \E y, z \in DOMAIN AsmStack : l = Instr("mov", <<y, z>>)
    BY <1>7 DEF StackSources
  <2>2. ASSUME NEW n \in {"drop", "dup", "swap"}, NEW z \in DOMAIN AsmStack,
               l = Instr(n, <<z>>)
        PROVE  z \in {"d", "t"}
    <3>1. l.name = n
      BY <1>1, <2>2
    <3>2. z \notin {"r", "c"}
      BY <1>2, <2>2, <3>1
    <3> QED
      BY <1>3, <3>2
  <2>3. ASSUME NEW y \in DOMAIN AsmStack, NEW z \in DOMAIN AsmStack,
               l = Instr("mov", <<y, z>>)
        PROVE  y \in {"d", "t"} /\ z \in {"d", "t"}
    <3>1. \A k \in DOMAIN <<y, z>> : <<y, z>>[k] \notin {"r", "c"}
      BY <1>1, <2>3 DEF Agreed
    <3>2. y \notin {"r", "c"} /\ z \notin {"r", "c"}
      BY <3>1
    <3> QED
      BY <1>3, <3>2
  <2> QED
    BY <2>1, <2>2, <2>3
<1> QED
  BY <1>5, <1>6, <1>7 DEF Sources

-----------------------------------------------------------------------------
(* Each kind of mnemonic agrees.                                           *)

\* Where the stacks of the agreed mnemonics lie.
LEMMA Placed ==
  /\ ManualStack["d"] = D /\ ManualStack["t"] = T /\ D # T
  /\ AsmStack["d"] = 0 /\ AsmStack["t"] = 3 /\ D = 0 /\ T = 3
BY DEF ManualStack, AsmStack, D, T, R, C

\* The cell put on top of a stack is the top.
LEMMA TopOfPrepend ==
  ASSUME NEW v \in Word, NEW q \in Seq(Word)
  PROVE  Head(<<v>> \o q) = v
<1> DEFINE r == <<v>> \o q
<1>1. <<v>> \in Seq(Word) /\ Len(<<v>>) = 1 /\ <<v>>[1] = v
  OBVIOUS
<1>2. r \in Seq(Word) /\ Len(r) = Len(q) + 1 /\ r[1] = v
  BY <1>1, ConcatProperties, LenProperties
<1>3. r # <<>>
  BY <1>2, LenProperties, EmptySeq
<1> HIDE DEF r
<1> QED
  BY <1>2, <1>3

\* The stacks the manual allows for a mnemonic of two values.
LEMMA BinaryStacks ==
  ASSUME NEW l, l.name \in ManualBinary,
         NEW n \in ManualResult(l.name, stacks[D][2], stacks[D][1]),
         n = Head(stacks'[D])
  PROVE  [stacks EXCEPT ![D] = <<n>> \o SubSeq(stacks[D], 3, Len(stacks[D]))]
           \in ManualStacks(l)
<1> DEFINE q == stacks[D]
           r == SubSeq(q, 3, Len(q))
           S == ManualResult(l.name, q[2], q[1]) \cap {Head(stacks'[D])}
<1>1. n \in S
  OBVIOUS
<1>2. ManualStacks(l) = {[stacks EXCEPT ![D] = <<k>> \o r] : k \in S}
  <2>1. l.name \notin {"neg", "not", "rd", "isto", "drop", "dup", "swap", "mov", "halt"}
    BY DEF ManualBinary
  <2> HIDE DEF r, S
  <2> QED
    BY <2>1 DEF ManualStacks, r, S
<1> HIDE DEF r, S
<1> QED
  BY <1>1, <1>2 DEF r, q

\* A mnemonic of two values.
LEMMA BinaryAgrees ==
  ASSUME TypeOK, Execute, exception' = "AllIsOK",
         NEW name \in ManualBinary, WordAt(pc) = FixedCode[name]
  PROVE  stacks' \in ManualStacks(Instr(name, <<>>)) /\ pc' = Wrap(pc + 2)
<1> DEFINE l == Instr(name, <<>>)
           q == stacks[D]
           w == WordAt(pc)
           signed == Field(w, 16, 2) = 1
           func == Field(w, 128, 32)
           After(n) == [stacks EXCEPT ![D] = <<n>> \o SubSeq(q, 3, Len(q))]
<1>1. /\ Field(w, 16, 2) = 1 => signed = TRUE
      /\ Field(w, 16, 2) = 0 => signed = FALSE
  OBVIOUS
<1>2. w \div 4096 = 14 /\ func # 11 /\ Means(func, signed, name)
  <2>1. w = FixedCode[name]
    OBVIOUS
  <2> HIDE DEF signed, w
  <2>2. SignedAs(name, signed)
    BY <1>1, <2>1 DEF SignedAs
  <2>3. Decoded(name, signed)
    BY <2>2, BinaryDecoded
  <2> QED
    BY <2>1, <2>3 DEF Decoded
<1>3. Binary
  BY <1>2, MeantGroups
<1>4. /\ q[1] \in Word /\ q[2] \in Word
      /\ \E n \in BinaryResults(func, signed, q[1], q[2]) : n \in Word /\ Went(After(n))
  BY <1>3, BinaryMeant
<1> HIDE DEF func, w, signed
<1>5. PICK n \in BinaryResults(func, signed, q[1], q[2]) : n \in Word /\ Went(After(n))
  BY <1>4
<1>6. n \in ManualResult(name, q[2], q[1])
  BY <1>2, <1>4, <1>5 DEF Means
<1>7. stacks' = After(n) /\ pc' = Wrap(pc + 2)
  BY <1>5 DEF Went
<1>8. Head(stacks'[D]) = n
  <2> DEFINE m == Len(q)
             r == SubSeq(q, 3, m)
  <2>1. q \in Seq(Word)
    BY DEF TypeOK, StackID
  <2>2. stacks'[D] = <<n>> \o r
    BY <1>7 DEF TypeOK, StackID
  <2>3. m \in Nat
    BY <2>1, LenProperties
  <2>4. n \in Word
    BY <1>5
  <2>5. \A i \in 3 .. m : q[i] \in Word
    BY <2>1, LenProperties
  <2> HIDE DEF m, q
  <2>6. r \in Seq(Word)
    BY <2>1, <2>3, <2>5
  <2> HIDE DEF r
  <2>7. Head(<<n>> \o r) = n
    BY <2>4, <2>6, TopOfPrepend
  <2> QED
    BY <2>2, <2>7
<1>9. l.name = name
  BY DEF Instr, Text
<1> HIDE DEF l
<1>10. After(n) \in ManualStacks(l)
  BY <1>6, <1>8, <1>9, BinaryStacks
<1> HIDE DEF After
<1> QED
  BY <1>7, <1>10 DEF l

\* A mnemonic with a size.
LEMMA SizedAgrees ==
  ASSUME TypeOK, Execute, exception' = "AllIsOK",
         NEW name \in {"rd", "isto"}, NEW z \in {"b", "w", "l"},
         WordAt(pc) = SizedCode[name] + SizeID[z]
  PROVE  stacks' \in ManualStacks(Instr(name, <<z>>)) /\ pc' = Wrap(pc + 2)
<1> DEFINE l == Instr(name, <<z>>)
           q == stacks[D]
           w == WordAt(pc)
<1>1. SizeID[z] \in {1, 2, 4}
  BY DEF SizeID
<1>2. l.name = name
  BY DEF Instr, Text
<1> HIDE DEF w, l
<1>3. CASE name = "rd"
  <2>1. w = \hF200 + SizeID[z]
    BY <1>3 DEF SizedCode, w
  <2>2. w \div 4096 = 15 /\ Field(w, 256, 16) = 2
    BY <1>1, <2>1 DEF Field
  <2>3. Read
    BY <2>2, MeantGroups DEF w
  <2>4. Went([stacks EXCEPT ![D] = <<ByteAt(Head(q))>> \o Tail(q)])
    BY <2>3, ReadMeant
  <2>5. ManualStacks(l) = {[stacks EXCEPT ![D] = <<ByteAt(Head(q))>> \o Tail(q)]}
    <3>1. name \notin ManualBinary
      BY <1>3 DEF ManualBinary
    <3> QED
      BY <1>2, <1>3, <3>1 DEF ManualStacks, ManualUnary
  <2> QED
    BY <2>4, <2>5 DEF Went, l
<1>4. CASE name = "isto"
  <2>1. w = \hE5C0 + SizeID[z]
    BY <1>4 DEF SizedCode, w
  <2>2. w \div 4096 = 14 /\ Field(w, 128, 32) = 11
    BY <1>1, <2>1 DEF Field
  <2>3. Store
    BY <2>2, MeantGroups DEF w
  <2>4. Went([stacks EXCEPT ![D] = Tail(Tail(q))])
    BY <2>3, StoreMeant
  <2>5. ManualStacks(l) = {[stacks EXCEPT ![D] = Tail(Tail(q))]}
    <3>1. name \notin ManualBinary
      BY <1>4 DEF ManualBinary
    <3> QED
      BY <1>2, <1>4, <3>1 DEF ManualStacks
  <2> QED
    BY <2>4, <2>5 DEF Went, l
<1> QED
  BY <1>3, <1>4

\* An operation on one stack.
LEMMA StackAgrees ==
  ASSUME TypeOK, Execute, exception' = "AllIsOK",
         NEW name \in {"drop", "dup", "swap"}, NEW z \in {"d", "t"},
         WordAt(pc) = StackCode[name] + 64 * AsmStack[z]
  PROVE  stacks' \in ManualStacks(Instr(name, <<z>>)) /\ pc' = Wrap(pc + 2)
<1> DEFINE l == Instr(name, <<z>>)
           w == WordAt(pc)
           s == Field(w, 64, 4)
           f == Field(w, 256, 16)
<1>1. AsmStack[z] \in {0, 3} /\ AsmStack[z] = ManualStack[z]
  BY Placed
<1>2. l.name = name /\ l.letters[1] = z
  BY DEF Instr, Text
<1>3. /\ StackCode["drop"] = \hB000 /\ StackCode["dup"] = \hB100
      /\ StackCode["swap"] = \hB200
  BY DEF StackCode
<1>4. /\ w \div 4096 = 11 /\ s = AsmStack[z]
      /\ f = IF name = "drop" THEN 0 ELSE IF name = "dup" THEN 1 ELSE 2
  BY <1>1, <1>3 DEF Field
<1>5. Stack
  BY <1>4, MeantGroups
<1>6. OperationMeans(f, s, Field(w, 16, 4))
  BY <1>5, OperationMeant
<1> HIDE DEF w, l, s, f
<1>7. s = ManualStack[z]
  BY <1>1, <1>4
<1>8. name \notin ManualBinary
  BY DEF ManualBinary
<1>9. CASE name = "drop"
  <2>1. Went(Dropped(s))
    BY <1>4, <1>6, <1>9 DEF OperationMeans
  <2>2. ManualStacks(l) = {Dropped(s)}
    BY <1>2, <1>7, <1>8, <1>9 DEF ManualStacks, Dropped
  <2> QED
    BY <2>1, <2>2 DEF Went, l
<1>10. CASE name = "dup"
  <2>1. Went(Doubled(s))
    BY <1>4, <1>6, <1>10 DEF OperationMeans
  <2>2. ManualStacks(l) = {Doubled(s)}
    BY <1>2, <1>7, <1>8, <1>10 DEF ManualStacks, Doubled
  <2> QED
    BY <2>1, <2>2 DEF Went, l
<1>11. CASE name = "swap"
  <2>1. Went(Swapped(s))
    BY <1>4, <1>6, <1>11 DEF OperationMeans
  <2>2. ManualStacks(l) = {Swapped(s)}
    BY <1>2, <1>7, <1>8, <1>11 DEF ManualStacks, Swapped
  <2> QED
    BY <2>1, <2>2 DEF Went, l
<1> QED
  BY <1>9, <1>10, <1>11

\* A move between two stacks, or on one.
LEMMA MoveAgrees ==
  ASSUME TypeOK, Execute, exception' = "AllIsOK",
         NEW y \in {"d", "t"}, NEW z \in {"d", "t"},
         WordAt(pc) = StackCode["mov"] + 64 * AsmStack[y] + 16 * AsmStack[z]
  PROVE  stacks' \in ManualStacks(Instr("mov", <<y, z>>)) /\ pc' = Wrap(pc + 2)
<1> DEFINE l == Instr("mov", <<y, z>>)
           w == WordAt(pc)
           s == Field(w, 64, 4)
           t == Field(w, 16, 4)
<1>1. /\ AsmStack[y] \in {0, 3} /\ AsmStack[y] = ManualStack[y]
      /\ AsmStack[z] \in {0, 3} /\ AsmStack[z] = ManualStack[z]
  BY Placed
<1>2. l.name = "mov" /\ l.letters[1] = y /\ l.letters[2] = z
  BY DEF Instr, Text
<1>3. StackCode["mov"] = \hB300
  BY DEF StackCode
<1>4. /\ w \div 4096 = 11 /\ s = AsmStack[y] /\ t = AsmStack[z]
      /\ Field(w, 256, 16) = 3
  BY <1>1, <1>3 DEF Field
<1>5. Stack
  BY <1>4, MeantGroups
<1>6. OperationMeans(3, s, t)
  BY <1>4, <1>5, OperationMeant
<1> HIDE DEF w, l, s, t
<1>7. s = ManualStack[y] /\ t = ManualStack[z]
  BY <1>1, <1>4
<1>8. CASE s = t
  <2>1. Went(stacks)
    BY <1>6, <1>8 DEF OperationMeans
  <2>2. ManualStacks(l) = {stacks}
    BY <1>2, <1>7, <1>8 DEF ManualStacks, ManualBinary
  <2> QED
    BY <2>1, <2>2 DEF Went, l
<1>9. CASE s # t
  <2>1. Went(Moved(s, t))
    BY <1>6, <1>9 DEF OperationMeans
  <2>2. ManualStacks(l) = {Moved(s, t)}
    BY <1>2, <1>7, <1>9 DEF ManualStacks, ManualBinary, Moved
  <2> QED
    BY <2>1, <2>2 DEF Went, l
<1> QED
  BY <1>8, <1>9

-----------------------------------------------------------------------------
(* The three programs agree.                                               *)

\* The codes of the agreed mnemonics.
LEMMA AssembledCodes ==
  /\ \A n \in ManualBinary : Assembled(Instr(n, <<>>)) = FixedCode[n]
  /\ \A n \in {"rd", "isto"}, z \in {"b", "w", "l"} :
       Assembled(Instr(n, <<z>>)) = SizedCode[n] + SizeID[z]
  /\ \A n \in {"drop", "dup", "swap"}, z \in {"d", "t"} :
       Assembled(Instr(n, <<z>>)) = StackCode[n] + 64 * AsmStack[z]
  /\ \A y, z \in {"d", "t"} :
       Assembled(Instr("mov", <<y, z>>))
         = StackCode["mov"] + 64 * AsmStack[y] + 16 * AsmStack[z]
<1>1. \A n, q : Instr(n, q).name = n /\ Instr(n, q).letters = q
  BY DEF Instr, Text
<1>2. /\ ManualBinary \subseteq DOMAIN FixedCode
      /\ "mov" \notin DOMAIN FixedCode /\ "mov" \notin DOMAIN SizedCode
      /\ "mov" \in DOMAIN StackCode
      /\ \A n \in {"rd", "isto"} : n \notin DOMAIN FixedCode /\ n \in DOMAIN SizedCode
      /\ \A n \in {"drop", "dup", "swap"} :
           /\ n \notin DOMAIN FixedCode /\ n \notin DOMAIN SizedCode
           /\ n \in DOMAIN StackCode
  BY DEF ManualBinary, FixedCode, SizedCode, StackCode
<1>3. \A n \in ManualBinary : n \notin DOMAIN SizedCode /\ n \notin DOMAIN StackCode
                              /\ n \notin DOMAIN LoadCode
  BY DEF ManualBinary, SizedCode, StackCode, LoadCode
<1>4. /\ \A n \in {"rd", "isto"} : n \notin DOMAIN StackCode /\ n \notin DOMAIN LoadCode
      /\ \A n \in {"drop", "dup", "swap", "mov"} : n \notin DOMAIN LoadCode
  BY DEF StackCode, LoadCode
<1>5. ASSUME NEW n \in ManualBinary
      PROVE  Assembled(Instr(n, <<>>)) = FixedCode[n]
  <2> DEFINE l == Instr(n, <<>>)
  <2>1. l.name = n
    BY <1>1
  <2> HIDE DEF l
  <2>2. Assembled(l) = FixedCode[n]
    BY <1>2, <1>3, <2>1 DEF Assembled
  <2> QED
    BY <2>2 DEF l
<1>6. ASSUME NEW n \in {"rd", "isto"}, NEW z
      PROVE  Assembled(Instr(n, <<z>>)) = SizedCode[n] + SizeID[z]
  <2> DEFINE l == Instr(n, <<z>>)
  <2>1. l.name = n /\ l.letters[1] = z
    BY <1>1
  <2> HIDE DEF l
  <2>2. Assembled(l) = SizedCode[n] + SizeID[z]
    BY <1>2, <1>4, <2>1 DEF Assembled
  <2> QED
    BY <2>2 DEF l
<1>7. AsmStack["d"] = 0 /\ AsmStack["t"] = 3
  BY Placed
<1>8. ASSUME NEW n \in {"drop", "dup", "swap"}, NEW z \in {"d", "t"}
      PROVE  Assembled(Instr(n, <<z>>)) = StackCode[n] + 64 * AsmStack[z]
  <2> DEFINE l == Instr(n, <<z>>)
             a == StackCode[n] + 64 * AsmStack[z]
  <2>1. l.name = n /\ l.letters[1] = z /\ Len(l.letters) = 1
    BY <1>1
  <2> HIDE DEF l
  <2>2. Assembled(l) = a + (IF Len(l.letters) = 2 THEN 16 * AsmStack[l.letters[2]] ELSE 0)
    BY <1>2, <1>4, <2>1 DEF Assembled
  <2>3. a \in Int
    BY <1>7 DEF StackCode
  <2> HIDE DEF a
  <2>4. Assembled(l) = a
    BY <2>1, <2>2, <2>3
  <2> QED
    BY <2>4 DEF l, a
<1>9. ASSUME NEW y \in {"d", "t"}, NEW z \in {"d", "t"}
      PROVE  Assembled(Instr("mov", <<y, z>>))
               = StackCode["mov"] + 64 * AsmStack[y] + 16 * AsmStack[z]
  <2> DEFINE l == Instr("mov", <<y, z>>)
  <2>1. l.name = "mov" /\ l.letters[1] = y /\ l.letters[2] = z /\ Len(l.letters) = 2
    BY <1>1
  <2> HIDE DEF l
  <2>2. Assembled(l) = StackCode["mov"] + 64 * AsmStack[y] + 16 * AsmStack[z]
    BY <1>2, <1>4, <2>1 DEF Assembled
  <2> QED
    BY <2>2 DEF l
<1> QED
  BY <1>5, <1>6, <1>8, <1>9

\* The three programs agree: whatever the image and the sizes of the stacks, a
\* mnemonic of Agreed has the effect the manual gives it whenever the emulator
\* executes the code the assembler makes of it without an exception.
THEOREM AssembledAsMeant == Spec => AssembledMeaning
<1>1. ASSUME TypeOK, Step PROVE MeaningOf(Agreed)
  <2> DEFINE w == WordAt(pc)
  <2>1. Execute
    BY <1>1 DEF Step
  <2>2. instruction' = w
    BY <1>1, <2>1 DEF Execute, Enter, BranchIfFalse, Nop, Leave, Halt, Stack,
       LoadLow, LoadHigh, Binary, Store, NegNot, Read, Illegal, Finish
  <2> HIDE DEF w
  <2>3. ASSUME exception' = "AllIsOK", NEW l \in SourcesOfWord(w), Agreed(l)
        PROVE  stacks' \in ManualStacks(l) /\ pc' = Wrap(pc + 2)
    <3>1. l \in Sources /\ Assembled(l) = WordAt(pc)
      BY <2>3, SourceOf DEF w
    <3>2. \/ \E n \in ManualBinary : l = Instr(n, <<>>)
          \/ \E n \in {"rd", "isto"}, z \in {"b", "w", "l"} : l = Instr(n, <<z>>)
          \/ \E n \in {"drop", "dup", "swap"}, z \in {"d", "t"} : l = Instr(n, <<z>>)
          \/ \E y, z \in {"d", "t"} : l = Instr("mov", <<y, z>>)
      BY <2>3, <3>1, AgreedSources
    <3>3. ASSUME NEW n \in ManualBinary, l = Instr(n, <<>>)
          PROVE  stacks' \in ManualStacks(l) /\ pc' = Wrap(pc + 2)
      <4>1. WordAt(pc) = FixedCode[n]
        BY <3>1, <3>3, AssembledCodes
      <4> QED
        BY <1>1, <2>1, <2>3, <3>3, <4>1, BinaryAgrees
    <3>4. ASSUME NEW n \in {"rd", "isto"}, NEW z \in {"b", "w", "l"},
                 l = Instr(n, <<z>>)
          PROVE  stacks' \in ManualStacks(l) /\ pc' = Wrap(pc + 2)
      <4>1. WordAt(pc) = SizedCode[n] + SizeID[z]
        BY <3>1, <3>4, AssembledCodes
      <4> QED
        BY <1>1, <2>1, <2>3, <3>4, <4>1, SizedAgrees
    <3>5. ASSUME NEW n \in {"drop", "dup", "swap"}, NEW z \in {"d", "t"},
                 l = Instr(n, <<z>>)
          PROVE  stacks' \in ManualStacks(l) /\ pc' = Wrap(pc + 2)
      <4>1. WordAt(pc) = StackCode[n] + 64 * AsmStack[z]
        BY <3>1, <3>5, AssembledCodes
      <4> QED
        BY <1>1, <2>1, <2>3, <3>5, <4>1, StackAgrees
    <3>6. ASSUME NEW y \in {"d", "t"}, NEW z \in {"d", "t"},
                 l = Instr("mov", <<y, z>>)
          PROVE  stacks' \in ManualStacks(l) /\ pc' = Wrap(pc + 2)
      <4>1. WordAt(pc) = StackCode["mov"] + 64 * AsmStack[y] + 16 * AsmStack[z]
        BY <3>1, <3>6, AssembledCodes
      <4> QED
        BY <1>1, <2>1, <2>3, <3>6, <4>1, MoveAgrees
    <3> QED
      BY <3>2, <3>3, <3>4, <3>5, <3>6
  <2> QED
    BY <2>2, <2>3 DEF MeaningOf
<1>2. TypeOK /\ [Step]_vars => [MeaningOf(Agreed)]_vars
  BY <1>1
<1> QED
  BY TypeCorrect, <1>2, PTL DEF Spec, AssembledMeaning
=============================================================================
