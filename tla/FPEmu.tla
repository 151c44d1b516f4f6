------------------------------- MODULE FPEmu --------------------------------
(***************************************************************************)
(* The Stackmaster-16 as FPEmu/src/fpemu.c emulates it: the registers and  *)
(* the four stacks of struct CPU_Context, and run(), which executes one    *)
(* instruction per turn of its loop while keep_going is set.  There is one *)
(* action per instruction group of the switch in run().                    *)
(*                                                                         *)
(* This module is the emulator started with -r and without -m: main()      *)
(* loads an image, resets the processor and calls run() once.  Module      *)
(* Monitor adds the interactive monitor.                                   *)
(***************************************************************************)
EXTENDS Words

CONSTANTS
  Images,        \* the memory images a hex file may load: sparse functions
                 \* from addresses to bytes; every other byte is zero
  StackSize,     \* the size of each stack, by stack id
  BeyondMemory   \* the byte that happens to lie behind the memory array

\* The ids of the data, return, control and temp stack.
D == 0
R == 1
C == 2
T == 3
StackID == {D, R, C, T}

ASSUME StackSizeAssumption ==
  StackSize \in [StackID -> {n \in Nat : n >= 2}]

IsImage(m) == DOMAIN m \subseteq Word /\ \A a \in DOMAIN m : m[a] \in Byte

ASSUME ImagesAssumption == \A image \in Images : IsImage(image)

ASSUME BeyondMemoryAssumption == BeyondMemory \in Byte

StartPC == 61440   \* 0xF000

Exception == {"AllIsOK", "StackOverflow", "StackUnderflow",
              "IllegalInstruction", "IllegalStackID"}

VARIABLES
  memory,        \* the image that was loaded; no instruction writes to it
  pc,            \* program counter
  instruction,   \* the instruction fetched last
  stacks,        \* stack id -> its cells, the top of the stack first
  keep_going,    \* does run() execute another instruction?
  single_step,   \* does run() stop after one instruction?
  exception      \* the exception that was raised last

regs == <<pc, instruction, stacks, keep_going, exception>>
vars == <<memory, regs, single_step>>

TypeOK ==
  /\ IsImage(memory)
  /\ pc \in Word
  /\ instruction \in Word
  /\ stacks \in [StackID -> Seq(Word)]
  /\ keep_going \in BOOLEAN
  /\ single_step \in BOOLEAN
  /\ exception \in Exception

-----------------------------------------------------------------------------
(* Fetching.                                                               *)

ByteAt(a) ==
  CASE a = 65536          -> BeyondMemory
    [] a \in DOMAIN memory -> memory[a]
    [] OTHER              -> 0

\* fetch_instruction: little endian, at any address.
WordAt(a) == ByteAt(a) + 256 * ByteAt(a + 1)

-----------------------------------------------------------------------------
(* One instruction may push and pop several times.  The part of the context*)
(* that push and pop change is threaded through them as a record.          *)

Context == [stacks |-> stacks, going |-> TRUE, exception |-> exception]

Raise(c, e) == [c EXCEPT !.going = FALSE, !.exception = e]

\* Mutant of Pop: an underflow that stops the processor without a reason.
PopSilent(c, s) ==
  IF c.stacks[s] = <<>> THEN [c EXCEPT !.going = FALSE]
                        ELSE [c EXCEPT !.stacks[s] = Tail(@)]

\* pop: the value it returns, and the context it leaves.
Popped(c, s) == IF c.stacks[s] = <<>> THEN DEAD ELSE Head(c.stacks[s])
Pop(c, s) ==
  IF c.stacks[s] = <<>> THEN Raise(c, "StackUnderflow")
                        ELSE [c EXCEPT !.stacks[s] = Tail(@)]

\* Mutant of Push: the overflow is noticed one cell too late.
PushLate(c, s, value) ==
  LET d == [c EXCEPT !.stacks[s] = <<value>> \o @]
  IN  IF Len(d.stacks[s]) = StackSize[s] + 1 THEN Raise(d, "StackOverflow") ELSE d

\* push: the test for overflow is an equality, and comes after the store.
Push(c, s, value) ==
  LET d == [c EXCEPT !.stacks[s] = <<value>> \o @]
  IN  IF Len(d.stacks[s]) = StackSize[s] THEN Raise(d, "StackOverflow") ELSE d

\* Mutant of Finish: single_step is not looked at.
FinishRunsOn(c, next_pc) ==
  /\ instruction' = WordAt(pc)
  /\ stacks' = c.stacks
  /\ exception' = c.exception
  /\ keep_going' = c.going
  /\ pc' = Wrap(next_pc)

\* The end of a turn of run()'s loop: c is the context the instruction left.
Finish(c, next_pc) ==
  /\ instruction' = WordAt(pc)
  /\ stacks' = c.stacks
  /\ exception' = c.exception
  /\ keep_going' = (c.going /\ ~single_step)
  /\ pc' = Wrap(next_pc)

-----------------------------------------------------------------------------
(* The instruction groups.                                                 *)

\* Mutant of Enter: the address of the ENTER itself is pushed.
EnterPushesPC ==
  /\ WordAt(pc) \div 16384 = 1
  /\ Finish(Push(Context, R, pc), 4 * (WordAt(pc) % 16384))

\* ENTER: call the subroutine at four times the 14-bit operand.
Enter ==
  /\ WordAt(pc) \div 16384 = 1
  /\ Finish(Push(Context, R, Wrap(pc + 2)), 4 * (WordAt(pc) % 16384))

\* Mutant of Offset: the sign is not extended.
OffsetUnsigned(w) == w % 4096

\* BIF: the 12-bit operand is a signed offset from the branch itself.
Offset(w) == IF w % 4096 < 2048 THEN w % 4096 ELSE (w % 4096) - 4096

BranchIfFalse ==
  /\ WordAt(pc) \div 4096 = 1
  /\ Finish(Pop(Context, D),
            IF Popped(Context, D) = 0 THEN pc + Offset(WordAt(pc)) ELSE pc + 2)

\* Group 0x8000.  The code behind its inner switch adds 2 to whatever address
\* the case left in pc.
Control(func) == WordAt(pc) \div 4096 = 8 /\ Field(WordAt(pc), 256, 16) = func

\* Mutant of Leave: the return address is read and left on the stack.
LeavePeeks == Control(1) /\ Finish(Context, Popped(Context, R) + 2)

Nop   == Control(0) /\ Finish(Context, pc + 2 + 2)
Leave == Control(1) /\ Finish(Pop(Context, R), Popped(Context, R) + 2)
Halt  == Control(2) /\ Finish([Context EXCEPT !.going = FALSE], pc + 2 + 2)

\* Mutant of StackOperation: DUP puts back what it took, and no more.
StackOperationDupOnce(c, func, s, t) ==
  LET v1 == Popped(c, s)
      c1 == Pop(c, s)
      v2 == Popped(c1, s)
      c2 == Pop(c1, s)
  IN  CASE func = 0 -> c1
        [] func = 1 -> Push(c1, s, v1)
        [] func = 2 -> Push(Push(c2, s, v1), s, v2)
        [] func = 3 -> Push(c1, t, v1)
        [] OTHER    -> Raise(c, "IllegalInstruction")

\* Group 0xB000: the stack operations on a source and a target stack.
StackOperation(c, func, s, t) ==
  LET v1 == Popped(c, s)
      c1 == Pop(c, s)
      v2 == Popped(c1, s)
      c2 == Pop(c1, s)
  IN  CASE func = 0 -> c1                                          \* DROP
        [] func = 1 -> Push(Push(c1, s, v1), s, v1)                \* DUP
        [] func = 2 -> Push(Push(c2, s, v1), s, v2)                \* SWAP
        [] func = 3 -> Push(c1, t, v1)                             \* MOV
        [] OTHER    -> Raise(c, "IllegalInstruction")

Stack ==
  LET w == WordAt(pc) IN
  /\ w \div 4096 = 11
  /\ Finish(StackOperation(Context, Field(w, 256, 16),
                           Field(w, 64, 4), Field(w, 16, 4)), pc + 2)

\* LDL pushes ten bits, LDH puts six bits over the top of the stack.
LoadLow ==
  LET w == WordAt(pc) IN
  /\ w \div 4096 = 12
  /\ Finish(Push(Context, Field(w, 1024, 4), w % 1024), pc + 2)

\* Mutant of LoadHigh: the high bits are added.
LoadHighAdds ==
  LET w == WordAt(pc)
      s == Field(w, 1024, 4)
  IN  /\ w \div 4096 = 13
      /\ Finish(Push(Pop(Context, s), s, Popped(Context, s) + 1024 * (w % 64)),
                pc + 2)

LoadHigh ==
  LET w == WordAt(pc)
      s == Field(w, 1024, 4)
  IN  /\ w \div 4096 = 13
      /\ Finish(Push(Pop(Context, s), s,
                     BitOr(Popped(Context, s), 1024 * (w % 64))), pc + 2)

-----------------------------------------------------------------------------
(* Groups 0xE000 and 0xF000 work on the data stack.                        *)

\* The functions of two values the code implements; ASR only if signed.
Implemented(func, signed) ==
  func \in {0, 1, 3} \cup 5 .. 10 \cup 13 .. 15 \/ (func = 4 /\ signed)

\* The cells the code may push for n1, popped first, and n2, popped second.
BinaryResults(func, signed, n1, n2) ==
  LET x == IF signed THEN ToSigned(n2) ELSE n2
      y == IF signed THEN ToSigned(n1) ELSE n1
  IN  CASE func = 0  -> {Wrap(n1 + n2)}
        [] func = 1  -> {Mul(n1, n2)}
        [] func = 3  -> {Truth(n2 = n1)}
        [] func = 4  -> {ShiftArithmetic(n2, k) : k \in ShiftCounts(n1)}
        [] func = 5  -> {Truth(x < y)}
        [] func = 6  -> {Truth(x > y)}
        [] func = 7  -> {Truth(x <= y)}
        [] func = 8  -> {Truth(x >= y)}
        [] func = 9  -> {ShiftLeft(n2, k) : k \in ShiftCounts(n1)}
        [] func = 10 -> {ShiftRight(n2, k) : k \in ShiftCounts(n1)}
        [] func = 13 -> {BitAnd(n2, n1)}
        [] func = 14 -> {BitOr(n2, n1)}
        [] func = 15 -> {BitXor(n2, n1)}

AfterTwoPops == Pop(Pop(Context, D), D)
First  == Popped(Context, D)

\* Mutant of Second: the first operand is read again.
SecondAgain == Popped(Context, D)

Second == Popped(Pop(Context, D), D)

Binary ==
  LET w == WordAt(pc)
      func == Field(w, 128, 32)
      signed == Field(w, 16, 2) = 1
  IN  /\ w \div 4096 = 14
      /\ Implemented(func, signed)
      /\ \E n \in BinaryResults(func, signed, First, Second) :
           Finish(Push(AfterTwoPops, D, n), pc + 2)

\* STO / ISTO: only a byte sent to an IO port is implemented (the write to
\* the terminal is outside this model); the operands are gone in any case.
Store ==
  LET w == WordAt(pc) IN
  /\ w \div 4096 = 14
  /\ Field(w, 128, 32) = 11
  /\ Finish(IF Field(w, 64, 2) = 1 /\ w % 4 = 1
              THEN AfterTwoPops ELSE Raise(AfterTwoPops, "IllegalInstruction"),
            pc + 2)

NegNot ==
  LET w == WordAt(pc)
      n == IF Field(w, 256, 16) = 0 THEN Wrap(0 - First) ELSE BitNot(First)
  IN  /\ w \div 4096 = 15
      /\ Field(w, 256, 16) \in {0, 1}
      /\ Finish(Push(Pop(Context, D), D, n), pc + 2)

\* RD / IRD: only a byte of memory can be read.
Read ==
  LET w == WordAt(pc) IN
  /\ w \div 4096 = 15
  /\ Field(w, 256, 16) = 2
  /\ Finish(IF Field(w, 64, 2) = 0 /\ w % 4 = 1
              THEN Push(Pop(Context, D), D, ByteAt(First))
              ELSE Raise(Pop(Context, D), "IllegalInstruction"),
            pc + 2)

\* Everything else: the default cases of the switches, which pop nothing.
IsIllegal(w) ==
  \/ w \div 4096 \in {0, 2, 3, 9, 10}
  \/ w \div 4096 = 8  /\ Field(w, 256, 16) > 2
  \/ w \div 4096 = 14 /\ Field(w, 128, 32) # 11
                      /\ ~Implemented(Field(w, 128, 32), Field(w, 16, 2) = 1)
  \/ w \div 4096 = 15 /\ Field(w, 256, 16) > 2

Illegal ==
  /\ IsIllegal(WordAt(pc))
  /\ Finish(Raise(Context, "IllegalInstruction"), pc + 2)

-----------------------------------------------------------------------------
Execute ==
  \/ Enter \/ BranchIfFalse \/ Nop \/ Leave \/ Halt \/ Stack \/ LoadLow
  \/ LoadHigh \/ Binary \/ Store \/ NegNot \/ Read \/ Illegal

\* One turn of the loop of run().
Step == keep_going /\ Execute /\ UNCHANGED <<memory, single_step>>

\* load_hex, then cpu_reset.
Init ==
  /\ memory \in Images
  /\ pc = StartPC
  /\ instruction = 0
  /\ stacks = [s \in StackID |-> <<>>]
  /\ keep_going = TRUE
  /\ single_step = FALSE
  /\ exception = "AllIsOK"

Spec == Init /\ [][Step]_vars

\* run() is a plain loop: it takes a step whenever it can.
FairSpec == Spec /\ WF_vars(Step)

-----------------------------------------------------------------------------
(* Properties of a plain run.                                              *)

\* While the processor goes on, every stack has room for another cell, and no
\* stack ever holds more cells than its size: push's test for equality (line
\* 87) is only sound because no instruction can start at or beyond the limit.
StackBound ==
  \A s \in StackID :
    /\ Len(stacks[s]) <= StackSize[s]
    /\ keep_going => Len(stacks[s]) < StackSize[s]

\* A processor that goes on has raised nothing, and one that stopped has
\* either executed HALT or raised an exception: run() never stops in silence
\* and never reports an exception for a HALT (lines 595-602).
StopReason ==
  /\ keep_going => exception = "AllIsOK"
  /\ ~keep_going => (exception = "AllIsOK" <=> instruction \div 256 = 130)

\* Code that puts something else on the return stack than ENTER does.
LoadsReturn(w) ==
  LET group == w \div 4096
  IN  \/ group = 11 /\ Field(w, 256, 16) = 3 /\ Field(w, 16, 4) = R
      \/ group \in {12, 13} /\ Field(w, 1024, 4) = R

\* Where an instruction may lie of which a byte is not zero: pc may be odd,
\* and its high byte may be the first one loaded or the one behind memory.
CodeAddresses ==
  DOMAIN memory \cup {a - 1 : a \in DOMAIN memory} \cup {65535}

\* As long as nothing went wrong, each cell of the return stack is the address
\* behind an ENTER, whatever is called, dropped, duplicated and swapped.  It is
\* stated for programs that put nothing else there with MOV, LDL or LDH.
ReturnAddresses ==
  exception = "AllIsOK" /\ stacks[R] # <<>>
    /\ (\A a \in CodeAddresses : ~LoadsReturn(WordAt(a))) =>
    \A i \in 1 .. Len(stacks[R]) :
      WordAt(Wrap(stacks[R][i] - 2)) \div 16384 = 1

-----------------------------------------------------------------------------
(* What the programmer's manual (Docs/stack-master-16-programmers-manual.md*)
(* lines 188-249 and 287-546) promises, to hold the emulator against.      *)

None == [s \in StackID |-> 0]

\* The stack effect the manual's ( before -- after ) notation gives each
\* instruction: the number of cells it adds to each stack.
ManualEffect(w) ==
  LET group == w \div 4096
      func  == Field(w, 256, 16)
      s     == Field(w, 64, 4)
      t     == Field(w, 16, 4)
  IN  CASE group \in 4 .. 7              -> [None EXCEPT ![R] = 1]
        [] group = 1                     -> [None EXCEPT ![D] = -1]
        [] group = 8 /\ func = 1         -> [None EXCEPT ![R] = -1]
        [] group = 11 /\ func = 0        -> [None EXCEPT ![s] = -1]
        [] group = 11 /\ func = 1        -> [None EXCEPT ![s] = 1]
        [] group = 11 /\ func = 3 /\ s # t
                                         -> [None EXCEPT ![s] = -1, ![t] = 1]
        [] group = 12 -> [None EXCEPT ![Field(w, 1024, 4)] = 1]
        [] group = 14 /\ Field(w, 128, 32) = 11 -> [None EXCEPT ![D] = -2]
        [] group = 14 /\ Field(w, 128, 32) # 11 -> [None EXCEPT ![D] = -1]
        [] OTHER                         -> None

\* An instruction that raises no exception changes the depth of each stack by
\* what the manual's stack notation says, and of no other stack.
StackEffect ==
  [][exception' = "AllIsOK" =>
       \A s \in StackID :
         Len(stacks'[s]) = Len(stacks[s]) + ManualEffect(instruction')[s]]_vars

\* Manual line 425, of LEAVE: "Pop the top value from the return stack and loads
\* this value into the PC."  run() adds 2 to it behind the inner switch.
LeaveLoadsReturnAddress ==
  [][Leave /\ stacks[R] # <<>> => pc' = Head(stacks[R])]_vars

\* Code that can go back: a branch, or an instruction that changes the return
\* stack other than ENTER and LEAVE do.
GoesBack(w) ==
  LET group == w \div 4096
      func  == Field(w, 256, 16)
  IN  \/ group = 1
      \/ group = 11 /\ (Field(w, 64, 4) = R \/ (func = 3 /\ Field(w, 16, 4) = R))
      \/ group \in {12, 13} /\ Field(w, 1024, 4) = R

\* Without such code a program comes to an end: straight code runs into the
\* zero bytes behind it, recursion into the size of the return stack, and a
\* return never goes to the same place twice.
RunStops ==
  (\A a \in DOMAIN memory : ~GoesBack(WordAt(a))) ~> ~keep_going
=============================================================================
