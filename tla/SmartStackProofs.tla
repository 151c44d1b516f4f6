-------------------------- MODULE SmartStackProofs --------------------------
(***************************************************************************)
(* For every number of cells and every set of values: the registers and    *)
(* cells keep their types, the registers show the stack when they should,  *)
(* and smartstack.v implements the device that StackDevice describes.      *)
(***************************************************************************)
EXTENDS SmartStack, SequenceTheorems, TLAPS

-----------------------------------------------------------------------------
(* The cells below the pointer, as a sequence.                             *)

\* They are a sequence of as many values.
LEMMA CellsAreValues ==
  ASSUME NEW m \in [Index -> Value], NEW n \in Index
  PROVE  /\ Cells(m, n) \in Seq(Value)
         /\ Len(Cells(m, n)) = n
         /\ \A k \in 1 .. n : Cells(m, n)[k] = m[k - 1]
BY DepthAssumption DEF Cells, Index

\* A value that is written behind them is appended.
LEMMA PushedCells ==
  ASSUME NEW m \in [Index -> Value], NEW n \in Index, n + 1 \in Index,
         NEW v \in Value
  PROVE  Cells([m EXCEPT ![n] = v], n + 1) = Append(Cells(m, n), v)
<1> DEFINE w == [m EXCEPT ![n] = v]
           s == Cells(m, n)
           t == Cells(w, n + 1)
<1>1. w \in [Index -> Value] /\ w[n] = v
      /\ \A k \in 1 .. n : w[k - 1] = m[k - 1]
  BY DepthAssumption DEF Index
<1>2. s \in Seq(Value) /\ Len(s) = n /\ \A k \in 1 .. n : s[k] = m[k - 1]
  BY CellsAreValues
<1>3. t \in Seq(Value) /\ Len(t) = n + 1
      /\ \A k \in 1 .. n + 1 : t[k] = w[k - 1]
  BY <1>1, CellsAreValues
<1> HIDE DEF w, s, t
<1>4. /\ Append(s, v) \in Seq(Value) /\ Len(Append(s, v)) = n + 1
      /\ Append(s, v)[n + 1] = v
      /\ \A k \in 1 .. n : Append(s, v)[k] = s[k]
  BY <1>2, AppendProperties
<1>5. n \in Nat
  BY DepthAssumption DEF Index
<1>6. \A k \in 1 .. n + 1 : t[k] = Append(s, v)[k]
  BY <1>1, <1>2, <1>3, <1>4, <1>5
<1>7. t = Append(s, v)
  BY <1>3, <1>4, <1>6, SeqEqual
<1> QED
  BY <1>7 DEF w, s, t

\* A pointer that goes down cuts them.
LEMMA CutCells ==
  ASSUME NEW m \in [Index -> Value], NEW n \in Index, NEW j \in 0 .. n
  PROVE  Cells(m, n - j) = SubSeq(Cells(m, n), 1, n - j)
<1> DEFINE s == Cells(m, n)
           t == Cells(m, n - j)
           u == SubSeq(s, 1, n - j)
<1>1. n \in Nat /\ n - j \in Index /\ n - j \in Nat /\ n - j <= n
  BY DepthAssumption DEF Index
<1>2. s \in Seq(Value) /\ Len(s) = n /\ \A k \in 1 .. n : s[k] = m[k - 1]
  BY CellsAreValues
<1>3. t \in Seq(Value) /\ Len(t) = n - j
      /\ \A k \in 1 .. n - j : t[k] = m[k - 1]
  BY <1>1, CellsAreValues
<1> HIDE DEF s, t
<1>4. \A k \in 1 .. n - j : s[k] \in Value
  BY <1>1, <1>2, ElementOfSeq
<1>5. /\ u \in Seq(Value)
      /\ Len(u) = IF 1 <= n - j THEN (n - j) - 1 + 1 ELSE 0
      /\ \A k \in 1 .. (n - j) - 1 + 1 : u[k] = s[1 + k - 1]
  BY <1>1, <1>4, SubSeqProperties
<1> HIDE DEF u
<1>6. Len(u) = n - j /\ \A k \in 1 .. n - j : t[k] = u[k]
  <2>1. Len(u) = n - j
    BY <1>1, <1>5
  <2>2. ASSUME NEW k \in 1 .. n - j PROVE t[k] = u[k]
    <3>1. /\ k \in 1 .. (n - j) - 1 + 1 /\ 1 + k - 1 = k
          /\ k \in 1 .. n
      BY <1>1
    <3>2. u[k] = s[1 + k - 1]
      BY <1>5, <3>1
    <3> QED
      BY <1>2, <1>3, <3>1, <3>2
  <2> QED
    BY <2>1, <2>2
<1>7. t = u
  BY <1>3, <1>5, <1>6, SeqEqual
<1> QED
  BY <1>7 DEF s, t, u

\* A cell that is written changes one of them.
LEMMA WrittenCells ==
  ASSUME NEW m \in [Index -> Value], NEW n \in Index, NEW j \in 1 .. n,
         NEW v \in Value
  PROVE  Cells([m EXCEPT ![n - j] = v], n)
           = [Cells(m, n) EXCEPT ![n + 1 - j] = v]
<1> DEFINE w == [m EXCEPT ![n - j] = v]
           s == Cells(m, n)
           t == Cells(w, n)
           u == [s EXCEPT ![n + 1 - j] = v]
<1>1. n \in Nat /\ n + 1 - j \in 1 .. n /\ w \in [Index -> Value]
      /\ \A k \in 1 .. n : w[k - 1] = IF k = n + 1 - j THEN v ELSE m[k - 1]
  BY DepthAssumption DEF Index
<1>2. s \in Seq(Value) /\ Len(s) = n /\ \A k \in 1 .. n : s[k] = m[k - 1]
  BY CellsAreValues
<1>3. t \in Seq(Value) /\ Len(t) = n /\ \A k \in 1 .. n : t[k] = w[k - 1]
  BY <1>1, CellsAreValues
<1> HIDE DEF w, s, t
<1>4. /\ u \in Seq(Value) /\ Len(u) = n
      /\ \A k \in 1 .. n : u[k] = IF k = n + 1 - j THEN v ELSE s[k]
  BY <1>1, <1>2, ExceptSeq
<1> HIDE DEF u
<1>5. \A k \in 1 .. n : t[k] = u[k]
  BY <1>1, <1>2, <1>3, <1>4
<1>6. t = u
  BY <1>3, <1>4, <1>5, SeqEqual
<1> QED
  BY <1>6 DEF w, s, t, u

\* Two cells that are written change two of them.
WriteTwo(m, n, i, j, a, b) ==
  Cells([m EXCEPT ![n - i] = a, ![n - j] = b], n)
    = [Cells(m, n) EXCEPT ![n + 1 - i] = a, ![n + 1 - j] = b]

LEMMA TwoWrittenCells ==
  ASSUME NEW m \in [Index -> Value], NEW n \in Index,
         NEW i \in 1 .. n, NEW j \in 1 .. n, NEW a \in Value, NEW b \in Value
  PROVE  WriteTwo(m, n, i, j, a, b)
<1> DEFINE w == [m EXCEPT ![n - i] = a]
<1>1. w \in [Index -> Value]
  BY DepthAssumption DEF Index
<1>2. \A f \in [Index -> Value], k \in 1 .. n, v \in Value :
        Cells([f EXCEPT ![n - k] = v], n)
          = [Cells(f, n) EXCEPT ![n + 1 - k] = v]
  BY WrittenCells
<1>3. Cells([w EXCEPT ![n - j] = b], n) = [Cells(w, n) EXCEPT ![n + 1 - j] = b]
  <2> HIDE DEF w
  <2> QED
    BY <1>1, <1>2
<1>4. Cells(w, n) = [Cells(m, n) EXCEPT ![n + 1 - i] = a]
  BY <1>2
<1> QED
  BY <1>3, <1>4 DEF WriteTwo

-----------------------------------------------------------------------------
(* The types, and what the registers hold.                                 *)

\* The invariant: the types, and registers that are what is on the stack
\* whenever they are said to be, whether the stack was misused or not.
IInv == TypeOK /\ (fresh = TRUE => r_temp = OnTop)

\* What every edge of the clock does to the registers and the histories.
LEMMA LatchKeeps ==
  ASSUME IInv, NEW fetch \in BOOLEAN, Latch(fetch)
  PROVE  /\ r_temp' \in Temps
         /\ (fetch = TRUE \/ fresh = TRUE) => r_temp' = OnTop
<1>1. OnTop \in Temps
  BY DepthAssumption, ValueAssumption
  DEF IInv, TypeOK, OnTop, Below, Temps, Index
<1> QED
  BY <1>1 DEF Latch, IInv, TypeOK

LEMMA JudgeTyped ==
  ASSUME IInv, NEW fetch \in BOOLEAN, NEW ok \in BOOLEAN,
         NEW moves \in BOOLEAN, Judge(fetch, ok, moves)
  PROVE  /\ valid' \in BOOLEAN /\ fresh' \in BOOLEAN
         /\ fresh' = TRUE => moves = FALSE /\ (fetch = TRUE \/ fresh = TRUE)
BY DEF Judge, IInv, TypeOK

\* A write leaves cells, and the pointer stays in their range.
LEMMA Moves ==
  ASSUME IInv
  PROVE  /\ \A v \in Value : /\ Written(0, v) \in [Index -> Value]
                            /\ Written(1, v) \in [Index -> Value]
                            /\ Written(2, v) \in [Index -> Value]
         /\ Up(1) \in Index /\ Down(1) \in Index /\ Down(2) \in Index
BY DepthAssumption DEF IInv, TypeOK, Written, Up, Down, Index

\* An edge that moves no value.
LEMMA StillStep ==
  ASSUME IInv, NEW fetch \in BOOLEAN, NEW ok \in BOOLEAN,
         Latch(fetch), Judge(fetch, ok, FALSE),
         UNCHANGED <<r_stack, r_stack_top>>,
         o_read' \in [A : Value, B : Value]
  PROVE  IInv'
<1>1. r_stack' \in [Index -> Value] /\ r_stack_top' \in Index
  BY DEF IInv, TypeOK
<1>2. TypeOK'
  BY <1>1, LatchKeeps, JudgeTyped DEF TypeOK
<1>3. OnTop' = OnTop
  BY DEF OnTop, Below
<1>4. (fresh = TRUE => r_temp = OnTop)'
  BY <1>3, LatchKeeps, JudgeTyped
<1> QED
  BY <1>2, <1>4 DEF IInv

\* An edge that moves values.
LEMMA MovingStep ==
  ASSUME IInv, NEW fetch \in BOOLEAN, NEW ok \in BOOLEAN,
         Latch(fetch), Judge(fetch, ok, TRUE), UNCHANGED o_read,
         r_stack' \in [Index -> Value], r_stack_top' \in Index
  PROVE  IInv'
<1>1. o_read' \in [A : Value, B : Value]
  BY DEF IInv, TypeOK
<1>2. TypeOK'
  BY <1>1, LatchKeeps, JudgeTyped DEF TypeOK
<1>3. (fresh = TRUE => r_temp = OnTop)'
  BY JudgeTyped
<1> QED
  BY <1>2, <1>3 DEF IInv

\* Every step keeps the invariant.
LEMMA Step == IInv /\ [Next]_vars => IInv'
<1> SUFFICES ASSUME IInv, [Next]_vars PROVE IInv'
  OBVIOUS
<1>1. CASE Reset
  <2>1. 0 \in Index /\ [A |-> ZERO, B |-> ZERO, C |-> ZERO] \in Temps
    BY DepthAssumption, ValueAssumption DEF Index, Temps
  <2>2. r_stack' \in [Index -> Value] /\ o_read' \in [A : Value, B : Value]
    BY <1>1 DEF Reset, IInv, TypeOK
  <2>3. fresh' = FALSE /\ fresh' \in BOOLEAN /\ valid' \in BOOLEAN
    BY <1>1 DEF Reset
  <2>4. TypeOK'
    BY <1>1, <2>1, <2>2, <2>3 DEF Reset, TypeOK
  <2> QED
    BY <2>3, <2>4 DEF IInv
<1>2. CASE \E fetch \in BOOLEAN : Clock(fetch)
  <2> PICK fetch \in BOOLEAN : Clock(fetch)
    BY <1>2
  <2> DEFINE two == r_stack_top >= 2 /\ fresh
             three == r_stack_top >= 3 /\ fresh
             full == r_stack_top < DEPTH - 1
             one == r_stack_top >= 1
             both == r_stack_top >= 2
  <2>1. /\ r_stack \in [Index -> Value] /\ r_stack_top \in Index
        /\ o_read \in [A : Value, B : Value] /\ r_temp \in Temps
        /\ fresh \in BOOLEAN /\ two \in BOOLEAN /\ three \in BOOLEAN
        /\ full \in BOOLEAN /\ one \in BOOLEAN /\ both \in BOOLEAN
    BY DEF IInv, TypeOK
  <2>2. CASE Hold(fetch)
    BY <2>1, <2>2, StillStep DEF Hold
  <2>3. CASE Peek(fetch)
    <3>1. o_read' \in [A : Value, B : Value]
      BY <2>1, <2>3 DEF Peek, Temps
    <3> QED
      BY <2>1, <2>3, <3>1, StillStep DEF Peek
  <2>4. CASE \E d \in Value : Push(fetch, d) \/ D1Push(fetch, d)
                                \/ D2Push(fetch, d)
    <3> PICK d \in Value : Push(fetch, d) \/ D1Push(fetch, d)
                             \/ D2Push(fetch, d)
      BY <2>4
    <3>1. CASE Push(fetch, d)
      <4>1. r_stack' \in [Index -> Value] /\ r_stack_top' \in Index
        BY <3>1, <2>1, Moves DEF Push
      <4> QED
        BY <2>1, <3>1, <4>1, MovingStep DEF Push
    <3>2. CASE D1Push(fetch, d)
      <4>1. r_stack' \in [Index -> Value] /\ r_stack_top' \in Index
        BY <3>2, <2>1, Moves DEF D1Push
      <4> QED
        BY <2>1, <3>2, <4>1, MovingStep DEF D1Push
    <3>3. CASE D2Push(fetch, d)
      <4>1. r_stack' \in [Index -> Value] /\ r_stack_top' \in Index
        BY <3>3, <2>1, Moves DEF D2Push
      <4> QED
        BY <2>1, <3>3, <4>1, MovingStep DEF D2Push
    <3> QED
      BY <3>1, <3>2, <3>3
  <2>5. CASE Drop(fetch)
    <3>1. r_stack' \in [Index -> Value] /\ r_stack_top' \in Index
      BY <2>1, <2>5, Moves DEF Drop
    <3> QED
      BY <2>1, <2>5, <3>1, MovingStep DEF Drop
  <2>6. CASE Drop2(fetch)
    <3>1. r_stack' \in [Index -> Value] /\ r_stack_top' \in Index
      BY <2>1, <2>6, Moves DEF Drop2
    <3> QED
      BY <2>1, <2>6, <3>1, MovingStep DEF Drop2
  <2>7. CASE Swap(fetch)
    <3>1. r_temp.A \in Value /\ r_temp.B \in Value
      BY <2>1 DEF Temps
    <3>2. Written(1, r_temp.B) \in [Index -> Value]
      BY <3>1, Moves
    <3>3. r_stack' \in [Index -> Value] /\ r_stack_top' \in Index
      BY <2>1, <2>7, <3>1, <3>2 DEF Swap
    <3> QED
      BY <2>1, <2>7, <3>3, MovingStep DEF Swap
  <2>8. CASE Roll(fetch)
    <3>1. r_temp.A \in Value /\ r_temp.C \in Value
      BY <2>1 DEF Temps
    <3>2. Written(1, r_temp.C) \in [Index -> Value]
      BY <3>1, Moves
    <3>3. r_stack' \in [Index -> Value] /\ r_stack_top' \in Index
      BY <2>1, <2>8, <3>1, <3>2 DEF Roll
    <3> QED
      BY <2>1, <2>8, <3>3, MovingStep DEF Roll
  <2> QED
    BY <2>2, <2>3, <2>4, <2>5, <2>6, <2>7, <2>8
    DEF Clock
<1>3. CASE UNCHANGED vars
  BY <1>3 DEF vars, IInv, TypeOK, OnTop, Below
<1> QED
  BY <1>1, <1>2, <1>3 DEF Next

LEMMA Always == Spec => []IInv
<1>1. Init => IInv
  BY DEF Init, IInv, TypeOK
<1> QED
  BY <1>1, Step, PTL DEF Spec

\* Whatever is driven into the device, its registers keep their types: the
\* pointer wraps within its bits, and no write leaves the cells.
THEOREM TypeCorrect == Spec => []TypeOK
<1>1. IInv => TypeOK
  BY DEF IInv
<1> QED
  BY <1>1, Always, PTL

-----------------------------------------------------------------------------
(* smartstack.v implements StackDevice.                                    *)

\* What Device has for data while the stack is used as it should be.
LEMMA ValidData ==
  ASSUME IInv, valid = TRUE
  PROVE  /\ Device!N = r_stack_top
         /\ \A n \in 1 .. 3 : Device!FromTop(n) = Below(n)
<1> DEFINE data == Cells(r_stack, r_stack_top)
<1>1. r_stack \in [Index -> Value] /\ r_stack_top \in Index
      /\ r_stack_top \in Nat
  BY DepthAssumption DEF IInv, TypeOK, Index
<1>2. Len(data) = r_stack_top
      /\ \A k \in 1 .. r_stack_top : data[k] = r_stack[k - 1]
  BY <1>1, CellsAreValues
<1> HIDE DEF data
<1>3. (IF valid THEN data ELSE <<>>) = data
  OBVIOUS
<1>4. Device!N = r_stack_top
  BY <1>2, <1>3 DEF Device!N, data
<1>5. ASSUME NEW n \in 1 .. 3
      PROVE  Device!FromTop(n)
               = IF r_stack_top >= n THEN data[r_stack_top + 1 - n] ELSE DEAD
  BY <1>3, <1>4 DEF Device!FromTop, data
<1>6. ASSUME NEW n \in 1 .. 3, r_stack_top >= n
      PROVE  data[r_stack_top + 1 - n] = r_stack[r_stack_top - n]
  BY <1>1, <1>2, <1>6
<1> QED
  BY <1>4, <1>5, <1>6 DEF Below

\* Whenever the registers are said to be fresh they hold the three topmost
\* values of the promised stack: in every order of fetches and stores, also
\* when both come with the same edge.
THEOREM RegistersShowStack == Spec => []TempsShowStack
<1>1. IInv => TempsShowStack
  BY ValidData DEF IInv, TempsShowStack, OnTop
<1> QED
  BY <1>1, Always, PTL

\* A step after which nothing is promised.
LEMMA Unpromised == valid' = FALSE => Device!Misused
BY DEF Device!Misused

\* Each operation, used as it should be, does to the promised stack what the
\* device says.

\* PUSH appends, while there is room.
LEMMA PushImplements ==
  ASSUME IInv, NEW fetch \in BOOLEAN, NEW d \in Value,
         Push(fetch, d), valid' = TRUE
  PROVE  Device!Operate
<1> DEFINE old == Cells(r_stack, r_stack_top)
           new == Cells(r_stack', r_stack_top')
<1>1. Judge(fetch, r_stack_top < DEPTH - 1, TRUE)
  BY DEF Push
<1>2. valid = TRUE /\ r_stack_top < DEPTH - 1
  BY <1>1 DEF Judge, IInv, TypeOK
<1>3. /\ r_stack \in [Index -> Value] /\ r_stack_top \in Index
      /\ r_stack_top \in Nat /\ r_stack_top < DEPTH
  BY DepthAssumption DEF IInv, TypeOK, Index
<1>4. new = Append(old, d)
  <2>1. r_stack_top + 1 \in Index /\ r_stack_top' = r_stack_top + 1
    BY <1>2, <1>3, DepthAssumption DEF Push, Up, Index
  <2>2. r_stack' = [r_stack EXCEPT ![r_stack_top] = d]
    BY <1>3 DEF Push, Written
  <2> QED
    BY <1>3, <2>1, <2>2, PushedCells
<1>5. Device!N = r_stack_top
  BY <1>2, ValidData
<1>6. /\ (IF valid THEN old ELSE <<>>) = old
      /\ (IF valid' THEN new ELSE <<>>) = new
  BY <1>2
<1>7. Device!Push(d)
  BY <1>2, <1>3, <1>4, <1>5, <1>6 DEF Device!Push
<1> QED
  BY <1>2, <1>7 DEF Push, Device!Operate, Device!Move

\* D1PUSH replaces the topmost value.
LEMMA D1PushImplements ==
  ASSUME IInv, NEW fetch \in BOOLEAN, NEW d \in Value,
         D1Push(fetch, d), valid' = TRUE
  PROVE  Device!Operate
<1> DEFINE old == Cells(r_stack, r_stack_top)
           new == Cells(r_stack', r_stack_top')
<1>1. Judge(fetch, r_stack_top >= 1, TRUE)
  BY DEF D1Push
<1>2. valid = TRUE /\ r_stack_top >= 1
  BY <1>1 DEF Judge, IInv, TypeOK
<1>3. /\ r_stack \in [Index -> Value] /\ r_stack_top \in Index
      /\ r_stack_top \in Nat /\ r_stack_top < DEPTH
  BY DepthAssumption DEF IInv, TypeOK, Index
<1>4. new = [old EXCEPT ![r_stack_top] = d]
  <2>1. r_stack' = [r_stack EXCEPT ![r_stack_top - 1] = d]
        /\ r_stack_top' = r_stack_top
    BY <1>2 DEF D1Push, Written
  <2>2. Cells([r_stack EXCEPT ![r_stack_top - 1] = d], r_stack_top)
          = [old EXCEPT ![r_stack_top + 1 - 1] = d]
    <3>1. \A j \in 1 .. r_stack_top, v \in Value :
            Cells([r_stack EXCEPT ![r_stack_top - j] = v], r_stack_top)
              = [old EXCEPT ![r_stack_top + 1 - j] = v]
      BY <1>3, WrittenCells
    <3>2. 1 \in 1 .. r_stack_top
      BY <1>2, <1>3
    <3> HIDE DEF old
    <3> QED
      BY <3>1, <3>2
  <2>3. r_stack_top + 1 - 1 = r_stack_top
    BY <1>3
  <2> QED
    BY <2>1, <2>2, <2>3
<1>5. Device!N = r_stack_top
  BY <1>2, ValidData
<1>6. /\ (IF valid THEN old ELSE <<>>) = old
      /\ (IF valid' THEN new ELSE <<>>) = new
  BY <1>2
<1>7. Device!D1Push(d)
  BY <1>2, <1>3, <1>4, <1>5, <1>6 DEF Device!D1Push
<1> QED
  BY <1>2, <1>7 DEF D1Push, Device!Operate, Device!Move

\* D2PUSH replaces the two topmost values by one.
LEMMA D2PushImplements ==
  ASSUME IInv, NEW fetch \in BOOLEAN, NEW d \in Value,
         D2Push(fetch, d), valid' = TRUE
  PROVE  Device!Operate
<1> DEFINE old == Cells(r_stack, r_stack_top)
           new == Cells(r_stack', r_stack_top')
<1>1. Judge(fetch, r_stack_top >= 2, TRUE)
  BY DEF D2Push
<1>2. valid = TRUE /\ r_stack_top >= 2
  BY <1>1 DEF Judge, IInv, TypeOK
<1>3. /\ r_stack \in [Index -> Value] /\ r_stack_top \in Index
      /\ r_stack_top \in Nat /\ r_stack_top < DEPTH
  BY DepthAssumption DEF IInv, TypeOK, Index
<1>4. new = Append(SubSeq(old, 1, r_stack_top - 2), d)
  <2>1. r_stack_top - 2 \in Index /\ r_stack_top - 2 + 1 \in Index
        /\ r_stack_top' = r_stack_top - 2 + 1 /\ 2 \in 0 .. r_stack_top
    BY <1>2, <1>3, DepthAssumption DEF D2Push, Down, Index
  <2>2. r_stack' = [r_stack EXCEPT ![r_stack_top - 2] = d]
    BY <1>2 DEF D2Push, Written
  <2>3. new = Append(Cells(r_stack, r_stack_top - 2), d)
    BY <1>3, <2>1, <2>2, PushedCells
  <2> QED
    BY <1>3, <2>1, <2>3, CutCells
<1>5. Device!N = r_stack_top
  BY <1>2, ValidData
<1>6. /\ (IF valid THEN old ELSE <<>>) = old
      /\ (IF valid' THEN new ELSE <<>>) = new
  BY <1>2
<1>7. Device!D2Push(d)
  BY <1>2, <1>3, <1>4, <1>5, <1>6 DEF Device!D2Push, Device!Cut
<1> QED
  BY <1>2, <1>7 DEF D2Push, Device!Operate, Device!Move

\* DROP cuts one value.
LEMMA DropImplements ==
  ASSUME IInv, NEW fetch \in BOOLEAN, Drop(fetch), valid' = TRUE
  PROVE  Device!Operate
<1> DEFINE old == Cells(r_stack, r_stack_top)
           new == Cells(r_stack', r_stack_top')
<1>1. Judge(fetch, r_stack_top >= 1, TRUE)
  BY DEF Drop
<1>2. valid = TRUE /\ r_stack_top >= 1
  BY <1>1 DEF Judge, IInv, TypeOK
<1>3. /\ r_stack \in [Index -> Value] /\ r_stack_top \in Index
      /\ r_stack_top \in Nat /\ r_stack_top < DEPTH
  BY DepthAssumption DEF IInv, TypeOK, Index
<1>4. new = SubSeq(old, 1, r_stack_top - 1)
  <2>1. r_stack_top' = r_stack_top - 1 /\ 1 \in 0 .. r_stack_top
        /\ r_stack' = r_stack
    BY <1>2, <1>3 DEF Drop, Down
  <2> QED
    BY <1>3, <2>1, CutCells
<1>5. Device!N = r_stack_top
  BY <1>2, ValidData
<1>6. /\ (IF valid THEN old ELSE <<>>) = old
      /\ (IF valid' THEN new ELSE <<>>) = new
  BY <1>2
<1>7. Device!Drop
  BY <1>2, <1>3, <1>4, <1>5, <1>6 DEF Device!Drop, Device!Cut
<1> QED
  BY <1>2, <1>7 DEF Drop, Device!Operate, Device!Move

\* DROP2 cuts two values.
LEMMA Drop2Implements ==
  ASSUME IInv, NEW fetch \in BOOLEAN, Drop2(fetch), valid' = TRUE
  PROVE  Device!Operate
<1> DEFINE old == Cells(r_stack, r_stack_top)
           new == Cells(r_stack', r_stack_top')
<1>1. Judge(fetch, r_stack_top >= 2, TRUE)
  BY DEF Drop2
<1>2. valid = TRUE /\ r_stack_top >= 2
  BY <1>1 DEF Judge, IInv, TypeOK
<1>3. /\ r_stack \in [Index -> Value] /\ r_stack_top \in Index
      /\ r_stack_top \in Nat /\ r_stack_top < DEPTH
  BY DepthAssumption DEF IInv, TypeOK, Index
<1>4. new = SubSeq(old, 1, r_stack_top - 2)
  <2>1. r_stack_top' = r_stack_top - 2 /\ 2 \in 0 .. r_stack_top
        /\ r_stack' = r_stack
    BY <1>2, <1>3 DEF Drop2, Down
  <2> QED
    BY <1>3, <2>1, CutCells
<1>5. Device!N = r_stack_top
  BY <1>2, ValidData
<1>6. /\ (IF valid THEN old ELSE <<>>) = old
      /\ (IF valid' THEN new ELSE <<>>) = new
  BY <1>2
<1>7. Device!Drop2
  BY <1>2, <1>3, <1>4, <1>5, <1>6 DEF Device!Drop2, Device!Cut
<1> QED
  BY <1>2, <1>7 DEF Drop2, Device!Operate, Device!Move

\* SWAP exchanges the topmost value with the second, if the registers
\* hold them.
LEMMA SwapImplements ==
  ASSUME IInv, NEW fetch \in BOOLEAN, Swap(fetch), valid' = TRUE
  PROVE  Device!Operate
<1> DEFINE old == Cells(r_stack, r_stack_top)
           new == Cells(r_stack', r_stack_top')
<1>1. Judge(fetch, r_stack_top >= 2 /\ fresh, TRUE)
  BY DEF Swap
<1>2. valid = TRUE /\ r_stack_top >= 2 /\ fresh = TRUE
  BY <1>1 DEF Judge, IInv, TypeOK
<1>3. /\ r_stack \in [Index -> Value] /\ r_stack_top \in Index
      /\ r_stack_top \in Nat /\ r_stack_top < DEPTH
  BY DepthAssumption DEF IInv, TypeOK, Index
<1>4. new = [old EXCEPT ![r_stack_top] = old[r_stack_top - 1],
                        ![r_stack_top - 1] = old[r_stack_top]]
  <2>1. r_temp = OnTop
    BY <1>2 DEF IInv
  <2>2. /\ r_temp.A = r_stack[r_stack_top - 1]
        /\ r_temp.B = r_stack[r_stack_top - 2]
    BY <1>2, <1>3, <2>1 DEF OnTop, Below
  <2>3. /\ r_stack[r_stack_top - 1] \in Value
        /\ r_stack[r_stack_top - 2] \in Value
        /\ 1 \in 1 .. r_stack_top /\ 2 \in 1 .. r_stack_top
    BY <1>2, <1>3, DepthAssumption DEF Index
  <2>4. /\ old[r_stack_top] = r_stack[r_stack_top - 1]
        /\ old[r_stack_top - 1] = r_stack[r_stack_top - 2]
    <3>1. \A j \in 1 .. r_stack_top : old[j] = r_stack[j - 1]
      BY <1>3, CellsAreValues
    <3>2. /\ r_stack_top \in 1 .. r_stack_top
          /\ r_stack_top - 1 \in 1 .. r_stack_top
          /\ r_stack_top - 1 - 1 = r_stack_top - 2
      BY <1>2, <1>3
    <3> QED
      BY <3>1, <3>2
  <2> DEFINE a == r_stack[r_stack_top - 2]
             b == r_stack[r_stack_top - 1]
  <2>5. /\ r_stack_top' = r_stack_top
        /\ r_stack' = [r_stack EXCEPT ![r_stack_top - 1] = a,
                                      ![r_stack_top - 2] = b]
    BY <1>2, <2>2 DEF Swap
  <2>6. Cells([r_stack EXCEPT ![r_stack_top - 1] = a,
                              ![r_stack_top - 2] = b], r_stack_top)
          = [old EXCEPT ![r_stack_top + 1 - 1] = a,
                        ![r_stack_top + 1 - 2] = b]
    <3>1. r_stack \in [Index -> Value] /\ r_stack_top \in Index
      BY <1>3
    <3>2. a \in Value /\ b \in Value
      BY <2>3
    <3> HIDE DEF a, b, old
    <3>3. WriteTwo(r_stack, r_stack_top, 1, 2, a, b)
      BY <2>3, <3>1, <3>2, TwoWrittenCells
    <3> QED
      BY <3>3 DEF WriteTwo, old
  <2>7. /\ r_stack_top + 1 - 1 = r_stack_top
        /\ r_stack_top + 1 - 2 = r_stack_top - 1
    BY <1>3
  <2> QED
    BY <2>4, <2>5, <2>6, <2>7
<1>5. Device!N = r_stack_top
  BY <1>2, ValidData
<1>6. /\ (IF valid THEN old ELSE <<>>) = old
      /\ (IF valid' THEN new ELSE <<>>) = new
  BY <1>2
<1>7. Device!Swap
  BY <1>2, <1>3, <1>4, <1>5, <1>6 DEF Device!Swap
<1> QED
  BY <1>2, <1>7 DEF Swap, Device!Operate, Device!Move

\* ROLL moves the topmost value below the next two, if the registers hold
\* them, and these two change places.
LEMMA RollImplements ==
  ASSUME IInv, NEW fetch \in BOOLEAN, Roll(fetch), valid' = TRUE
  PROVE  Device!Operate
<1> DEFINE old == Cells(r_stack, r_stack_top)
           new == Cells(r_stack', r_stack_top')
<1>1. Judge(fetch, r_stack_top >= 3 /\ fresh, TRUE)
  BY DEF Roll
<1>2. valid = TRUE /\ r_stack_top >= 3 /\ fresh = TRUE
  BY <1>1 DEF Judge, IInv, TypeOK
<1>3. /\ r_stack \in [Index -> Value] /\ r_stack_top \in Index
      /\ r_stack_top \in Nat /\ r_stack_top < DEPTH
  BY DepthAssumption DEF IInv, TypeOK, Index
<1>4. new = [old EXCEPT ![r_stack_top] = old[r_stack_top - 2],
                        ![r_stack_top - 2] = old[r_stack_top]]
  <2>1. r_temp = OnTop
    BY <1>2 DEF IInv
  <2>2. /\ r_temp.A = r_stack[r_stack_top - 1]
        /\ r_temp.C = r_stack[r_stack_top - 3]
    BY <1>2, <1>3, <2>1 DEF OnTop, Below
  <2>3. /\ r_stack[r_stack_top - 1] \in Value
        /\ r_stack[r_stack_top - 3] \in Value
        /\ 1 \in 1 .. r_stack_top /\ 3 \in 1 .. r_stack_top
    BY <1>2, <1>3, DepthAssumption DEF Index
  <2>4. /\ old[r_stack_top] = r_stack[r_stack_top - 1]
        /\ old[r_stack_top - 2] = r_stack[r_stack_top - 3]
    <3>1. \A j \in 1 .. r_stack_top : old[j] = r_stack[j - 1]
      BY <1>3, CellsAreValues
    <3>2. /\ r_stack_top \in 1 .. r_stack_top
          /\ r_stack_top - 2 \in 1 .. r_stack_top
          /\ r_stack_top - 2 - 1 = r_stack_top - 3
      BY <1>2, <1>3
    <3> QED
      BY <3>1, <3>2
  <2> DEFINE a == r_stack[r_stack_top - 3]
             b == r_stack[r_stack_top - 1]
  <2>5. /\ r_stack_top' = r_stack_top
        /\ r_stack' = [r_stack EXCEPT ![r_stack_top - 1] = a,
                                      ![r_stack_top - 3] = b]
    BY <1>2, <2>2 DEF Roll
  <2>6. Cells([r_stack EXCEPT ![r_stack_top - 1] = a,
                              ![r_stack_top - 3] = b], r_stack_top)
          = [old EXCEPT ![r_stack_top + 1 - 1] = a,
                        ![r_stack_top + 1 - 3] = b]
    <3>1. r_stack \in [Index -> Value] /\ r_stack_top \in Index
      BY <1>3
    <3>2. a \in Value /\ b \in Value
      BY <2>3
    <3> HIDE DEF a, b, old
    <3>3. WriteTwo(r_stack, r_stack_top, 1, 3, a, b)
      BY <2>3, <3>1, <3>2, TwoWrittenCells
    <3> QED
      BY <3>3 DEF WriteTwo, old
  <2>7. /\ r_stack_top + 1 - 1 = r_stack_top
        /\ r_stack_top + 1 - 3 = r_stack_top - 2
    BY <1>3
  <2> QED
    BY <2>4, <2>5, <2>6, <2>7
<1>5. Device!N = r_stack_top
  BY <1>2, ValidData
<1>6. /\ (IF valid THEN old ELSE <<>>) = old
      /\ (IF valid' THEN new ELSE <<>>) = new
  BY <1>2
<1>7. Device!Roll
  <2> DEFINE n == r_stack_top
             low == SubSeq(old, 1, n - 3)
             moved == low \o <<old[n], old[n - 1], old[n - 2]>>
  <2>1. old \in Seq(Value) /\ Len(old) = n
    BY <1>3, CellsAreValues
  <2>2. low \in Seq(Value) /\ Len(low) = n - 3
        /\ \A j \in 1 .. n - 3 : low[j] = old[j]
    BY <1>2, <1>3, <2>1
  <2>3. new \in Seq(Value) /\ Len(new) = n
    BY <1>2, <1>3, <1>4, <2>1
  <2>4. new = moved
    <3>1. /\ n \in Nat /\ n >= 3 /\ old[n] \in Value /\ old[n - 1] \in Value
          /\ old[n - 2] \in Value
      BY <1>2, <1>3, <2>1
    <3>2. \A j \in 1 .. n : new[j] = IF j = n THEN old[n - 2]
                                     ELSE IF j = n - 2 THEN old[n] ELSE old[j]
      BY <1>4, <2>1, <3>1
    <3> HIDE DEF old, new, low, n
    <3>3. /\ moved \in Seq(Value) /\ Len(moved) = n
          /\ \A j \in 1 .. n - 3 : moved[j] = low[j]
          /\ moved[n - 2] = old[n] /\ moved[n - 1] = old[n - 1]
          /\ moved[n] = old[n - 2]
      BY <2>2, <3>1
    <3> HIDE DEF moved
    <3>4. \A j \in 1 .. n : new[j] = moved[j]
      <4>1. \A j \in 1 .. n : j \in 1 .. n - 3 \/ j = n - 2 \/ j = n - 1 \/ j = n
        BY <3>1
      <4> QED
        BY <2>2, <3>1, <3>2, <3>3, <4>1
    <3> QED
      BY <2>3, <3>3, <3>4, SeqEqual
  <2> QED
    BY <1>2, <1>3, <1>5, <1>6, <2>4 DEF Device!Roll, Device!Cut
<1> QED
  BY <1>2, <1>7 DEF Roll, Device!Operate, Device!Move

\* PEEK reads what the registers hold, and the stack stays.
LEMMA PeekImplements ==
  ASSUME IInv, NEW fetch \in BOOLEAN, Peek(fetch), valid' = TRUE
  PROVE  Device!Operate
<1>1. Judge(fetch, fresh, FALSE)
  BY DEF Peek
<1>2. valid = TRUE /\ fresh = TRUE
  BY <1>1 DEF Judge, IInv, TypeOK
<1>3. r_temp = OnTop
  BY <1>2 DEF IInv
<1>4. r_temp.A = Below(1) /\ r_temp.B = Below(2)
  BY <1>3 DEF OnTop
<1>5. Device!FromTop(1) = Below(1) /\ Device!FromTop(2) = Below(2)
  BY <1>2, ValidData
<1>6. o_read' = [A |-> Device!FromTop(1), B |-> Device!FromTop(2)]
  BY <1>4, <1>5 DEF Peek
<1>7. r_stack' = r_stack /\ r_stack_top' = r_stack_top
  BY DEF Peek
<1>8. Device!Peek
  BY <1>2, <1>6, <1>7 DEF Device!Peek, Cells
<1> QED
  BY <1>2, <1>8 DEF Device!Operate

\* An edge without a store is not seen.
LEMMA HoldStutters ==
  ASSUME IInv, NEW fetch \in BOOLEAN, Hold(fetch)
  PROVE  UNCHANGED Device!deviceVars
<1>1. valid' = valid
  BY DEF Hold, Judge, IInv, TypeOK
<1>2. r_stack' = r_stack /\ r_stack_top' = r_stack_top /\ o_read' = o_read
  BY DEF Hold
<1> QED
  BY <1>1, <1>2 DEF Device!deviceVars, Cells

\* A reset empties the promised stack.
LEMMA ResetImplements ==
  ASSUME IInv, Reset
  PROVE  Device!Reset
<1> DEFINE new == Cells(r_stack', r_stack_top')
<1>1. valid' = TRUE /\ o_read' = o_read
  BY DEF Reset
<1>2. r_stack' \in [Index -> Value] /\ r_stack_top' = 0 /\ 0 \in Index
  BY DepthAssumption DEF Reset, IInv, TypeOK, Index
<1>3. new \in Seq(Value) /\ Len(new) = 0
  BY <1>2, CellsAreValues
<1>4. new = <<>>
  BY <1>3, EmptySeq
<1> QED
  BY <1>1, <1>4 DEF Device!Reset

\* Every step of the stack is a step of the device, or none.
LEMMA Maps == IInv /\ [Next]_vars => [Device!Next]_(Device!deviceVars)
<1> SUFFICES ASSUME IInv, [Next]_vars
             PROVE  Device!Next \/ UNCHANGED Device!deviceVars
  OBVIOUS
<1>1. CASE Reset
  BY <1>1, ResetImplements DEF Device!Next
<1>2. CASE \E fetch \in BOOLEAN : Clock(fetch)
  <2> PICK fetch \in BOOLEAN : Clock(fetch)
    BY <1>2
  <2>1. CASE Hold(fetch)
    BY <2>1, HoldStutters
  <2>2. CASE valid' = FALSE
    BY <2>2, Unpromised DEF Device!Next
  <2>3. CASE valid' = TRUE /\ ~Hold(fetch)
    <3>1. Device!Operate
      BY <2>3, PushImplements, D1PushImplements, D2PushImplements,
         SwapImplements, DropImplements, Drop2Implements, RollImplements,
         PeekImplements
      DEF Clock
    <3> QED
      BY <3>1 DEF Device!Next
  <2>4. valid' \in BOOLEAN
    BY Step DEF IInv, TypeOK
  <2> QED
    BY <2>1, <2>2, <2>3, <2>4
<1>3. CASE UNCHANGED vars
  BY <1>3 DEF vars, Device!deviceVars, Cells
<1> QED
  BY <1>1, <1>2, <1>3 DEF Next

\* The stack of the hardware, with its registers and its wrapping pointer,
\* implements the device that StackDevice describes: what a correct driver
\* sees is a stack of DEPTH - 1 values.
THEOREM Implements == Spec => IsStackDevice
<1>1. Init => Device!Init
  BY DEF Init, Device!Init
<1>2. IInv /\ [Next]_vars => [Device!Next]_(Device!deviceVars)
  BY Maps
<1> QED
  BY <1>1, <1>2, Always, PTL DEF Spec, IsStackDevice, Device!Spec
=============================================================================
