----------------------------- MODULE SmartStack -----------------------------
(***************************************************************************)
(* The stack of the hardware design, HWDesign/.../smartstack.v: DEPTH      *)
(* cells, a pointer of $clog2(DEPTH) bits, and three registers that a      *)
(* fetch fills from the top of the stack and a store works with.  Every    *)
(* step is an edge of i_rst or i_clk; the inputs are free.                 *)
(***************************************************************************)
EXTENDS Integers, Sequences

CONSTANTS
  DEPTH,   \* the number of cells (8 in the design)
  Value,   \* what a cell can hold (2^WIDTH values in the design)
  DEAD,    \* what is fetched from below the stack
  ZERO     \* what a reset leaves in the registers

ASSUME DepthAssumption == DEPTH \in Nat /\ DEPTH >= 4
\* A pointer of $clog2(DEPTH) bits goes from DEPTH - 1 to 0 only if DEPTH is a
\* power of two; for any other depth Up and Down would not be the code's.
ASSUME PointerAssumption == \E n \in 2 .. DEPTH : DEPTH = 2^n
ASSUME ValueAssumption == DEAD \in Value /\ ZERO \in Value

VARIABLES
  r_stack,      \* the cells
  r_stack_top,  \* the index of the first free cell
  r_temp,       \* r_temp_A, r_temp_B and r_temp_C
  o_read,       \* o_read_A and o_read_B
  fresh,        \* history: r_temp is what is on the stack now
  valid         \* history: there was a reset, and no misuse since

vars == <<r_stack, r_stack_top, r_temp, o_read, fresh, valid>>

Index == 0 .. DEPTH - 1
Temps == [A : Value, B : Value, C : Value]

TypeOK ==
  /\ r_stack \in [Index -> Value]
  /\ r_stack_top \in Index
  /\ r_temp \in Temps
  /\ o_read \in [A : Value, B : Value]
  /\ fresh \in BOOLEAN
  /\ valid \in BOOLEAN

\* Registers are undefined until they are written.
Init ==
  /\ r_stack \in [Index -> Value]
  /\ r_stack_top \in Index
  /\ r_temp \in Temps
  /\ o_read \in [A : Value, B : Value]
  /\ fresh = FALSE /\ valid = FALSE

-----------------------------------------------------------------------------
\* posedge i_rst: neither the cells nor the outputs are touched.
Reset ==
  /\ r_temp' = [A |-> ZERO, B |-> ZERO, C |-> ZERO]
  /\ r_stack_top' = 0
  /\ fresh' = FALSE /\ valid' = TRUE
  /\ UNCHANGED <<r_stack, o_read>>

\* Mutant of Below: the comparison is one off.
BelowLate(n) == IF r_stack_top > n THEN r_stack[r_stack_top - n] ELSE DEAD

\* The n-th value from the top.
Below(n) == IF r_stack_top >= n THEN r_stack[r_stack_top - n] ELSE DEAD

OnTop == [A |-> Below(1), B |-> Below(2), C |-> Below(3)]

\* i_fetch: all assignments take the values before the edge, so that a fetch
\* at the same edge as a store shows what the store has just changed.
Latch(fetch) == r_temp' = IF fetch THEN OnTop ELSE r_temp

\* Mutant of Down: the pointer has a sign.
DownSigned(n) == r_stack_top - n

\* The pointer has no bit for a carry.
Up(n)   == IF r_stack_top + n < DEPTH THEN r_stack_top + n
                                      ELSE r_stack_top + n - DEPTH
Down(n) == IF r_stack_top >= n THEN r_stack_top - n
                               ELSE r_stack_top - n + DEPTH

\* An index below 0 writes nothing.
Written(n, v) ==
  IF r_stack_top >= n THEN [r_stack EXCEPT ![r_stack_top - n] = v] ELSE r_stack

\* An edge that uses the stack as it should if ok holds, and moves its values
\* or not.
Judge(fetch, ok, moves) ==
  /\ valid' = (valid /\ ok)
  /\ fresh' = (~moves /\ (fetch \/ fresh))

\* i_store is low.
Hold(fetch) ==
  /\ Latch(fetch) /\ Judge(fetch, TRUE, FALSE)
  /\ UNCHANGED <<r_stack, r_stack_top, o_read>>

Push(fetch, d) ==
  /\ Latch(fetch) /\ Judge(fetch, r_stack_top < DEPTH - 1, TRUE)
  /\ r_stack' = Written(0, d)
  /\ r_stack_top' = Up(1)
  /\ UNCHANGED o_read

D1Push(fetch, d) ==
  /\ Latch(fetch) /\ Judge(fetch, r_stack_top >= 1, TRUE)
  /\ r_stack' = Written(1, d)
  /\ UNCHANGED <<r_stack_top, o_read>>

\* Mutant of D2Push: the pointer stays.
D2PushStays(fetch, d) ==
  /\ Latch(fetch) /\ Judge(fetch, r_stack_top >= 2, TRUE)
  /\ r_stack' = Written(2, d)
  /\ UNCHANGED <<r_stack_top, o_read>>

D2Push(fetch, d) ==
  /\ Latch(fetch) /\ Judge(fetch, r_stack_top >= 2, TRUE)
  /\ r_stack' = Written(2, d)
  /\ r_stack_top' = Down(1)
  /\ UNCHANGED o_read

Swap(fetch) ==
  /\ Latch(fetch) /\ Judge(fetch, r_stack_top >= 2 /\ fresh, TRUE)
  /\ r_stack' = IF r_stack_top >= 2
                  THEN [r_stack EXCEPT ![r_stack_top - 1] = r_temp.B,
                                       ![r_stack_top - 2] = r_temp.A]
                  ELSE Written(1, r_temp.B)
  /\ UNCHANGED <<r_stack_top, o_read>>

Drop(fetch) ==
  /\ Latch(fetch) /\ Judge(fetch, r_stack_top >= 1, TRUE)
  /\ r_stack_top' = Down(1)
  /\ UNCHANGED <<r_stack, o_read>>

Drop2(fetch) ==
  /\ Latch(fetch) /\ Judge(fetch, r_stack_top >= 2, TRUE)
  /\ r_stack_top' = Down(2)
  /\ UNCHANGED <<r_stack, o_read>>

\* The first and the third value change places (the table at the head of
\* smartstack.v has the second and the third stay in order instead).
Roll(fetch) ==
  /\ Latch(fetch) /\ Judge(fetch, r_stack_top >= 3 /\ fresh, TRUE)
  /\ r_stack' = IF r_stack_top >= 3
                  THEN [r_stack EXCEPT ![r_stack_top - 1] = r_temp.C,
                                       ![r_stack_top - 3] = r_temp.A]
                  ELSE Written(1, r_temp.C)
  /\ UNCHANGED <<r_stack_top, o_read>>

Peek(fetch) ==
  /\ Latch(fetch) /\ Judge(fetch, fresh, FALSE)
  /\ o_read' = [A |-> r_temp.A, B |-> r_temp.B]
  /\ UNCHANGED <<r_stack, r_stack_top>>

\* posedge i_clk.
Clock(fetch) ==
  \/ Hold(fetch) \/ Swap(fetch) \/ Drop(fetch) \/ Drop2(fetch)
  \/ Roll(fetch) \/ Peek(fetch)
  \/ \E d \in Value : Push(fetch, d) \/ D1Push(fetch, d) \/ D2Push(fetch, d)

Next == Reset \/ \E fetch \in BOOLEAN : Clock(fetch)

Spec == Init /\ [][Next]_vars

-----------------------------------------------------------------------------
(* Properties.                                                             *)

\* The n cells below the pointer, the bottom first.
Cells(m, n) == [k \in 1 .. n |-> m[k - 1]]

\* The cells below the pointer are the stack that StackDevice promises, with
\* one cell less than there are, whatever the order of fetches and stores.
\* What roll does with the second and the third value is not part of that
\* promise: the source's table and its code disagree.
Device == INSTANCE StackDevice WITH
  Capacity <- DEPTH - 1,
  Nothing  <- DEAD,
  data     <- IF valid THEN Cells(r_stack, r_stack_top) ELSE <<>>,
  read     <- o_read
IsStackDevice == Device!Spec

\* Between a fetch and the next move the registers hold the three topmost
\* values of that stack, and DEAD for each one that is missing.
TempsShowStack ==
  valid /\ fresh =>
    r_temp = [A |-> Device!FromTop(1), B |-> Device!FromTop(2),
              C |-> Device!FromTop(3)]
=============================================================================
