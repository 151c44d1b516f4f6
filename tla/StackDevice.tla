---------------------------- MODULE StackDevice -----------------------------
(***************************************************************************)
(* What smartstack.v promises to whoever drives it: a stack, its bottom    *)
(* first, and two outputs, as long as every operation finds the values it  *)
(* takes, leaves one cell free, and follows a fetch if it moves values.    *)
(* Once that is broken nothing is promised until the next reset.           *)
(***************************************************************************)
EXTENDS Integers, Sequences

CONSTANTS
  Value,     \* what a cell holds
  Capacity,  \* how many values the stack takes
  Nothing    \* what is read where there is no value

VARIABLES
  data,   \* the values, the last one on top
  read,   \* the outputs A and B
  valid   \* the device has been reset, and used as it should since

deviceVars == <<data, read, valid>>

N == Len(data)
Cut(n) == SubSeq(data, 1, N - n)
FromTop(n) == IF N >= n THEN data[N + 1 - n] ELSE Nothing

Init == data = <<>> /\ ~valid

Reset == valid' /\ data' = <<>> /\ UNCHANGED read

\* The function codes of the device, each with its effect.
Push(v)   == N < Capacity /\ data' = Append(data, v)
D1Push(v) == N >= 1 /\ data' = [data EXCEPT ![N] = v]
D2Push(v) == N >= 2 /\ data' = Append(Cut(2), v)
Swap      == N >= 2 /\ data' = [data EXCEPT ![N] = data[N - 1],
                                            ![N - 1] = data[N]]
Drop      == N >= 1 /\ data' = Cut(1)
Drop2     == N >= 2 /\ data' = Cut(2)

\* The topmost value goes below the next two.  No order of these two is
\* promised: the table of smartstack.v keeps it (C B A -> A C B), while its
\* code reverses it (A B C).
Roll ==
  /\ N >= 3
  /\ \/ data' = Cut(3) \o <<data[N], data[N - 2], data[N - 1]>>
     \/ data' = Cut(3) \o <<data[N], data[N - 1], data[N - 2]>>

Peek      == read' = [A |-> FromTop(1), B |-> FromTop(2)] /\ UNCHANGED data

Move == \/ \E v \in Value : Push(v) \/ D1Push(v) \/ D2Push(v)
        \/ Swap \/ Drop \/ Drop2 \/ Roll

Operate == valid /\ valid' /\ (Peek \/ (Move /\ UNCHANGED read))

\* Nothing is promised of a device that is misused.
Misused == ~valid' /\ data' = <<>>

Next == Reset \/ Operate \/ Misused

Spec == Init /\ [][Next]_deviceVars
=============================================================================
