-------------------------- MODULE ToolchainProofs ---------------------------
(***************************************************************************)
(* From source to memory, for every set of sources, every size of the      *)
(* symbol table and of a record: what load_hex puts into memory is what    *)
(* the lines of the source say.                                            *)
(*                                                                         *)
(* Every behaviour of the tool chain is one of FAsm, so that what holds of *)
(* the assembler holds here.  On top of that the invariant says that the   *)
(* records written, the bytes in the writer's buffer and those still to be *)
(* pushed, laid over one another in this order, make up what the lines     *)
(* have said so far; and that what the loader has made of the records it   *)
(* read is a step on the way there.  The way is a chain of images, one     *)
(* behind each record, and all the invariant says of it is that it exists: *)
(* no induction over the file is needed.                                   *)
(***************************************************************************)
EXTENDS Toolchain, FAsmProofs

-----------------------------------------------------------------------------
(* The assembler within the tool chain.                                    *)

\* The tool chain does nothing with the assembler's state that the assembler
\* would not do.
THEOREM ToolImplementsFAsm == ToolSpec => Spec
<1>1. ToolInit => Init
  BY DEF ToolInit
<1>2. [ToolNext]_toolVars => [Next]_vars
  BY DEF ToolNext, toolVars, Assemble, LoadData, LoadEnd
<1> QED
  BY <1>1, <1>2, PTL DEF ToolSpec, Spec

AInv == IInv /\ TableTyped /\ WriterTyped /\ FInv /\ WriterInStep

LEMMA AlwaysAInv == ToolSpec => []AInv
BY ToolImplementsFAsm, AlwaysIInv, AlwaysTyped, AlwaysFInv, WriterKeepsStep,
   PTL DEF AInv

LEMMA ScannedKept ==
  ASSUME AInv, Next, phase # "Scan"
  PROVE  UNCHANGED <<source, scanned>> /\ phase' # "Scan"
BY NextShape DEF Turn, Stay, Restart, Advance

-----------------------------------------------------------------------------
(* Overlays.                                                               *)

NoImage == [a \in {} |-> 0]

IsMap(m) == m = [k \in DOMAIN m |-> m[k]]

LEMMA OverlayMap ==
  ASSUME NEW m, NEW a, NEW s
  PROVE  IsMap(Overlay(m, a, s))
BY DEF IsMap, Overlay

LEMMA OverlayEmpty ==
  ASSUME NEW m, IsMap(m), NEW a \in Int
  PROVE  Overlay(m, a, <<>>) = m
<1>1. a .. a + Len(<<>>) - 1 = {}
  OBVIOUS
<1>2. Overlay(m, a, <<>>) = [k \in DOMAIN m |-> m[k]]
  BY <1>1 DEF Overlay
<1> QED
  BY <1>2 DEF IsMap

LEMMA OverlayDomain ==
  ASSUME NEW m, NEW a, NEW s
  PROVE  DOMAIN m \subseteq DOMAIN Overlay(m, a, s)
BY DEF Overlay

\* The next byte may be laid over with those before it or with those behind.
LEMMA OverlayMove ==
  ASSUME NEW m, NEW a \in Int, NEW s \in Seq(Byte), NEW p \in Seq(Byte),
         p # <<>>
  PROVE  Overlay(Overlay(m, a, Append(s, Head(p))), a + (Len(s) + 1), Tail(p))
           = Overlay(Overlay(m, a, s), a + Len(s), p)
<1> DEFINE n == Len(s)
           j == Len(p)
           s1 == Append(s, Head(p))
           t == Tail(p)
           A == a .. a + n
           B == a + (n + 1) .. a + (n + 1) + (j - 1) - 1
           C == a .. a + n - 1
           E == a + n .. a + n + j - 1
<1>1. /\ n \in Nat /\ j \in Nat /\ j >= 1
      /\ Len(s1) = n + 1 /\ Len(t) = j - 1
      /\ \A i \in 1 .. n : s1[i] = s[i]
      /\ s1[n + 1] = p[1]
      /\ \A i \in 1 .. j - 1 : t[i] = p[i + 1]
  OBVIOUS
<1>2. a + Len(s1) - 1 = a + n /\ Len(t) = j - 1
  BY <1>1
<1> HIDE DEF n, j, s1, t
<1>3. Overlay(m, a, s1)
        = [k \in DOMAIN m \cup A |-> IF k \in A THEN s1[k - a + 1] ELSE m[k]]
  BY <1>2 DEF Overlay
<1>4. Overlay(m, a, s)
        = [k \in DOMAIN m \cup C |-> IF k \in C THEN s[k - a + 1] ELSE m[k]]
  BY DEF Overlay, n
<1> DEFINE l == Overlay(m, a, s1)
           r == Overlay(m, a, s)
<1>5. Overlay(l, a + (n + 1), t)
        = [k \in (DOMAIN m \cup A) \cup B |->
             IF k \in B THEN t[k - (a + (n + 1)) + 1] ELSE l[k]]
  BY <1>2, <1>3 DEF Overlay
<1>6. Overlay(r, a + n, p)
        = [k \in (DOMAIN m \cup C) \cup E |->
             IF k \in E THEN p[k - (a + n) + 1] ELSE r[k]]
  BY <1>4 DEF Overlay, j
<1>7. (DOMAIN m \cup A) \cup B = (DOMAIN m \cup C) \cup E
  <2>0. n \in Nat /\ j \in Nat /\ j >= 1
    BY <1>1
  <2>1. ASSUME NEW k PROVE k \in A <=> k \in C \/ k = a + n
    BY <2>0
  <2>2. ASSUME NEW k PROVE k \in E <=> k \in B \/ k = a + n
    BY <2>0
  <2> HIDE DEF A, B, C, E
  <2> QED
    BY <2>1, <2>2
<1>8. ASSUME NEW k \in (DOMAIN m \cup C) \cup E
      PROVE  (IF k \in B THEN t[k - (a + (n + 1)) + 1] ELSE l[k])
               = (IF k \in E THEN p[k - (a + n) + 1] ELSE r[k])
  <2>1. CASE k \in B
    <3>1. k \in E /\ k - (a + (n + 1)) + 1 \in 1 .. j - 1
          /\ k - (a + n) + 1 = (k - (a + (n + 1)) + 1) + 1
      BY <1>1, <2>1
    <3>2. t[k - (a + (n + 1)) + 1] = p[k - (a + n) + 1]
      BY <1>1, <3>1
    <3> HIDE DEF B, E, l, r
    <3> QED
      BY <2>1, <3>1, <3>2
  <2>2. CASE k = a + n
    <3>1. k \in E /\ k \notin B /\ k \in A /\ k - a + 1 = n + 1
          /\ k - (a + n) + 1 = 1
      BY <1>1, <2>2
    <3> QED
      BY <1>1, <1>3, <3>1
  <2>3. CASE k \in C
    <3>1. k \notin E /\ k \notin B /\ k \in A /\ k - a + 1 \in 1 .. n
      BY <1>1, <2>3
    <3> QED
      BY <1>1, <1>3, <1>4, <2>3, <3>1
  <2>4. CASE k \notin C /\ k \notin E
    <3>1. k \notin B /\ k \notin A /\ k \in DOMAIN m
      BY <1>1, <2>4
    <3> QED
      BY <1>3, <1>4, <2>4, <3>1
  <2>5. k \in E => k \in B \/ k = a + n
    BY <1>1
  <2> QED
    BY <2>1, <2>2, <2>3, <2>4, <2>5
<1> HIDE DEF A, B, C, E, l, r
<1>9. Overlay(l, a + (n + 1), t) = Overlay(r, a + n, p)
  BY <1>5, <1>6, <1>7, <1>8
<1> QED
  BY <1>9 DEF l, r, n, s1, t

-----------------------------------------------------------------------------
(* Chains of images: what the loader makes of records, one by one.         *)

Loaded(m, r) ==
  IF r.type = "data" THEN Overlay(m, r.address, r.bytes) ELSE m

\* chain[i] is the memory before the i-th of the records s is read.
Steps(chain, s) ==
  /\ chain[1] = NoImage
  /\ \A i \in 1 .. Len(s) : chain[i + 1] = Loaded(chain[i], s[i])
  /\ \A i \in 1 .. Len(s) + 1 : IsMap(chain[i])

LEMMA LoadedMap ==
  ASSUME NEW m, IsMap(m), NEW r
  PROVE  IsMap(Loaded(m, r))
BY OverlayMap DEF Loaded

LEMMA EmptyChain == Steps([i \in 1 .. 1 |-> NoImage], <<>>)
<1>1. IsMap(NoImage)
  BY DEF IsMap, NoImage
<1> QED
  BY <1>1 DEF Steps

\* One more record.
LEMMA ChainGoesOn ==
  ASSUME NEW S, NEW s \in Seq(S), NEW r, NEW chain, Steps(chain, s)
  PROVE  \E ch : /\ Steps(ch, Append(s, r))
                 /\ \A i \in 1 .. Len(s) + 1 : ch[i] = chain[i]
                 /\ ch[Len(s) + 2] = Loaded(chain[Len(s) + 1], r)
<1> DEFINE n  == Len(s)
           u  == Append(s, r)
           l  == Loaded(chain[n + 1], r)
           ch == [i \in 1 .. n + 2 |-> IF i = n + 2 THEN l ELSE chain[i]]
<1>1. n \in Nat
  OBVIOUS
<1>2. /\ Len(u) = n + 1 /\ u[n + 1] = r
      /\ \A i \in 1 .. n : u[i] = s[i]
  BY AppendProperties
<1>3. /\ chain[1] = NoImage
      /\ \A i \in 1 .. n : chain[i + 1] = Loaded(chain[i], s[i])
      /\ \A i \in 1 .. n + 1 : IsMap(chain[i])
  BY DEF Steps
<1>4. IsMap(l)
  BY <1>1, <1>3, LoadedMap
<1> HIDE DEF n, u, l
<1>5. ch[n + 2] = l /\ \A i \in 1 .. n + 1 : ch[i] = chain[i]
  BY <1>1
<1> HIDE DEF ch
<1>6. \A i \in 1 .. n + 1 : ch[i + 1] = Loaded(ch[i], u[i])
  <2>1. ASSUME NEW i \in 1 .. n PROVE ch[i + 1] = Loaded(ch[i], u[i])
    <3>1. i \in 1 .. n + 1 /\ i + 1 \in 1 .. n + 1
      BY <1>1
    <3> QED
      BY <1>2, <1>3, <1>5, <3>1
  <2>2. ch[n + 1 + 1] = Loaded(ch[n + 1], u[n + 1])
    <3>1. n + 1 \in 1 .. n + 1 /\ n + 1 + 1 = n + 2
      BY <1>1
    <3> QED
      BY <1>2, <1>5, <3>1 DEF l
  <2>3. \A i \in 1 .. n + 1 : i \in 1 .. n \/ i = n + 1
    BY <1>1
  <2> QED
    BY <2>1, <2>2, <2>3
<1>7. \A i \in 1 .. n + 2 : IsMap(ch[i])
  <2>1. \A i \in 1 .. n + 2 : i \in 1 .. n + 1 \/ i = n + 2
    BY <1>1
  <2> QED
    BY <1>3, <1>4, <1>5, <2>1
<1>8. 1 \in 1 .. n + 1 /\ n + 1 + 1 = n + 2
  BY <1>1
<1>9. Steps(ch, u)
  BY <1>2, <1>3, <1>5, <1>6, <1>7, <1>8 DEF Steps
<1> QED
  BY <1>5, <1>9 DEF n, u, l

\* What the writer flushes, the loader puts where it belongs.
LEMMA ChainFlushed ==
  ASSUME WriterTyped, NEW chain, Steps(chain, output)
  PROVE  \E ch : /\ Steps(ch, Flushed)
                 /\ \A i \in 1 .. Len(output) + 1 : ch[i] = chain[i]
                 /\ ch[Len(Flushed) + 1]
                      = Overlay(chain[Len(output) + 1], hex_address,
                                hex_buffer)
                 /\ Len(Flushed) \in Nat /\ Len(output) <= Len(Flushed)
<1>1. output \in Seq(Record) /\ Len(output) \in Nat /\ hex_address \in Int
  BY WordInt DEF WriterTyped
<1>2. CASE hex_buffer = <<>>
  <2>1. IsMap(chain[Len(output) + 1])
    BY <1>1 DEF Steps
  <2>2. Overlay(chain[Len(output) + 1], hex_address, hex_buffer)
          = chain[Len(output) + 1]
    BY <1>1, <1>2, <2>1, OverlayEmpty
  <2> QED
    BY <1>1, <1>2, <2>2 DEF Flushed
<1>3. CASE hex_buffer # <<>>
  <2>1. Flushed = Append(output, Data)
    BY <1>3 DEF Flushed
  <2>2. Len(Flushed) = Len(output) + 1
    BY <1>1, <2>1
  <2>3. Loaded(chain[Len(output) + 1], Data)
          = Overlay(chain[Len(output) + 1], hex_address, hex_buffer)
    BY DEF Loaded, Data
  <2>4. PICK ch : /\ Steps(ch, Flushed)
                  /\ \A i \in 1 .. Len(output) + 1 : ch[i] = chain[i]
                  /\ ch[Len(output) + 2]
                       = Loaded(chain[Len(output) + 1], Data)
    BY <1>1, <2>1, ChainGoesOn
  <2>5. Len(Flushed) + 1 = Len(output) + 2 /\ Len(Flushed) \in Nat
        /\ Len(output) <= Len(Flushed)
    BY <1>1, <2>2
  <2> QED
    BY <2>3, <2>4, <2>5
<1> QED
  BY <1>2, <1>3

-----------------------------------------------------------------------------
(* The invariant of the tool chain.                                        *)

\* What the lines have said: the records, the buffer and what is to be pushed.
Rest(m) ==
  Overlay(Overlay(m, hex_address, hex_buffer), hex_address + Len(hex_buffer),
          pending)

Faithful ==
  \E chain : /\ Steps(chain, output)
             /\ image = chain[record]
             /\ assembled = Rest(chain[Len(output) + 1])

Blank ==
  /\ output = <<>> /\ hex_buffer = <<>> /\ pending = <<>> /\ ~flushing
  /\ image = NoImage /\ assembled = NoImage /\ record = 1

\* The bytes of the writer stay below the end of memory.
Room ==
  phase = "Assemble" /\ Plain =>
    hex_address + Len(hex_buffer) + Len(pending) <= 65535

Reader ==
  /\ record \in 1 .. Len(output) + 1
  /\ loaded =>
       /\ phase = "Done"
       /\ record <= Len(output) => output[record].type = "eof"

TInv ==
  /\ phase = "Scan" => Blank
  /\ Room
  /\ Reader
  /\ Plain => Faithful
  /\ phase = "Done" /\ all_ok => hex_buffer = <<>>

LEMMA BlankFaithful == AInv /\ Blank => Faithful
<1> SUFFICES ASSUME AInv, Blank PROVE Faithful
  OBVIOUS
<1> DEFINE chain == [i \in 1 .. 1 |-> NoImage]
<1>1. hex_address \in Int /\ hex_address + 0 \in Int /\ Len(<<>>) = 0
  BY WordInt DEF AInv, WriterTyped
<1>2. IsMap(NoImage)
  BY DEF IsMap, NoImage
<1>3. Rest(NoImage) = NoImage
  BY <1>1, <1>2, OverlayEmpty DEF Rest, Blank
<1>4. chain[1] = NoImage /\ Len(output) + 1 = 1
  BY <1>1 DEF Blank
<1>5. Steps(chain, output)
  BY EmptyChain DEF Blank
<1> HIDE DEF chain
<1> QED
  BY <1>3, <1>4, <1>5 DEF Faithful, Blank

\* In a plain source of the Assemble phase, lines do not wrap around.
LEMMA PlainLine ==
  ASSUME AInv, Plain, phase = "Assemble", line_no <= Len(source)
  PROVE  /\ ThisLine.kind \notin {".w", ".l"} /\ NoStubs
         /\ line_no \in 1 .. Len(scanned) - 1
         /\ ThisLine.kind # ".org" => scanned[line_no + 1] >= scanned[line_no]
<1>1. /\ Len(scanned) = Len(source) + 1 /\ Len(source) \in Nat
      /\ line_no \in 1 .. Len(source)
  BY DEF AInv, IInv, Typed, Retracing
<1>2. line_no \in 1 .. Len(scanned) - 1
      /\ \A i \in 1 .. Len(source) : i \in 1 .. Len(scanned) - 1
  BY <1>1
<1> QED
  BY <1>2 DEF Plain, ThisLine, NoStubs

\* The writer is where the assembler is, without wrapping around.
LEMMA SamePlace ==
  ASSUME AInv, TInv, Plain, phase = "Assemble", all_ok, Idle,
         line_no <= Len(source)
  PROVE  hex_address + Len(hex_buffer) = address
<1>1. NoStubs
  BY PlainLine
<1>2. /\ hex_address \in Int /\ 0 <= hex_address /\ Len(hex_buffer) \in Nat
      /\ Len(pending) = 0
  BY WordInt DEF AInv, WriterTyped, Idle
<1>3. Wrap(hex_address + Len(hex_buffer) + Len(pending)) = address
  BY <1>1 DEF AInv, WriterInStep, NoStubs
<1>4. hex_address + Len(hex_buffer) + Len(pending) <= 65535
  BY DEF TInv, Room
<1> QED
  BY <1>2, <1>3, <1>4 DEF Wrap

LEMMA WrapsBelow ==
  ASSUME NEW a \in Int, NEW p \in Int, 0 <= a, a <= 65535, 0 <= p, p < 1024,
         Wrap(a + p) >= a
  PROVE  a + p <= 65535 /\ Wrap(a + p) = a + p
<1>1. CASE a + p <= 65535
  BY <1>1 DEF Wrap
<1>2. CASE a + p > 65535
  <2>1. (a + p) % 65536 = a + p - 65536
    BY <1>2
  <2> QED
    BY <2>1 DEF Wrap
<1> QED
  BY <1>1, <1>2

LEMMA NoOverrun ==
  ASSUME AInv, AInv', Plain, Emitting
  PROVE  /\ address + Len(pending') <= 65535
         /\ address' \in Int /\ Len(pending') \in Nat
<1>1. /\ phase = "Assemble" /\ all_ok /\ line_no <= Len(source)
      /\ ThisLine.kind # ".org"
      /\ UNCHANGED <<source, phase, scanned>>
      /\ Len(pending') \in Nat
  BY DEF Emitting
<1>2. /\ ThisLine.kind \notin {".w", ".l"}
      /\ line_no \in 1 .. Len(scanned) - 1
      /\ scanned[line_no + 1] >= scanned[line_no]
  BY <1>1, PlainLine
<1>3. /\ address = scanned[line_no] /\ address \in Int
      /\ 0 <= address /\ address <= 65535 /\ address' \in Int
  BY <1>1, WordInt DEF AInv, IInv, Typed, Retracing
<1>4. CASE all_ok'
  <2>1. /\ line_no' = line_no + 1
        /\ address' = Wrap(address + Len(pending'))
        /\ Len(pending') < 1024
    BY <1>2, <1>4 DEF Emitting, FA_LINE_BUFFER_SIZE
  <2>2. address' = scanned[line_no + 1]
    BY <1>1, <1>4, <2>1 DEF AInv, IInv, Retracing
  <2>3. Wrap(address + Len(pending')) >= address
    BY <1>2, <1>3, <2>1, <2>2
  <2> QED
    BY <1>1, <1>3, <2>1, <2>3, WrapsBelow
<1>5. CASE ~all_ok'
  <2>1. Len(pending') <= IF ThisLine.kind = ".b" THEN Len(ThisLine.operands)
                                                 ELSE 0
    BY <1>5 DEF Emitting
  <2>2. CASE ThisLine.kind # ".b"
    BY <1>1, <1>3, <2>1, <2>2
  <2>3. CASE ThisLine.kind = ".b"
    <3>1. ThisLine \in Line
      BY <1>1 DEF AInv, IInv, Typed, ThisLine
    <3>2. Len(ThisLine.operands) \in Nat /\ Len(ThisLine.operands) < 1024
      BY <2>3, <3>1, LineOperands DEF Short, FA_LINE_BUFFER_SIZE
    <3>3. scanned[line_no + 1] \in Succ(ThisLine, address, symbols)
      <4>1. Chain
        BY DEF AInv, IInv
      <4>2. scanned[line_no + 1] \in Succ(source[line_no], scanned[line_no],
                                         symbols)
        BY <1>2, <4>1 DEF Chain
      <4> QED
        BY <1>3, <4>2 DEF ThisLine
    <3>4. scanned[line_no + 1] = Wrap(address + Len(ThisLine.operands))
      BY <2>3, <3>3 DEF Succ, InstructionKinds, DirectiveKinds, Behind
    <3>5. Wrap(address + Len(ThisLine.operands)) >= address
      BY <1>2, <1>3, <3>4
    <3>6. address + Len(ThisLine.operands) <= 65535
      BY <1>3, <3>2, <3>5, WrapsBelow
    <3> QED
      BY <1>1, <1>3, <2>1, <2>3, <3>2, <3>6
  <2> QED
    BY <2>2, <2>3
<1> QED
  BY <1>4, <1>5

-----------------------------------------------------------------------------
(* The steps.                                                              *)

\* From the Assemble phase on, what is plain stays plain.
LEMMA PlainKept ==
  ASSUME AInv, Next, phase # "Scan"
  PROVE  Plain' = Plain
BY ScannedKept DEF Plain

\* The numbers the writer works with.
LEMMA WriterInts ==
  ASSUME AInv
  PROVE  /\ hex_address \in Int /\ 0 <= hex_address
         /\ Len(hex_buffer) \in Nat /\ Len(pending) \in Nat
         /\ output \in Seq(Record) /\ Len(output) \in Nat
         /\ hex_buffer \in Seq(Byte) /\ pending \in Seq(Byte)
         /\ Len(<<>>) = 0 /\ HEX_MAX_BUFFER_SIZE \in Int
         /\ (pending # <<>> => Len(pending) >= 1)
BY WordInt, LimitsAssumption DEF AInv, WriterTyped

LEMMA WrapSmall ==
  ASSUME NEW k \in Int, 0 <= k, k <= 65535
  PROVE  Wrap(k) = k
BY DEF Wrap

\* With a byte to come there is room behind the buffer.
LEMMA RoomForOne ==
  ASSUME NEW a \in Int, NEW n \in Int, NEW p \in Int, 0 <= a, 0 <= n, p >= 1,
         a + n + p <= 65535
  PROVE  Wrap(a + (n + 1)) = a + (n + 1) /\ a + (n + 1) + (p - 1) <= 65535
<1> DEFINE b == a + (n + 1)
<1>1. b \in Int
  OBVIOUS
<1>2. 0 <= b
  OBVIOUS
<1>3. b + (p - 1) = a + n + p
  OBVIOUS
<1> HIDE DEF b
<1>4. b <= 65535
  BY <1>1, <1>3
<1>5. Wrap(b) = b
  BY <1>1, <1>2, <1>4, WrapSmall
<1> QED
  BY <1>3, <1>5 DEF b

\* What the writer still holds, or is still to get, is one after the other.
LEMMA RestFrom ==
  ASSUME AInv', NEW chain, Steps(chain, output'), image' = chain[record'],
         assembled' = Overlay(Overlay(chain[Len(output') + 1], hex_address',
                                      hex_buffer'),
                              hex_address' + Len(hex_buffer'), pending')
  PROVE  Faithful'
BY DEF Faithful, Rest

\* A byte is pushed.
LEMMA PushFaithful ==
  ASSUME AInv, AInv', TInv, PushByte, Assemble, Plain, Faithful,
         phase = "Assemble"
  PROVE  Faithful'
<1> DEFINE ha == hex_address
           n  == Len(hex_buffer)
           s  == Append(hex_buffer, Head(pending))
           t  == Tail(pending)
<1>1. PICK chain : /\ Steps(chain, output)
                   /\ image = chain[record]
                   /\ assembled = Rest(chain[Len(output) + 1])
  BY DEF Faithful
<1> DEFINE m == chain[Len(output) + 1]
<1>2. /\ pending # <<>> /\ pending' = t
      /\ assembled' = assembled /\ image' = image /\ record' = record
  BY DEF PushByte, Assemble, loader
<1>3. ha \in Int /\ n \in Nat /\ n + 1 \in Int /\ Len(s) = n + 1
      /\ output \in Seq(Record) /\ Len(output) \in Nat
      /\ s \in Seq(Byte) /\ Len(<<>>) = 0 /\ 0 <= ha
  BY <1>2, WriterInts
<1>4. Overlay(Overlay(m, ha, s), ha + (n + 1), t)
        = Overlay(Overlay(m, ha, hex_buffer), ha + n, pending)
  BY <1>2, WriterInts, OverlayMove
<1>5. assembled' = Overlay(Overlay(m, ha, s), ha + (n + 1), t)
  BY <1>1, <1>2, <1>4 DEF Rest
<1>6. CASE n + 1 = HEX_MAX_BUFFER_SIZE
  <2> DEFINE r == [Data EXCEPT !.bytes = Append(@, Head(pending))]
  <2>1. r.type = "data" /\ r.address = ha /\ r.bytes = s
    BY DEF Data
  <2>2. /\ output' = Append(output, r)
        /\ hex_address' = Wrap(ha + HEX_MAX_BUFFER_SIZE)
        /\ hex_buffer' = <<>>
    BY <1>6 DEF PushByte
  <2>3. Loaded(m, r) = Overlay(m, ha, s)
    BY <2>1 DEF Loaded
  <2> HIDE DEF r, s, t
  <2>4. hex_address' = ha + (n + 1)
    <3> DEFINE p == Len(pending)
    <3>1. ha + n + p <= 65535
      BY DEF TInv, Room
    <3>2. /\ ha \in Int /\ n \in Int /\ p \in Int
          /\ p >= 1 /\ 0 <= ha /\ 0 <= n
      BY <1>2, <1>3, WriterInts
    <3> HIDE DEF p, ha, n
    <3>3. Wrap(ha + (n + 1)) = ha + (n + 1)
      BY <3>1, <3>2, RoomForOne
    <3> QED
      BY <1>6, <2>2, <3>3
  <2>5. PICK ch : /\ Steps(ch, output')
                  /\ \A i \in 1 .. Len(output) + 1 : ch[i] = chain[i]
                  /\ ch[Len(output) + 2] = Overlay(m, ha, s)
    BY <1>1, <1>3, <2>2, <2>3, ChainGoesOn
  <2>6. Len(output') = Len(output) + 1 /\ Len(output') + 1 = Len(output) + 2
    BY <1>3, <2>2
  <2>7. record \in 1 .. Len(output) + 1
    BY DEF TInv, Reader
  <2>8. image' = ch[record']
    BY <1>1, <1>2, <2>5, <2>7
  <2>9. Overlay(Overlay(m, ha, s), hex_address', hex_buffer')
          = Overlay(m, ha, s)
    <3>1. hex_address' \in Int
      BY <1>3, <2>4
    <3> QED
      BY <2>2, <3>1, OverlayMap, OverlayEmpty
  <2>10. hex_address' + Len(hex_buffer') = ha + (n + 1)
    BY <1>3, <2>2, <2>4
  <2>11. assembled'
           = Overlay(Overlay(ch[Len(output') + 1], hex_address', hex_buffer'),
                     hex_address' + Len(hex_buffer'), pending')
    BY <1>2, <1>5, <2>5, <2>6, <2>9, <2>10
  <2> QED
    BY <2>5, <2>8, <2>11, RestFrom
<1>7. CASE n + 1 # HEX_MAX_BUFFER_SIZE
  <2>1. /\ hex_buffer' = s /\ hex_address' = ha /\ output' = output
    BY <1>7 DEF PushByte
  <2>2. hex_address' + Len(hex_buffer') = ha + (n + 1)
    BY <1>3, <2>1
  <2> HIDE DEF s, t
  <2>3. assembled'
           = Overlay(Overlay(chain[Len(output') + 1], hex_address',
                             hex_buffer'),
                     hex_address' + Len(hex_buffer'), pending')
    BY <1>2, <1>5, <2>1, <2>2
  <2> QED
    BY <1>1, <1>2, <2>1, <2>3, RestFrom
<1> QED
  BY <1>6, <1>7

LEMMA PushKeeps ==
  ASSUME AInv, AInv', TInv, Assemble, PushByte
  PROVE  TInv'
<1>1. phase = "Assemble" /\ phase' = phase /\ pending # <<>>
  BY DEF PushByte, parser, TInv, Blank, AInv, IInv, Typed, FInv, Quiet, Idle
<1>2. Plain' = Plain
  BY <1>1, PlainKept DEF Assemble
<1>3. record' = record /\ loaded' = loaded
  BY DEF Assemble, loader
<1>4. Len(output') >= Len(output) /\ Len(output') \in Nat
  BY WriterInts DEF PushByte
<1>5. Reader'
  BY <1>1, <1>3, <1>4, WriterInts DEF TInv, Reader
<1>6. Room'
  <2> SUFFICES ASSUME Plain
               PROVE  hex_address' + Len(hex_buffer') + Len(pending') <= 65535
    BY <1>2 DEF Room
  <2>1. hex_address + Len(hex_buffer) + Len(pending) <= 65535
    BY <1>1 DEF TInv, Room
  <2>2. Len(pending') = Len(pending) - 1
    BY <1>1, WriterInts DEF PushByte
  <2>3. CASE Len(hex_buffer) + 1 = HEX_MAX_BUFFER_SIZE
    <3>1. hex_address' = Wrap(hex_address + HEX_MAX_BUFFER_SIZE)
          /\ hex_buffer' = <<>>
      BY <2>3 DEF PushByte
    <3> DEFINE a == hex_address
               n == Len(hex_buffer)
               p == Len(pending)
    <3>2. /\ a \in Int /\ n \in Int /\ p \in Int
          /\ 0 <= a /\ 0 <= n /\ p >= 1
          /\ a + n + p <= 65535
      BY <1>1, <2>1, WriterInts
    <3> HIDE DEF a, n, p
    <3>3. Wrap(a + (n + 1)) = a + (n + 1) /\ a + (n + 1) + (p - 1) <= 65535
      BY <3>2, RoomForOne
    <3> USE DEF a, n, p
    <3> QED
      BY <2>2, <2>3, <3>1, <3>3, WriterInts
  <2>4. CASE Len(hex_buffer) + 1 # HEX_MAX_BUFFER_SIZE
    <3>1. hex_address' = hex_address
          /\ Len(hex_buffer') = Len(hex_buffer) + 1
      BY <1>1, <2>4, WriterInts DEF PushByte
    <3> QED
      BY <2>1, <2>2, <3>1, WriterInts
  <2> QED
    BY <2>3, <2>4
<1>7. Plain => Faithful'
  BY <1>1, PushFaithful DEF TInv
<1> QED
  BY <1>1, <1>2, <1>5, <1>6, <1>7 DEF TInv

\* A line without bytes adds nothing to what the lines have said.
LEMMA NothingSaid ==
  ASSUME AInv, IsMap(assembled), Assemble, pending' = <<>>
  PROVE  assembled' = assembled
<1>1. address \in Int
  BY WordInt DEF AInv, IInv, Typed
<1>2. Overlay(assembled, address, <<>>) = assembled
  BY <1>1, OverlayEmpty
<1> QED
  BY <1>2 DEF Assemble

LEMMA FaithfulMap == Faithful => IsMap(assembled)
BY OverlayMap DEF Faithful, Rest

\* With nothing left to write or to push, the chain says it all.
LEMMA RestIsImage ==
  ASSUME NEW m, IsMap(m), NEW a \in Int
  PROVE  Overlay(Overlay(m, a, <<>>), a + Len(<<>>), <<>>) = m
<1>1. a + Len(<<>>) \in Int
  OBVIOUS
<1> QED
  BY <1>1, OverlayEmpty

LEMMA FlushFaithful ==
  ASSUME AInv, AInv', TInv, Assemble, Faithful,
         pending = <<>>, pending' = <<>>, hex_buffer' = <<>>,
         output' = Flushed \/ output' = Append(Flushed, [type |-> "eof"])
  PROVE  Faithful'
<1>1. PICK chain : /\ Steps(chain, output)
                   /\ image = chain[record]
                   /\ assembled = Rest(chain[Len(output) + 1])
  BY DEF Faithful
<1> DEFINE m == Overlay(chain[Len(output) + 1], hex_address, hex_buffer)
<1>2. PICK ch : /\ Steps(ch, Flushed)
                /\ \A i \in 1 .. Len(output) + 1 : ch[i] = chain[i]
                /\ ch[Len(Flushed) + 1] = m
                /\ Len(Flushed) \in Nat /\ Len(output) <= Len(Flushed)
  BY <1>1, ChainFlushed DEF AInv
<1>3. assembled' = assembled /\ image' = image /\ record' = record
  BY NothingSaid, FaithfulMap DEF Assemble, loader
<1>4. IsMap(m)
  BY OverlayMap
<1>5. assembled = m
  <2>1. hex_address + Len(hex_buffer) \in Int
    BY WriterInts
  <2> QED
    BY <1>1, <1>4, <2>1, OverlayEmpty DEF Rest
<1>6. record \in 1 .. Len(output) + 1
  BY DEF TInv, Reader
<1> HIDE DEF m
<1>7. hex_address' \in Int
  BY WordInt DEF AInv, WriterTyped
<1>8. Overlay(Overlay(m, hex_address', hex_buffer'),
              hex_address' + Len(hex_buffer'), pending') = m
  BY <1>4, <1>7, RestIsImage
<1>9. CASE output' = Flushed
  BY <1>1, <1>2, <1>3, <1>5, <1>6, <1>8, <1>9, RestFrom
<1>10. CASE output' = Append(Flushed, [type |-> "eof"])
  <2> DEFINE r == [type |-> "eof"]
  <2>1. Flushed \in Seq(Record)
    BY FlushedTyped DEF AInv
  <2>2. Loaded(m, r) = m
    BY DEF Loaded
  <2>3. output' = Append(Flushed, r)
    BY <1>10
  <2> HIDE DEF r
  <2>4. PICK end : /\ Steps(end, output')
                   /\ \A i \in 1 .. Len(Flushed) + 1 : end[i] = ch[i]
                   /\ end[Len(Flushed) + 2] = m
    BY <1>2, <2>1, <2>2, <2>3, ChainGoesOn
  <2>5. Len(output') + 1 = Len(Flushed) + 2
    BY <1>2, <2>1, <2>3
  <2>6. record \in 1 .. Len(Flushed) + 1
    BY <1>2, <1>6, WriterInts
  <2>7. image' = end[record']
    BY <1>1, <1>2, <1>3, <1>6, <2>4, <2>6
  <2> QED
    BY <1>3, <1>5, <1>8, <2>4, <2>5, <2>7, RestFrom
<1> QED
  BY <1>9, <1>10

\* Behind the end the assembler does nothing.
LEMMA NextAwake ==
  ASSUME AInv, Next
  PROVE  phase # "Done"
<1>1. CASE PushByte \/ Flush
  BY <1>1 DEF AInv, FInv, Quiet, Idle, PushByte, Flush
<1>2. CASE ~(PushByte \/ Flush)
  BY <1>2 DEF Next, Skip, Unterminated, Malformed, ScanStep, AddLabel,
         CountInstruction, ScanDirective, ScanDef, AssembleStep, CheckLabel,
         Generate, GenerateFails, SkipDef, EmitString, EmitBytes,
         EmitNothing, Align, Org, Rewind, Finish, GiveUp, At
<1> QED
  BY <1>1, <1>2

\* The loader waits for the assembler.
LEMMA ReaderWaits ==
  ASSUME AInv, TInv, Assemble, phase # "Done", Len(output') \in Nat,
         Len(output') >= Len(output)
  PROVE  Reader'
<1>1. ~loaded /\ record \in 1 .. Len(output) + 1
  BY DEF TInv, Reader
<1>2. record' = record /\ loaded' = loaded
  BY DEF Assemble, loader
<1> QED
  BY <1>1, <1>2, WriterInts DEF Reader

LEMMA FlushedLonger ==
  ASSUME AInv
  PROVE  /\ Flushed \in Seq(Record)
         /\ Len(Flushed) \in Nat /\ Len(Flushed) >= Len(output)
BY WriterInts, FlushedTyped DEF AInv, Flushed

\* A writer with nothing to write has room.
Written == pending = <<>> /\ hex_buffer = <<>>

LEMMA RoomEmpty == AInv /\ Written => Room
<1> SUFFICES ASSUME AInv, Written PROVE Room
  OBVIOUS
<1>1. hex_address \in Int /\ hex_address <= 65535
  BY WordInt DEF AInv, WriterTyped
<1>2. Len(hex_buffer) = 0 /\ Len(pending) = 0
  BY DEF Written
<1>3. hex_address + Len(hex_buffer) + Len(pending) <= 65535
  BY <1>1, <1>2
<1> QED
  BY <1>3 DEF Room

LEMMA FlushKeeps ==
  ASSUME AInv, AInv', TInv, Assemble, Flush
  PROVE  TInv'
<1>1. /\ phase = "Assemble" /\ phase' = phase
      /\ pending = <<>> /\ pending' = <<>> /\ hex_buffer' = <<>>
      /\ output' = Flushed
  BY DEF Flush, parser, TInv, Blank, AInv, IInv, Typed, FInv, Quiet, Idle
<1>2. Plain' = Plain
  BY <1>1, PlainKept DEF Assemble
<1>3. Reader'
  BY <1>1, ReaderWaits, FlushedLonger
<1>4. Room'
  <2>1. Written'
    BY <1>1 DEF Written
  <2> QED
    BY <2>1, RoomEmpty, PTL
<1>5. Plain => Faithful'
  BY <1>1, FlushFaithful DEF TInv
<1> QED
  BY <1>1, <1>2, <1>3, <1>4, <1>5 DEF TInv

LEMMA FinishKeeps ==
  ASSUME AInv, AInv', TInv, Assemble, Finish
  PROVE  TInv'
<1>1. /\ phase = "Assemble" /\ phase' = "Done"
      /\ pending = <<>> /\ pending' = <<>> /\ hex_buffer' = <<>>
      /\ output' = Append(Flushed, [type |-> "eof"])
  BY DEF Finish, Idle
<1>2. Plain' = Plain
  BY <1>1, PlainKept DEF Assemble
<1>3. Reader'
  <2>1. Len(output') = Len(Flushed) + 1
    BY <1>1, FlushedLonger
  <2> QED
    BY <1>1, <2>1, ReaderWaits, FlushedLonger, WriterInts
<1>4. Room'
  BY <1>1 DEF Room
<1>5. Plain => Faithful'
  BY <1>1, FlushFaithful DEF TInv
<1> QED
  BY <1>1, <1>2, <1>3, <1>4, <1>5 DEF TInv

\* Where the writer is left alone.
LEMMA StillFaithful ==
  ASSUME AInv, AInv', Assemble, Faithful, UNCHANGED <<pending, writer>>
  PROVE  Faithful'
<1>1. image' = image /\ record' = record
  BY DEF Assemble, loader
<1>2. assembled' = assembled
  <2>1. CASE pending = <<>>
    BY <2>1, NothingSaid, FaithfulMap
  <2>2. CASE pending # <<>>
    BY <2>2 DEF Assemble
  <2> QED
    BY <2>1, <2>2
<1> QED
  BY <1>1, <1>2 DEF Faithful, Rest, writer

LEMMA OrgKeeps ==
  ASSUME AInv, AInv', TInv, Assemble, Org
  PROVE  TInv'
<1>1. /\ phase = "Assemble" /\ phase' = phase
      /\ pending = <<>> /\ pending' = <<>>
  BY DEF Org, At, Idle, Advance, Fail
<1>2. Plain' = Plain
  BY <1>1, PlainKept DEF Assemble
<1>3. \/ output' = Flushed /\ hex_buffer' = <<>>
      \/ UNCHANGED writer
  BY DEF Org
<1>4. Reader'
  BY <1>1, <1>3, ReaderWaits, FlushedLonger, WriterInts DEF writer
<1>5. Room'
  <2>1. CASE hex_buffer' = <<>>
    <3>1. Written'
      BY <1>1, <2>1 DEF Written
    <3> QED
      BY <3>1, RoomEmpty, PTL
  <2>2. CASE UNCHANGED writer
    BY <1>1, <1>2, <2>2 DEF TInv, Room, writer
  <2> QED
    BY <1>3, <2>1, <2>2
<1>6. Plain => Faithful'
  BY <1>1, <1>3, FlushFaithful, StillFaithful DEF TInv
<1> QED
  BY <1>1, <1>2, <1>4, <1>5, <1>6 DEF TInv

LEMMA EmittingKeeps ==
  ASSUME AInv, AInv', TInv, Assemble, Emitting
  PROVE  TInv'
<1>1. /\ phase = "Assemble" /\ phase' = phase /\ Idle /\ pending = <<>>
      /\ all_ok /\ line_no <= Len(source) /\ UNCHANGED writer
      /\ output' = output /\ hex_address' = hex_address
      /\ hex_buffer' = hex_buffer
  BY DEF Emitting, Idle, writer
<1>2. Plain' = Plain
  BY <1>1, PlainKept DEF Assemble
<1>3. Reader'
  BY <1>1, ReaderWaits, WriterInts
<1>4. ASSUME Plain
      PROVE  /\ hex_address + Len(hex_buffer) = address
             /\ address + Len(pending') <= 65535
  BY <1>1, <1>4, SamePlace, NoOverrun
<1>5. Room'
  BY <1>1, <1>2, <1>4 DEF Room
<1>6. ASSUME Plain PROVE Faithful'
  <2>1. PICK chain : /\ Steps(chain, output)
                     /\ image = chain[record]
                     /\ assembled = Rest(chain[Len(output) + 1])
    BY <1>6 DEF TInv, Faithful
  <2> DEFINE m == Overlay(chain[Len(output) + 1], hex_address, hex_buffer)
  <2>2. hex_address + Len(hex_buffer) \in Int /\ IsMap(m)
    BY WriterInts, OverlayMap
  <2>3. assembled = m
    BY <1>1, <2>1, <2>2, OverlayEmpty DEF Rest
  <2>4. /\ assembled' = Overlay(assembled, address, pending')
        /\ image' = image /\ record' = record
    BY <1>1 DEF Assemble, loader
  <2>5. assembled' = Overlay(m, hex_address + Len(hex_buffer), pending')
    BY <1>4, <1>6, <2>3, <2>4
  <2> QED
    BY <1>1, <2>1, <2>4, <2>5, RestFrom
<1> QED
  BY <1>1, <1>2, <1>3, <1>5, <1>6 DEF TInv

\* In the Scan phase there is nothing yet.
LEMMA StillBlank ==
  ASSUME AInv, Assemble, Blank, UNCHANGED <<pending, flushing, output>>,
         hex_buffer' = <<>>
  PROVE  Blank'
<1>1. IsMap(assembled)
  BY DEF Blank, IsMap, NoImage
<1>2. assembled' = assembled
  BY <1>1, NothingSaid DEF Blank
<1> QED
  BY <1>2 DEF Blank, Assemble, loader

LEMMA StillKeeps ==
  ASSUME AInv, AInv', TInv, Assemble, Still \/ Rewind
  PROVE  TInv'
<1>1. /\ UNCHANGED <<pending, flushing, output>>
      /\ UNCHANGED hex_buffer \/ hex_buffer' = <<>>
  BY DEF Still, Rewind, writer
<1>2. phase' = "Done" => ~all_ok'
  BY DEF Still, Rewind
<1>3. CASE phase = "Scan"
  <2>1. Blank'
    BY <1>1, <1>3, StillBlank DEF TInv, Blank
  <2>2. Faithful'
    BY <2>1, BlankFaithful, PTL
  <2>3. Room'
    <3>1. Written'
      BY <2>1 DEF Blank, Written
    <3> QED
      BY <3>1, RoomEmpty, PTL
  <2>4. Reader'
    BY <1>1, <1>3, ReaderWaits, WriterInts
  <2> QED
    BY <1>2, <2>1, <2>2, <2>3, <2>4 DEF TInv
<1>4. CASE phase # "Scan"
  <2>1. /\ Still /\ UNCHANGED <<pending, writer>>
        /\ Plain' = Plain /\ phase' # "Scan"
    BY <1>4, PlainKept, ScannedKept DEF Rewind, Still, Assemble
  <2>2. Plain => Faithful'
    BY <2>1, StillFaithful DEF TInv
  <2>3. Room'
    BY <2>1 DEF TInv, Room, Still, writer
  <2>4. Reader'
    BY <1>1, NextAwake, ReaderWaits, WriterInts DEF Assemble
  <2> QED
    BY <1>2, <2>1, <2>2, <2>3, <2>4 DEF TInv
<1> QED
  BY <1>3, <1>4

LEMMA AssembleKeeps ==
  ASSUME AInv, AInv', TInv, Assemble
  PROVE  TInv'
<1>1. Typed /\ IsTable(symbols) /\ flushing \in BOOLEAN
  BY DEF AInv, IInv, TableTyped, WriterTyped
<1>2. PushByte \/ Flush \/ Org \/ Finish \/ Rewind \/ Emitting \/ Still
  BY <1>1, WriterShape DEF Assemble
<1> QED
  BY <1>2, PushKeeps, FlushKeeps, OrgKeeps, FinishKeeps, EmittingKeeps,
     StillKeeps

\* The loader takes the next step of the chain.
LEMMA LoadDataKeeps ==
  ASSUME AInv, TInv, LoadData
  PROVE  TInv'
<1>1. /\ phase = "Done" /\ ~loaded /\ record \in 1 .. Len(output)
      /\ output[record].type = "data"
      /\ image' = Overlay(image, output[record].address,
                          output[record].bytes)
      /\ record' = record + 1
      /\ UNCHANGED vars /\ loaded' = loaded /\ assembled' = assembled
  BY WriterInts DEF LoadData, Reading, TInv, Reader
<1>2. UNCHANGED <<source, scanned, phase, all_ok, output, hex_address,
                  hex_buffer, pending>>
  BY <1>1 DEF vars, parser, writer
<1>3. record' \in 1 .. Len(output) + 1
  BY <1>1, WriterInts
<1>4. ASSUME Plain PROVE Faithful'
  <2>1. PICK chain : /\ Steps(chain, output)
                     /\ image = chain[record]
                     /\ assembled = Rest(chain[Len(output) + 1])
    BY <1>4 DEF TInv, Faithful
  <2>2. chain[record + 1] = Loaded(chain[record], output[record])
    BY <1>1, <2>1 DEF Steps
  <2>3. image' = chain[record']
    BY <1>1, <2>1, <2>2 DEF Loaded
  <2> QED
    BY <1>1, <1>2, <2>1, <2>3 DEF Faithful, Rest
<1>5. Plain' = Plain
  BY <1>2 DEF Plain
<1>6. Room' /\ Reader'
  BY <1>1, <1>2, <1>3 DEF Room, Reader
<1>7. phase' # "Scan" /\ (phase' = "Done" /\ all_ok' => hex_buffer' = <<>>)
  BY <1>1, <1>2 DEF TInv
<1> QED
  BY <1>4, <1>5, <1>6, <1>7 DEF TInv

LEMMA LoadEndKeeps ==
  ASSUME AInv, TInv, LoadEnd
  PROVE  TInv'
<1>1. UNCHANGED <<vars, record, image, assembled>> /\ phase = "Done"
      /\ (record <= Len(output) => output[record].type = "eof")
  BY DEF LoadEnd, Reading
<1>2. UNCHANGED <<source, scanned, phase, all_ok, output, hex_address,
                  hex_buffer, pending>>
  BY <1>1 DEF vars, parser, writer
<1>3. Plain' = Plain /\ Faithful' = Faithful
  BY <1>1, <1>2 DEF Plain, Faithful, Rest
<1>4. Room' /\ Reader'
  BY <1>1, <1>2 DEF Room, Reader, TInv
<1> QED
  BY <1>1, <1>2, <1>3, <1>4 DEF TInv

LEMMA IdleKeeps ==
  ASSUME TInv, UNCHANGED toolVars
  PROVE  TInv'
<1>1. /\ UNCHANGED <<source, scanned, phase, all_ok, output, hex_address,
                     hex_buffer, pending, flushing>>
      /\ UNCHANGED <<record, loaded, image, assembled>>
  BY DEF toolVars, loader, vars, parser, writer
<1>2. Plain' = Plain /\ Faithful' = Faithful /\ Blank' = Blank
      /\ Room' = Room /\ Reader' = Reader
  BY <1>1 DEF Plain, Faithful, Rest, Blank, Room, Reader
<1> QED
  BY <1>1, <1>2 DEF TInv

LEMMA InitTInv ==
  ASSUME ToolInit, AInv
  PROVE  TInv
<1>1. Blank /\ phase = "Scan"
  BY DEF ToolInit, Init, Blank, NoImage
<1>2. Faithful
  BY <1>1, BlankFaithful
<1>3. Reader
  BY WriterInts DEF ToolInit, Reader
<1>4. Room
  BY <1>1 DEF Room
<1> QED
  BY <1>1, <1>2, <1>3, <1>4 DEF TInv

LEMMA AlwaysTInv == ToolSpec => [](AInv /\ TInv)
<1>1. ToolInit /\ AInv => TInv
  BY InitTInv
<1>2. AInv /\ AInv' /\ TInv /\ [ToolNext]_toolVars => TInv'
  BY AssembleKeeps, LoadDataKeeps, LoadEndKeeps, IdleKeeps DEF ToolNext
<1> QED
  BY <1>1, <1>2, AlwaysAInv, PTL DEF ToolSpec

-----------------------------------------------------------------------------
(* What the emulator finds in memory.                                      *)

\* Once all is written and read, the way is at its end.
LEMMA EndOfChain ==
  ASSUME AInv, TInv, loaded, Plain
  PROVE  \E m : /\ IsMap(m)
                /\ image = m
                /\ all_ok => hex_buffer = <<>>
                /\ assembled = Overlay(m, hex_address, hex_buffer)
<1>1. PICK chain : /\ Steps(chain, output)
                   /\ image = chain[record]
                   /\ assembled = Rest(chain[Len(output) + 1])
  BY DEF TInv, Faithful
<1> DEFINE n == Len(output)
           m == chain[n + 1]
<1>2. /\ phase = "Done" /\ pending = <<>>
      /\ record \in 1 .. n + 1 /\ n \in Nat
      /\ record <= n => output[record].type = "eof"
  BY WriterInts DEF AInv, TInv, Reader, FInv, Quiet, Idle
<1>3. IsMap(m)
  BY <1>1, <1>2 DEF Steps
<1>4. assembled = Overlay(m, hex_address, hex_buffer)
  <2>1. hex_address + Len(hex_buffer) \in Int
    BY WriterInts
  <2>2. IsMap(Overlay(m, hex_address, hex_buffer))
    BY OverlayMap
  <2> QED
    BY <1>1, <1>2, <2>1, <2>2, OverlayEmpty DEF Rest
<1>5. image = m
  <2>1. CASE record = n + 1
    BY <1>1, <2>1
  <2>2. CASE record <= n
    <3>1. record \in 1 .. n /\ output[record].type = "eof"
      BY <1>2, <2>2
    <3>2. record = n
      BY <3>1 DEF AInv, FInv, FileComplete, EofMeansSuccess
    <3>3. chain[record + 1] = Loaded(chain[record], output[record])
      BY <1>1, <3>1 DEF Steps
    <3>4. Loaded(chain[record], output[record]) = chain[record]
      BY <3>1 DEF Loaded
    <3> QED
      BY <1>1, <3>2, <3>3, <3>4
  <2>3. record = n + 1 \/ record <= n
    BY <1>2
  <2> QED
    BY <2>1, <2>2, <2>3
<1>6. all_ok => hex_buffer = <<>>
  BY <1>2 DEF TInv
<1> HIDE DEF m
<1> QED
  BY <1>3, <1>4, <1>5, <1>6

\* What load_hex puts into memory after a successful assembly is what the
\* lines of the source say, for every plain source: across labels, .org,
\* .align and records that end in the middle of a line (fa.c:345, fpemu.c:636).
THEOREM MemoryIsSource == ToolSpec => []LoadedAsAssembled
<1>1. AInv /\ TInv => LoadedAsAssembled
  <2> SUFFICES ASSUME AInv, TInv, loaded, all_ok, Plain
               PROVE  image = assembled
    BY DEF LoadedAsAssembled
  <2>1. PICK m : /\ IsMap(m) /\ image = m /\ hex_buffer = <<>>
                 /\ assembled = Overlay(m, hex_address, hex_buffer)
    BY EndOfChain
  <2>2. hex_address \in Int
    BY WriterInts
  <2> QED
    BY <2>1, <2>2, OverlayEmpty
<1> QED
  BY <1>1, AlwaysTInv, PTL

\* The file of an assembly that failed puts nothing into memory where no line
\* of the source did (assemble, load_hex).
THEOREM PartialFileIsSource == ToolSpec => []PartialLoad
<1>1. AInv /\ TInv => PartialLoad
  <2> SUFFICES ASSUME AInv, TInv, loaded, ~all_ok, Plain
               PROVE  DOMAIN image \subseteq DOMAIN assembled
    BY DEF PartialLoad
  <2>1. PICK m : /\ image = m
                 /\ assembled = Overlay(m, hex_address, hex_buffer)
    BY EndOfChain
  <2> QED
    BY <2>1, OverlayDomain
<1> QED
  BY <1>1, AlwaysTInv, PTL
=============================================================================
