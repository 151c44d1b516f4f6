----------------------------- MODULE Toolchain ------------------------------
(***************************************************************************)
(* From source to memory: FAsm assembles a file, and load_hex of           *)
(* FPEmu/src/fpemu.c then reads the records that were written, one after   *)
(* another, into the memory of the emulator.  The two programs share       *)
(* nothing but the file.                                                   *)
(*                                                                         *)
(* Records are read as they were written (hex_get_byte undoes what         *)
(* hex_write_data_bytes prints); the loader's error for a line that is too *)
(* short cannot occur with them.                                           *)
(***************************************************************************)
EXTENDS FAsm

VARIABLES
  loaded,      \* has load_hex returned?
  record,      \* the number of the record it reads next
  image,       \* the memory as far as it was written: address -> byte;
               \* addresses from 65536 on are behind the array
  assembled    \* history: the bytes of the lines, at the lines' addresses

loader   == <<loaded, record, image>>
toolVars == <<vars, loader, assembled>>

\* The bytes at address a, over the memory m.
Overlay(m, a, bytes) ==
  [k \in DOMAIN m \cup a .. a + Len(bytes) - 1 |->
     IF k \in a .. a + Len(bytes) - 1 THEN bytes[k - a + 1] ELSE m[k]]

\* A step of the assembler.  A line leaves its bytes in pending.
Assemble ==
  /\ Next
  /\ assembled' = IF pending = <<>> THEN Overlay(assembled, address, pending')
                                    ELSE assembled
  /\ UNCHANGED loader

Reading == phase = "Done" /\ ~loaded

\* Mutant of LoadData: a record is loaded behind the one before it.
LoadDataBehind ==
  /\ Reading /\ record <= Len(output)
  /\ LET r == output[record] IN
       /\ r.type = "data"
       /\ image' = Overlay(image, Len(r.bytes) * (record - 1), r.bytes)
  /\ record' = record + 1
  /\ UNCHANGED <<vars, loaded, assembled>>

LoadData ==
  /\ Reading /\ record <= Len(output)
  /\ LET r == output[record] IN
       /\ r.type = "data"
       /\ image' = Overlay(image, r.address, r.bytes)
  /\ record' = record + 1
  /\ UNCHANGED <<vars, loaded, assembled>>

\* The record of type 1, or the end of a file that has none: both are fine.
LoadEnd ==
  /\ Reading
  /\ record <= Len(output) => output[record].type = "eof"
  /\ loaded' = TRUE
  /\ UNCHANGED <<vars, record, image, assembled>>

ToolInit ==
  /\ Init
  /\ loaded = FALSE
  /\ record = 1
  /\ image = [a \in {} |-> 0]
  /\ assembled = [a \in {} |-> 0]

ToolNext == Assemble \/ LoadData \/ LoadEnd

ToolSpec == ToolInit /\ [][ToolNext]_toolVars

\* Both programs are sequential: they go on as long as they can.
FairToolSpec == ToolSpec /\ WF_toolVars(ToolNext)

-----------------------------------------------------------------------------
(* Properties.                                                             *)

\* Sources that stay below the end of memory, .org aside, and do not use the
\* stubs .w and .l.
Plain ==
  \A i \in 1 .. Len(scanned) - 1 :
    /\ source[i].kind \notin {".w", ".l"}
    /\ source[i].kind = ".org" \/ scanned[i + 1] >= scanned[i]

\* What the emulator finds in memory is what the lines of the source say, each
\* byte at the address of its line and the last line to write there winning:
\* across labels, .org, .align and records that end in the middle of a line.
LoadedAsAssembled == loaded /\ all_ok /\ Plain => image = assembled

\* The file of an assembly that failed is loaded without complaint; it puts
\* nothing where no line did.
PartialLoad ==
  loaded /\ ~all_ok /\ Plain => DOMAIN image \subseteq DOMAIN assembled
=============================================================================
