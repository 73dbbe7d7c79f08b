------------------------------ MODULE ZeosParts ------------------------------
(***************************************************************************)
(* The parts of ZeOS that have no variable in common with the kernel's     *)
(* scheduling: the keyboard ring, the list pointers, the system call       *)
(* stubs, the boot image and the console.  They run one at a time: part    *)
(* says which one a behaviour is about, and the others stand still.        *)
(***************************************************************************)
EXTENDS Circbuff, ListPointers, SyscallStubs, BootImage, Console

VARIABLE part

\* What Console is checked with: a text longer than a block and than a row,
\* and one that breaks the row.  The clock shows in the last cell.
ClockCorner == <<NUM_COLUMNS - 1, 0>>
Texts == {<<"a", "b", "a", "b", "a">>, <<"a", "newline", "b">>}

SomeRing == /\ RingInit
            /\ part # "ring" =>
                  LET c == CHOOSE c \in Char : TRUE
                  IN keybuffer = [s \in Slot |-> c] /\ got = c
SomeBoot == /\ BootInit
            /\ part # "boot" => size = CHOOSE s \in [sys : SysSizes, usr : UsrSizes] : TRUE

PartsInit ==
    /\ part \in {"ring", "lists", "stubs", "boot", "console"}
    /\ SomeRing /\ ListInit /\ StubInit /\ SomeBoot /\ ConsoleInit

RingStep    == /\ part = "ring" /\ RingNext
               /\ UNCHANGED <<part, listVars, stubVars, bootVars, consoleVars>>
ListStep    == /\ part = "lists" /\ ListNext
               /\ UNCHANGED <<part, ringVars, stubVars, bootVars, consoleVars>>
StubStep    == /\ part = "stubs" /\ StubNext
               /\ UNCHANGED <<part, ringVars, listVars, bootVars, consoleVars>>
BootStep    == /\ part = "boot" /\ BootNext
               /\ UNCHANGED <<part, ringVars, listVars, stubVars, consoleVars>>
ConsoleStep == /\ part = "console" /\ ConsoleNext
               /\ UNCHANGED <<part, ringVars, listVars, stubVars, bootVars>>

PartsNext == RingStep \/ ListStep \/ StubStep \/ BootStep \/ ConsoleStep

PartsSpec ==
    PartsInit /\ [][PartsNext]_<<part, ringVars, listVars, stubVars, bootVars, consoleVars>>
=============================================================================
