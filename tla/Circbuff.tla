------------------------------- MODULE Circbuff -------------------------------
(***************************************************************************)
(* The ring of circbuff.c: an array, the pointers to the next character to *)
(* read and to the next free slot, and the number of characters.  A        *)
(* pointer is the index it points to in keybuffer.                         *)
(***************************************************************************)
EXTENDS Integers, Sequences

CONSTANTS CIRCBUFF_SIZE,  \* slots of keybuffer (666)
          Char            \* the characters of char_map

ASSUME CircbuffAssumption == CIRCBUFF_SIZE \in Nat \ {0}

VARIABLES keybuffer, circbuffptr_first, circbuffptr_last, circbuffcounter,
          got   \* what sys_read_keyboard last stored in a reader's buffer

ringVars == <<keybuffer, circbuffptr_first, circbuffptr_last, circbuffcounter, got>>

Slot == 0 .. CIRCBUFF_SIZE - 1

\* Advance with a plausible bug in it, which the properties are shown to
\* detect: the pointer wraps one slot early.
Advance_fault(ptr) == IF ptr + 1 >= CIRCBUFF_SIZE - 1 THEN 0 ELSE ptr + 1

\* ptr + 1, back to &keybuffer[0] past the end.
Advance(ptr) == IF ptr + 1 >= CIRCBUFF_SIZE THEN 0 ELSE ptr + 1

circbuff_empty == circbuffcounter = 0
circbuff_full  == circbuffcounter = CIRCBUFF_SIZE
circbuff_front == keybuffer[circbuffptr_first]

\* circbuff_push: a character that finds the buffer full is lost.
circbuff_push(k) ==
    /\ ~circbuff_full
    /\ keybuffer' = [keybuffer EXCEPT ![circbuffptr_last] = k]
    /\ circbuffptr_last' = Advance(circbuffptr_last)
    /\ circbuffcounter' = circbuffcounter + 1
    /\ UNCHANGED <<circbuffptr_first, got>>

circbuff_pop ==
    /\ ~circbuff_empty
    /\ circbuffptr_first' = Advance(circbuffptr_first)
    /\ circbuffcounter' = circbuffcounter - 1
    /\ UNCHANGED <<keybuffer, circbuffptr_last>>

\* One turn of the loop of sys_read_keyboard:
\* buffer[i] = circbuff_front(); circbuff_pop()
ReadChar == got' = circbuff_front /\ circbuff_pop

\* init_circbuff; keybuffer is in .bss.
RingInit ==
    /\ keybuffer \in [Slot -> Char]
    /\ circbuffptr_first = 0
    /\ circbuffptr_last = 0
    /\ circbuffcounter = 0
    /\ got \in Char

RingNext == (\E k \in Char : circbuff_push(k)) \/ ReadChar

RingSpec == RingInit /\ [][RingNext]_ringVars

----------------------------------------------------------------------------
\* The slot of the i-th unread character.
Wrap(n)   == IF n >= CIRCBUFF_SIZE THEN n - CIRCBUFF_SIZE ELSE n
SlotOf(i) == Wrap(circbuffptr_first + i - 1)

\* The pointers stay in the array, and the unread characters are the slots
\* from the first pointer to the last one: the counter, which alone tells a
\* full buffer from an empty one, never disagrees with the pointers.
RingInv ==
    /\ keybuffer \in [Slot -> Char]
    /\ circbuffptr_first \in Slot
    /\ circbuffptr_last \in Slot
    /\ circbuffcounter \in 0 .. CIRCBUFF_SIZE
    /\ got \in Char
    /\ circbuffptr_last = SlotOf(circbuffcounter + 1)

\* The ring implements the FIFO: characters come out in the order in which
\* they were typed, each once, across any number of wrap-arounds.
Fifo == INSTANCE CharFifo
          WITH Capacity <- CIRCBUFF_SIZE,
               chars <- [i \in 1 .. circbuffcounter |-> keybuffer[SlotOf(i)]]

ImplementsFifo == Fifo!FifoSpec
=============================================================================
