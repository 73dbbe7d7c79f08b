----------------------------- MODULE ZeosKeyboard -----------------------------
(***************************************************************************)
(* Keyboard input: the keyboard interrupt (keyboard_routine) and the       *)
(* blocking sys_read of sys.c, which meet in the circular buffer, in       *)
(* keyboardqueue and in keyboard_readers_count.  Of the circular buffer    *)
(* only the number of characters matters here; module Circbuff has the     *)
(* ring itself.                                                            *)
(***************************************************************************)
EXTENDS ZeosSched

CONSTANTS
    CIRCBUFF_SIZE,  \* capacity of the circular buffer (666)
    ReadCounts      \* valid values of count that programs pass to read()

ASSUME KeyboardAssumption ==
    /\ CIRCBUFF_SIZE \in Nat \ {0}
    /\ ReadCounts \subseteq Nat

VARIABLES
    circbuffcounter,        \* characters in the circular buffer
    keyboard_readers_count, \* characters each reader was last left waiting for
    read_count,             \* local count of a sys_read_keyboard in progress
    read_i                  \* its local i: characters copied so far

kbdVars == <<circbuffcounter, keyboard_readers_count, read_count, read_i>>

EBADF  == 9
EFAULT == 14

\* The fault: the test is missing.
circbuff_full_fault == FALSE
circbuff_full == circbuffcounter = CIRCBUFF_SIZE

\* The interrupt wakes the first reader, which waits for remaining characters,
\* when the one it stores makes them stored.  The faults: a full buffer is no
\* reason; every key is one.
EnoughFor_fault(remaining, stored) == stored = remaining
EnoughFor_always_fault(remaining, stored) == TRUE
EnoughFor(remaining, stored) == stored = CIRCBUFF_SIZE \/ stored = remaining

----------------------------------------------------------------------------
\* One scan code arrives.  Break codes, and any code that arrives when the
\* buffer is full or when nobody waits for input, change none of this state.
\* Otherwise the character is stored, and if that fills the buffer or makes
\* exactly the number the first reader waits for, the reader is moved to the
\* front of the ready queue and the interrupted task to its end.
keyboard_routine ==
    /\ InterruptsOn
    /\ ~circbuff_full
    /\ ~list_empty(queue, keyboardqueue)
    /\ circbuffcounter' = circbuffcounter + 1
    /\ LET keyboard_reader == list_first(queue, keyboardqueue)
           remaining == keyboard_readers_count[keyboard_reader]
       IN
       \/ /\ ~EnoughFor(remaining, circbuffcounter')
          /\ UNCHANGED <<schedVars, keyboard_readers_count>>
       \/ /\ EnoughFor(remaining, circbuffcounter')
          /\ keyboard_readers_count' =
               [keyboard_readers_count EXCEPT
                  ![keyboard_reader] = remaining - circbuffcounter']
          /\ sched_next_rr(
               Enqueue(list_add(list_del(queue, keyboardqueue),
                                readyqueue, keyboard_reader),
                       current, readyqueue),
               [state EXCEPT ![keyboard_reader] = ST_READY,
                             ![current] = QueuedState(readyqueue)],
               left_ticks)
    /\ Return(NO_RETURN)
    /\ UNCHANGED <<taskVars, read_count, read_i>>

----------------------------------------------------------------------------
\* The loop of sys_read_keyboard for task t, which has copied i of count
\* characters: it takes what the buffer holds and, if that is not enough,
\* blocks at the FRONT of keyboardqueue.
CopyAll(t, i, count) ==
    /\ count - i <= circbuffcounter
    /\ circbuffcounter' = circbuffcounter - (count - i)
    /\ read_i' = [read_i EXCEPT ![t] = 0]
    /\ read_count' = [read_count EXCEPT ![t] = 0]
    /\ kont' = [kont EXCEPT ![t] = "user"]
    /\ Return(0)
    /\ UNCHANGED schedVars

BlockReader(t, count) ==
    /\ circbuffcounter' = 0
    /\ read_count' = [read_count EXCEPT ![t] = count]
    /\ kont' = [kont EXCEPT ![t] = "readloop"]
    /\ sched_next_rr(list_add(queue, keyboardqueue, t),
                     [state EXCEPT ![t] = ST_BLOCKED],
                     left_ticks)
    /\ Return(NO_RETURN)

CopySome(t, i, count) ==
    /\ count - i > circbuffcounter
    /\ read_i' = [read_i EXCEPT ![t] = i + circbuffcounter]
    /\ BlockReader(t, count)

ReadLoop(t, i, count) == CopyAll(t, i, count) \/ CopySome(t, i, count)

\* Where the buffer of a read() is: NULL, outside the data segment, inside.
ReadBuffer == {"null", "outside", "data"}

\* The checks of sys_read, in their order; it returns these codes with a
\* positive sign.  0: the arguments are accepted.
ReadError(fd, buffer, count) ==
    IF fd # 0 THEN EBADF
    ELSE IF buffer = "null" THEN EFAULT
    ELSE IF count < 0 THEN EINVAL
    ELSE IF buffer = "outside" THEN EFAULT
    ELSE 0

\* read(fd, buffer, count).  A reader that finds others waiting queues
\* behind them.  sys_read_keyboard never sets its loop variable i
\* (sys.c:353); built as the Makefile says (gcc -m32 -O2) it starts at 0.
sys_read(fd, buffer, count) ==
    /\ InUserCode
    /\ \/ /\ ReadError(fd, buffer, count) # 0
          /\ Return(ReadError(fd, buffer, count))
          /\ UNCHANGED <<schedVars, kont, kbdVars>>
       \/ /\ ReadError(fd, buffer, count) = 0
          /\ keyboard_readers_count' =
               [keyboard_readers_count EXCEPT ![current] = count]
          /\ \/ /\ ~list_empty(queue, keyboardqueue)
                /\ read_i' = [read_i EXCEPT ![current] = 0]
                /\ read_count' = [read_count EXCEPT ![current] = count]
                /\ kont' = [kont EXCEPT ![current] = "readret"]
                /\ sched_next_rr(
                     Enqueue(queue, current, keyboardqueue),
                     [state EXCEPT ![current] = QueuedState(keyboardqueue)],
                     left_ticks)
                /\ Return(NO_RETURN)
                /\ UNCHANGED circbuffcounter
             \/ /\ list_empty(queue, keyboardqueue)
                /\ ReadLoop(current, 0, count)
    /\ UNCHANGED <<PID, semdestroyed>>

\* The first reader is dispatched again and goes on with its loop.
ReadLoopResume ==
    /\ kont[current] = "readloop"
    /\ ReadLoop(current, read_i[current], read_count[current])
    /\ UNCHANGED <<PID, semdestroyed, keyboard_readers_count>>

\* A reader that had queued behind another is dispatched again: it returns
\* at once (sys.c:350), and sys_read reports success.
ReadReturn ==
    /\ kont[current] = "readret"
    /\ kont' = [kont EXCEPT ![current] = "user"]
    /\ read_i' = [read_i EXCEPT ![current] = 0]
    /\ read_count' = [read_count EXCEPT ![current] = 0]
    /\ Return(0)
    /\ UNCHANGED <<schedVars, PID, semdestroyed, circbuffcounter,
                   keyboard_readers_count>>

KeyboardInit ==
    /\ circbuffcounter = 0
    /\ keyboard_readers_count = [t \in Task |-> 0]
    /\ read_count = [t \in Task |-> 0]
    /\ read_i = [t \in Task |-> 0]
=============================================================================
