------------------------------- MODULE Console -------------------------------
(***************************************************************************)
(* The screen (io.c, devices.c), sys_write, which prints a user buffer in  *)
(* blocks, and perror of libc.c.  The other writer of the screen is the    *)
(* clock interrupt, which shows the time with printc_xy between two        *)
(* system calls.  A character is a string; cells are pairs <<x, y>>.       *)
(***************************************************************************)
EXTENDS Integers, SequencesExt

CONSTANTS
    NUM_COLUMNS, NUM_ROWS,  \* 80 by 25
    FirstRow,               \* the row that printing starts on (19)
    size_block,             \* characters copied from the user at a time (4)
    ClockCell,              \* where the clock interrupt prints
    UserText,               \* buffers that programs write
    Errnos                  \* values of errno when a program calls perror

ASSUME ConsoleAssumption ==
    /\ {NUM_COLUMNS, NUM_ROWS, size_block} \subseteq Nat \ {0}
    /\ ClockCell \in (0 .. NUM_COLUMNS - 1) \X (0 .. NUM_ROWS - 1)
    /\ FirstRow \in 0 .. NUM_ROWS - 1
    /\ Errnos \subseteq Nat
    /\ UserText \subseteq Seq(STRING)

VARIABLES
    con,      \* the screen: its cells, the cursor x and y, and (of the
              \* specification) row, what has been printed on the cursor's row
    call,     \* the write in progress, or NO_CALL
    printed,  \* what that write has printed
    result    \* what the last call returned

consoleVars == <<con, call, printed, result>>

NL     == "newline"
NUL    == "nul"
STRAY   == "stray"
BLANK  == "blank"
Column == 0 .. NUM_COLUMNS - 1
Row    == 0 .. NUM_ROWS - 1

EBADF  == 9
EFAULT == 14
EINVAL == 22

\* buffer_kernel is what is left to print of the block copied last.
NO_CALL == [errno |-> -1, buffer |-> <<>>, size |-> -1, i |-> 0, buffer_kernel |-> <<>>]

----------------------------------------------------------------------------
(* io.c.                                                                   *)
NewRow(c) == [c EXCEPT !.x = 0, !.y = (c.y + 1) % NUM_ROWS, !.row = <<>>]

printc(c, char) ==
    IF char = NL THEN NewRow(c)
    ELSE LET d == [c EXCEPT !.cells[<<c.x, c.y>>] = char, !.x = c.x + 1,
                            !.row = Append(c.row, char)]
         IN IF d.x >= NUM_COLUMNS THEN NewRow(d) ELSE d

\* The fault: only the column is restored.
printc_xy_fault(c, mx, my, char) ==
    [printc([c EXCEPT !.x = mx, !.y = my], char) EXCEPT !.x = c.x, !.row = c.row]

\* The cursor is moved, and put back where it was.
printc_xy(c, mx, my, char) ==
    [printc([c EXCEPT !.x = mx, !.y = my], char)
        EXCEPT !.x = c.x, !.y = c.y, !.row = c.row]

----------------------------------------------------------------------------
(* sys_write, with interrupts masked from its call to its last block.      *)
ReturnFromWrite(value) ==
    /\ result' = value
    /\ call' = NO_CALL
    /\ printed' = <<>>
    /\ UNCHANGED con

WriteErrors(fd, buffer, size) ==
    IF fd # 1 THEN EBADF ELSE IF buffer = "NULL" THEN EFAULT
                         ELSE IF size < 0 THEN EINVAL ELSE 0

WriteError ==
    /\ call = NO_CALL
    /\ \E fd \in {0, 1}, buffer \in {"NULL", "user"}, size \in {-1, 0} :
          /\ WriteErrors(fd, buffer, size) # 0
          /\ ReturnFromWrite(WriteErrors(fd, buffer, size))

StartWrite(buffer, size, errno) ==
    /\ call = NO_CALL
    /\ call' = [errno |-> errno, buffer |-> buffer, size |-> size, i |-> 0,
                buffer_kernel |-> <<>>]
    /\ UNCHANGED <<con, printed, result>>

Write ==
    \E buffer \in UserText : \E size \in {Len(buffer), Len(buffer) - 1} :
        size >= 0 /\ StartWrite(buffer, size, -1)

\* The fault: every block is a whole one.
BlockLength_fault == size_block

BlockLength ==
    IF call.size - call.i < size_block THEN call.size - call.i ELSE size_block

\* What copy_from_user copies, words first.  What lies behind the program's
\* buffer is junk.
copy_from_user ==
    [k \in 1 .. BlockLength |->
        IF call.i + k <= Len(call.buffer) THEN call.buffer[call.i + k] ELSE STRAY]

WriteBlock ==
    /\ call # NO_CALL /\ call.buffer_kernel = <<>> /\ call.i < call.size
    /\ call' = [call EXCEPT !.buffer_kernel = copy_from_user]
    /\ UNCHANGED <<con, printed, result>>

\* One turn of the loop of sys_write_console; after the last one sys_write
\* goes on to the next block.
sys_write_console ==
    /\ call.buffer_kernel # <<>>
    /\ con' = printc(con, Head(call.buffer_kernel))
    /\ printed' = Append(printed, Head(call.buffer_kernel))
    /\ call' = [call EXCEPT !.buffer_kernel = Tail(@),
                            !.i = IF Len(call.buffer_kernel) = 1 THEN @ + size_block ELSE @]
    /\ UNCHANGED result

WriteReturn ==
    /\ call # NO_CALL /\ call.i >= call.size
    /\ ReturnFromWrite(0)

----------------------------------------------------------------------------
(* libc.c.                                                                 *)
DIGIT == <<"0", "1", "2", "3", "4", "5", "6", "7", "8", "9">>

\* The first loop of itoa: the digits, the last one first.
Digits[a \in Nat] ==
    IF a = 0 THEN <<>> ELSE <<DIGIT[(a % 10) + 1]>> \o Digits[a \div 10]

\* The fault: the digits are not swapped.
itoa_fault(a) == IF a = 0 THEN <<"0", NUL>> ELSE Append(Digits[a], NUL)

itoa(a) == IF a = 0 THEN <<"0", NUL>> ELSE Append(Reverse(Digits[a]), NUL)

\* char err_buffer[3]; itoa(errno, err_buffer); write(1, err_buffer, 3): all
\* three bytes, set or not.
perror == \E errno \in Errnos : StartWrite(itoa(errno), 3, errno)

----------------------------------------------------------------------------
\* zeos_show_clock, in the clock interrupt.
ShowClock ==
    /\ call = NO_CALL
    /\ con' = printc_xy(con, ClockCell[1], ClockCell[2], "clock")
    /\ UNCHANGED <<call, printed, result>>

ConsoleInit ==
    /\ con = [cells |-> [cell \in Column \X Row |-> BLANK],
              x |-> 0, y |-> FirstRow, row |-> <<>>]
    /\ call = NO_CALL
    /\ printed = <<>>
    /\ result = 0

ConsoleNext ==
    \/ WriteError \/ Write \/ perror
    \/ WriteBlock \/ sys_write_console \/ WriteReturn
    \/ ShowClock

ConsoleSpec == ConsoleInit /\ [][ConsoleNext]_consoleVars

----------------------------------------------------------------------------
\* The cursor stays on the screen, and what was printed on its row is there,
\* up to the cursor, whatever the clock has shown in between: text that
\* reaches the last column or row goes on at the next or the first row.
RowIntact ==
    /\ con.x \in Column /\ con.y \in Row
    /\ Len(con.row) = con.x
    /\ \A k \in 0 .. con.x - 1 :
          <<k, con.y>> # ClockCell => con.cells[<<k, con.y>>] = con.row[k + 1]

\* write prints its buffer, once, in order and no more than its size, across
\* the blocks it is copied in.
WritesExactly ==
    call # NO_CALL /\ call.i >= call.size /\ call.errno = -1 =>
        printed = SubSeq(call.buffer, 1, call.size)

\* The number that a text starts with.
Number(text) ==
    LET IsDigit(c)  == \E d \in 1 .. 10 : DIGIT[d] = c
        end         == CHOOSE n \in 0 .. Len(text) :
                          /\ \A k \in 1 .. n : IsDigit(text[k])
                          /\ n < Len(text) => ~IsDigit(text[n + 1])
        Next(n, c)  == 10 * n + (CHOOSE d \in 0 .. 9 : DIGIT[d + 1] = c)
    IN FoldLeft(Next, 0, SubSeq(text, 1, end))

\* What perror prints starts with errno in decimal, although it prints three
\* bytes of a buffer of three whatever itoa has put there.
PerrorSaysErrno ==
    call # NO_CALL /\ call.i >= call.size /\ call.errno # -1 =>
        Number(printed) = call.errno
=============================================================================
