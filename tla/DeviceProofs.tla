----------------------------- MODULE DeviceProofs -----------------------------
(***************************************************************************)
(* Proofs about the keyboard's ring and the console: circbuff.c implements *)
(* the FIFO, whatever the size of the ring, and the screen holds what was  *)
(* printed, for every size of the screen and of the blocks of sys_write,   *)
(* every cell the clock shows in, and every text.                          *)
(***************************************************************************)
EXTENDS Circbuff, Console, SequenceTheorems, TLAPS

----------------------------------------------------------------------------
(* The ring.                                                               *)

\* The pointers and the counter of the ring agree in every reachable state.
THEOREM RingInvariant == RingSpec => []RingInv
<1>1. RingInit => RingInv
  BY CircbuffAssumption DEF RingInit, RingInv, SlotOf, Wrap, Slot
<1>2. RingInv /\ [RingNext]_ringVars => RingInv'
  <2> SUFFICES ASSUME RingInv, [RingNext]_ringVars
               PROVE  RingInv'
    OBVIOUS
  <2> USE CircbuffAssumption DEF RingInv, SlotOf, Wrap, Slot
  <2>1. ASSUME NEW k \in Char, circbuff_push(k)
        PROVE  RingInv'
    BY <2>1 DEF circbuff_push, Advance, circbuff_full
  <2>2. CASE ReadChar
    BY <2>2 DEF ReadChar, circbuff_pop, circbuff_empty, circbuff_front, Advance
  <2>3. CASE UNCHANGED ringVars
    BY <2>3 DEF ringVars
  <2> QED
    BY <2>1, <2>2, <2>3 DEF RingNext
<1> QED
  BY <1>1, <1>2, PTL DEF RingSpec

----------------------------------------------------------------------------
\* Wrapping an index that is at most once around the array gives a slot.
LEMMA WrapInSlot ==
    ASSUME NEW f \in Slot, NEW i \in 1 .. CIRCBUFF_SIZE
    PROVE  Wrap(f + i - 1) \in Slot
BY CircbuffAssumption DEF Wrap, Slot

\* The unread characters of the ring, as in the refinement mapping.
Unread == [i \in 1 .. circbuffcounter |-> keybuffer[SlotOf(i)]]

\* The mapped value is a sequence of as many characters as the counter says.
LEMMA UnreadSeq ==
    ASSUME RingInv
    PROVE  /\ Unread \in Seq(Char)
           /\ Len(Unread) = circbuffcounter
<1>1. \A i \in 1 .. circbuffcounter : SlotOf(i) \in Slot
  BY WrapInSlot, CircbuffAssumption DEF RingInv, SlotOf
<1>2. \A i \in 1 .. circbuffcounter : keybuffer[SlotOf(i)] \in Char
  BY <1>1 DEF RingInv
<1> QED
  BY <1>2 DEF Unread, RingInv

\* circbuff_push is the FIFO's Put: the new character is the last to leave.
LEMMA PushIsPut ==
    ASSUME RingInv, RingInv', NEW k \in Char, circbuff_push(k)
    PROVE  Fifo!Put(k)
<1>1. /\ circbuffcounter' = circbuffcounter + 1
      /\ circbuffcounter \in 0 .. CIRCBUFF_SIZE - 1
      /\ circbuffptr_first' = circbuffptr_first
  BY CircbuffAssumption DEF RingInv, circbuff_push, circbuff_full
<1>2. ASSUME NEW i \in 1 .. circbuffcounter
      PROVE  keybuffer'[SlotOf(i)'] = keybuffer[SlotOf(i)]
  BY <1>1, CircbuffAssumption DEF RingInv, SlotOf, Wrap, Slot, circbuff_push
<1>3. keybuffer'[SlotOf(circbuffcounter)'] = k
  BY <1>1, CircbuffAssumption DEF RingInv, SlotOf, Wrap, Slot, circbuff_push
<1>4. Unread' = Append(Unread, k)
  <2>1. Unread \in Seq(Char) /\ Len(Unread) = circbuffcounter
    BY UnreadSeq
  <2>2. Unread' \in Seq(Char) /\ Len(Unread') = circbuffcounter + 1
    <3>1. \A i \in 1 .. circbuffcounter' : SlotOf(i)' \in Slot
      BY WrapInSlot, CircbuffAssumption DEF RingInv, SlotOf
    <3>2. \A i \in 1 .. circbuffcounter' : keybuffer'[SlotOf(i)'] \in Char
      BY <3>1 DEF RingInv
    <3> QED
      BY <3>2, <1>1 DEF Unread
  <2>3. /\ Append(Unread, k) \in Seq(Char)
        /\ Len(Append(Unread, k)) = circbuffcounter + 1
    BY <2>1
  <2>4. ASSUME NEW i \in 1 .. circbuffcounter + 1
        PROVE  Unread'[i] = Append(Unread, k)[i]
    <3>1. Unread'[i] = keybuffer'[SlotOf(i)']
      BY <1>1 DEF Unread
    <3>2. CASE i = circbuffcounter + 1
      BY <3>1, <3>2, <1>1, <1>3, <2>1 DEF SlotOf
    <3>3. CASE i \in 1 .. circbuffcounter
      <4>1. Append(Unread, k)[i] = Unread[i]
        BY <2>1, <3>3, <1>1
      <4>2. Unread[i] = keybuffer[SlotOf(i)]
        BY <3>3 DEF Unread
      <4> QED
        BY <3>1, <3>3, <1>2, <4>1, <4>2
    <3>4. i = circbuffcounter + 1 \/ i \in 1 .. circbuffcounter
      BY <1>1, CircbuffAssumption
    <3> QED
      BY <3>2, <3>3, <3>4
  <2> QED
    BY <2>2, <2>3, <2>4, SeqEqual
<1>5. Len(Unread) < CIRCBUFF_SIZE
  BY <1>1, UnreadSeq, CircbuffAssumption
<1> QED
  BY <1>4, <1>5 DEF Fifo!Put, circbuff_push, Unread

\* A turn of the read loop is the FIFO's Get: the oldest character leaves.
LEMMA ReadIsGet ==
    ASSUME RingInv, RingInv', ReadChar
    PROVE  Fifo!Get
<1>1. /\ circbuffcounter' = circbuffcounter - 1
      /\ circbuffcounter \in 1 .. CIRCBUFF_SIZE
      /\ keybuffer' = keybuffer
  BY CircbuffAssumption DEF RingInv, ReadChar, circbuff_pop, circbuff_empty
<1>2. \A i \in 1 .. circbuffcounter - 1 : SlotOf(i)' = SlotOf(i + 1)
  BY <1>1, CircbuffAssumption
     DEF RingInv, SlotOf, Wrap, Slot, ReadChar, circbuff_pop, Advance
<1>3. SlotOf(1) = circbuffptr_first
  BY CircbuffAssumption DEF RingInv, SlotOf, Wrap, Slot
<1>4. Unread # <<>> /\ Head(Unread) = keybuffer[circbuffptr_first]
  BY <1>1, <1>3, UnreadSeq DEF Unread
<1>5. Unread' = Tail(Unread)
  <2>1. /\ Unread \in Seq(Char) /\ Len(Unread) = circbuffcounter
    BY UnreadSeq
  <2>2. Unread' \in Seq(Char) /\ Len(Unread') = circbuffcounter - 1
    <3>1. \A i \in 1 .. circbuffcounter' : SlotOf(i)' \in Slot
      BY WrapInSlot, CircbuffAssumption DEF RingInv, SlotOf
    <3>2. \A i \in 1 .. circbuffcounter' : keybuffer'[SlotOf(i)'] \in Char
      BY <3>1 DEF RingInv
    <3> QED
      BY <3>2, <1>1 DEF Unread
  <2>3. /\ Tail(Unread) \in Seq(Char)
        /\ Len(Tail(Unread)) = circbuffcounter - 1
        /\ \A i \in 1 .. circbuffcounter - 1 : Tail(Unread)[i] = Unread[i + 1]
    BY <2>1, <1>4, HeadTailProperties
  <2>4. ASSUME NEW i \in 1 .. circbuffcounter - 1
        PROVE  Unread'[i] = Tail(Unread)[i]
    <3>1. Unread'[i] = keybuffer[SlotOf(i)']
      BY <1>1 DEF Unread
    <3>2. Unread[i + 1] = keybuffer[SlotOf(i + 1)]
      BY <1>1 DEF Unread
    <3> QED
      BY <3>1, <3>2, <1>2, <2>3
  <2> QED
    BY <2>2, <2>3, <2>4, SeqEqual
<1> QED
  BY <1>4, <1>5 DEF Fifo!Get, ReadChar, circbuff_front, Unread

\* Characters come out of the ring in the order in which they were typed,
\* each once: circbuff.c implements a bounded FIFO for every buffer size.
THEOREM RingImplementsFifo == RingSpec => ImplementsFifo
<1>1. RingInit => Fifo!FifoInit
  BY DEF RingInit, Fifo!FifoInit
<1>2. RingInv /\ RingInv' /\ [RingNext]_ringVars => [Fifo!FifoNext]_(Fifo!fifoVars)
  <2> SUFFICES ASSUME RingInv, RingInv', [RingNext]_ringVars
               PROVE  [Fifo!FifoNext]_(Fifo!fifoVars)
    OBVIOUS
  <2>1. ASSUME NEW k \in Char, circbuff_push(k)
        PROVE  Fifo!FifoNext
    BY <2>1, PushIsPut DEF Fifo!FifoNext
  <2>2. CASE ReadChar
    BY <2>2, ReadIsGet DEF Fifo!FifoNext
  <2>3. CASE UNCHANGED ringVars
    BY <2>3 DEF ringVars, Fifo!fifoVars, SlotOf
  <2> QED
    BY <2>1, <2>2, <2>3 DEF RingNext
<1> QED
  BY <1>1, <1>2, RingInvariant, PTL DEF RingSpec, ImplementsFifo, Fifo!FifoSpec
----------------------------------------------------------------------------
(* The screen.                                                             *)

Fields == {"cells", "x", "y", "row"}

\* What the cursor's row holds up to the cursor is what was printed there.
RowShown(c) ==
    /\ DOMAIN c = Fields
    /\ c.cells = [cell \in Column \X Row |-> c.cells[cell]]
    /\ c.x \in Column /\ c.y \in Row
    /\ c.row = [k \in 1 .. c.x |-> c.row[k]]
    /\ \A k \in 0 .. c.x - 1 :
          <<k, c.y>> # ClockCell => c.cells[<<k, c.y>>] = c.row[k + 1]

LEMMA NewRowFields ==
    ASSUME NEW c, DOMAIN c = Fields
    PROVE  LET d == NewRow(c)
           IN  /\ DOMAIN d = Fields
               /\ d.cells = c.cells /\ d.x = 0 /\ d.y = (c.y + 1) % NUM_ROWS /\ d.row = <<>>
BY DEF NewRow, Fields

\* printc of a character that is not a newline, without the end of the row.
Put(c, char) == [c EXCEPT !.cells[<<c.x, c.y>>] = char, !.x = c.x + 1,
                          !.row = Append(c.row, char)]

LEMMA PutFields ==
    ASSUME NEW c, DOMAIN c = Fields, NEW char
    PROVE  LET d == Put(c, char)
           IN  /\ DOMAIN d = Fields
               /\ d.cells = [c.cells EXCEPT ![<<c.x, c.y>>] = char]
               /\ d.x = c.x + 1 /\ d.y = c.y /\ d.row = Append(c.row, char)
BY DEF Put, Fields

LEMMA printcIs ==
    ASSUME NEW c, DOMAIN c = Fields, NEW char
    PROVE  printc(c, char) = IF char = NL THEN NewRow(c)
                             ELSE IF c.x + 1 >= NUM_COLUMNS THEN NewRow(Put(c, char))
                             ELSE Put(c, char)
BY PutFields DEF printc, Put

LEMMA NewRowShown ==
    ASSUME NEW c, DOMAIN c = Fields,
           c.cells = [cell \in Column \X Row |-> c.cells[cell]], c.y \in Row
    PROVE  RowShown(NewRow(c))
<1> DEFINE d == NewRow(c)
<1>1. /\ DOMAIN d = Fields
      /\ d.cells = c.cells /\ d.x = 0 /\ d.y = (c.y + 1) % NUM_ROWS /\ d.row = <<>>
  BY NewRowFields
<1>2. NUM_COLUMNS \in Nat \ {0} /\ NUM_ROWS \in Nat \ {0}
  BY ConsoleAssumption
<1>3. (c.y + 1) % NUM_ROWS \in Row /\ 0 \in Column
  BY <1>2 DEF Row, Column
<1> HIDE DEF d
<1>4. d.row = [k \in 1 .. d.x |-> d.row[k]] /\ d.x = 0
  BY <1>1
<1> QED
  BY <1>1, <1>3, <1>4 DEF RowShown, d

LEMMA AppendRow ==
    ASSUME NEW n \in Nat, NEW s, s = [k \in 1 .. n |-> s[k]], NEW char
    PROVE  Append(s, char) = [k \in 1 .. n + 1 |-> IF k = n + 1 THEN char ELSE s[k]]
<1> DEFINE S == {s[k] : k \in 1 .. n} \cup {char}
<1>1. s \in Seq(S) /\ Len(s) = n /\ char \in S
  <2>1. \A k \in 1 .. n : s[k] \in S
    OBVIOUS
  <2>2. char \in S
    OBVIOUS
  <2> HIDE DEF S
  <2>3. s \in Seq(S)
    BY <2>1
  <2> QED
    BY <2>2, <2>3
<1> HIDE DEF S
<1> QED
  BY <1>1

LEMMA printcShown ==
    ASSUME NEW c, RowShown(c), NEW char
    PROVE  RowShown(printc(c, char))
<1> DEFINE d == Put(c, char)
<1>1. /\ DOMAIN c = Fields
      /\ c.cells = [cell \in Column \X Row |-> c.cells[cell]]
      /\ c.x \in Column /\ c.y \in Row
  BY DEF RowShown
<1>2. CASE char = NL
  BY <1>1, <1>2, NewRowShown, printcIs
<1>3. CASE char # NL
  <2>1. /\ DOMAIN d = Fields
        /\ d.cells = [c.cells EXCEPT ![<<c.x, c.y>>] = char] /\ d.x = c.x + 1
        /\ d.y = c.y /\ d.row = Append(c.row, char)
    BY <1>1, PutFields
  <2>2. printc(c, char) = IF d.x >= NUM_COLUMNS THEN NewRow(d) ELSE d
    BY <1>1, <1>3, <2>1, printcIs
  <2> HIDE DEF d
  <2>3. /\ d.cells = [cell \in Column \X Row |-> d.cells[cell]]
        /\ d.x = c.x + 1 /\ d.y = c.y
    BY <1>1, <2>1
  <2>4. CASE d.x >= NUM_COLUMNS
    <3>1. RowShown(NewRow(d))
      <4>1. d.cells = [cell \in Column \X Row |-> d.cells[cell]] /\ d.y \in Row
        BY <1>1, <2>3
      <4> QED
        BY <2>1, <4>1, NewRowShown
    <3> QED
      BY <2>2, <2>4, <3>1
  <2>5. CASE ~(d.x >= NUM_COLUMNS)
    <3>1. c.x \in Nat /\ NUM_COLUMNS \in Nat /\ d.x \in Column
      BY <1>1, <2>3, <2>5, ConsoleAssumption DEF Column
    <3>2. d.row = [k \in 1 .. c.x + 1 |-> IF k = c.x + 1 THEN char ELSE c.row[k]]
      BY <2>1, <3>1, AppendRow DEF RowShown
    <3>3. ASSUME NEW k \in 0 .. d.x - 1, <<k, d.y>> # ClockCell
          PROVE  d.cells[<<k, d.y>>] = d.row[k + 1]
      <4>1. k \in Column /\ k + 1 \in 1 .. c.x + 1 /\ d.y = c.y
        BY <2>3, <3>1 DEF Column
      <4>2. CASE k = c.x
        BY <1>1, <2>1, <3>1, <3>2, <4>1, <4>2
      <4>3. CASE k # c.x
        <5>1. k \in 0 .. c.x - 1
          BY <3>1, <4>1, <4>3
        <5>2. c.cells[<<k, c.y>>] = c.row[k + 1]
          BY <2>3, <3>3, <5>1 DEF RowShown
        <5>3. d.row[k + 1] = c.row[k + 1]
          BY <3>1, <3>2, <4>1, <4>3
        <5>4. d.cells[<<k, c.y>>] = c.cells[<<k, c.y>>]
          BY <1>1, <2>1, <4>1, <4>3
        <5> QED
          BY <4>1, <5>2, <5>3, <5>4
      <4> QED
        BY <4>2, <4>3
    <3>4. d.row = [k \in 1 .. d.x |-> d.row[k]]
      BY <2>3, <3>2
    <3>5. RowShown(d)
      BY <1>1, <2>1, <2>3, <3>1, <3>3, <3>4 DEF RowShown
    <3> QED
      BY <2>2, <2>5, <3>5
  <2> QED
    BY <2>4, <2>5
<1> QED
  BY <1>2, <1>3

LEMMA printc_xyShown ==
    ASSUME NEW c, RowShown(c), NEW char
    PROVE  RowShown(printc_xy(c, ClockCell[1], ClockCell[2], char))
<1> DEFINE d == printc_xy(c, ClockCell[1], ClockCell[2], char)
           e == [c EXCEPT !.x = ClockCell[1], !.y = ClockCell[2]]
           p == printc(e, char)
<1>1. /\ DOMAIN e = Fields
      /\ e.cells = c.cells /\ e.x = ClockCell[1] /\ e.y = ClockCell[2]
  BY DEF RowShown, Fields
<1>2. d = [p EXCEPT !.x = c.x, !.y = c.y, !.row = c.row]
  BY DEF printc_xy
<1> HIDE DEF d, e, p
<1>3. <<e.x, e.y>> = ClockCell
  BY <1>1, ConsoleAssumption
<1>4. /\ DOMAIN p = Fields
      /\ p.cells = c.cells \/ p.cells = [c.cells EXCEPT ![ClockCell] = char]
  <2> DEFINE f == Put(e, char)
  <2>1. DOMAIN f = Fields /\ f.cells = [c.cells EXCEPT ![ClockCell] = char]
    BY <1>1, <1>3, PutFields
  <2> HIDE DEF f
  <2>2. p = NewRow(e) \/ p = NewRow(f) \/ p = f
    BY <1>1, printcIs DEF p, f
  <2> QED
    BY <1>1, <2>1, <2>2, NewRowFields
<1>moved. /\ DOMAIN d = Fields
      /\ d.cells = p.cells /\ d.x = c.x /\ d.y = c.y /\ d.row = c.row
  BY <1>2, <1>4 DEF Fields
<1>5. /\ d.cells = [cell \in Column \X Row |-> d.cells[cell]]
      /\ \A cell \in Column \X Row : cell # ClockCell => d.cells[cell] = c.cells[cell]
  BY <1>moved, <1>4 DEF RowShown
<1>6. \A k \in 0 .. c.x - 1 : <<k, c.y>> \in Column \X Row
  BY ConsoleAssumption DEF RowShown, Column
<1>7. ASSUME NEW k \in 0 .. d.x - 1, <<k, d.y>> # ClockCell
      PROVE  d.cells[<<k, d.y>>] = d.row[k + 1]
  <2>1. k \in 0 .. c.x - 1 /\ <<k, c.y>> # ClockCell
    BY <1>moved, <1>7
  <2>2. c.cells[<<k, c.y>>] = c.row[k + 1]
    BY <2>1 DEF RowShown
  <2>3. d.cells[<<k, c.y>>] = c.cells[<<k, c.y>>]
    BY <1>5, <1>6, <2>1
  <2> QED
    BY <1>moved, <2>2, <2>3
<1>8. DOMAIN d = Fields /\ d.x \in Column /\ d.y \in Row /\ d.row = [k \in 1 .. d.x |-> d.row[k]]
  BY <1>moved DEF RowShown
<1>9. d.cells = [cell \in Column \X Row |-> d.cells[cell]]
  BY <1>5
<1> HIDE DEF d
<1>10. RowShown(d)
  BY <1>7, <1>8, <1>9 DEF RowShown
<1> QED
  BY <1>10 DEF d

LEMMA RowInvariant == ConsoleSpec => []RowShown(con)
<1>1. ConsoleInit => RowShown(con)
  <2> SUFFICES ASSUME ConsoleInit PROVE RowShown(con)
    OBVIOUS
  <2>1. DOMAIN con = Fields
    BY DEF ConsoleInit, Fields
  <2>2. /\ con.cells = [cell \in Column \X Row |-> BLANK]
        /\ con.x = 0 /\ con.y = FirstRow /\ con.row = <<>>
    BY DEF ConsoleInit
  <2>3. 0 \in Column /\ FirstRow \in Row
    BY ConsoleAssumption DEF Column, Row
  <2>4. con.row = [k \in 1 .. con.x |-> con.row[k]]
    BY <2>2
  <2>5. con.cells = [cell \in Column \X Row |-> con.cells[cell]]
    BY <2>2
  <2>6. \A k \in 0 .. con.x - 1 : FALSE
    BY <2>2
  <2> QED
    BY <2>1, <2>2, <2>3, <2>4, <2>5, <2>6 DEF RowShown
<1>2. ASSUME RowShown(con), [ConsoleNext]_consoleVars PROVE RowShown(con')
  <2>1. CASE sys_write_console
    BY <1>2, <2>1, printcShown DEF sys_write_console
  <2>2. CASE ShowClock
    BY <1>2, <2>2, printc_xyShown DEF ShowClock
  <2>3. CASE UNCHANGED con
    BY <1>2, <2>3 DEF RowShown
  <2> QED
    BY <1>2, <2>1, <2>2, <2>3
       DEF ConsoleNext, consoleVars, WriteError, Write, perror, StartWrite, WriteBlock,
           WriteReturn, ReturnFromWrite
<1>3. RowShown(con)' <=> RowShown(con')
  BY DEF RowShown
<1> QED
  BY <1>1, <1>2, <1>3, PTL DEF ConsoleSpec

\* printc keeps the cursor on the screen and the cursor's row as it was
\* printed; the clock, which moves the cursor and puts it back, spoils neither.
THEOREM RowStaysIntact == ConsoleSpec => []RowIntact
<1>1. RowShown(con) => RowIntact
  <2> SUFFICES ASSUME RowShown(con) PROVE RowIntact
    OBVIOUS
  <2>1. con.x \in Nat
    BY ConsoleAssumption DEF RowShown, Column
  <2>2. Len(con.row) = con.x
    <3> DEFINE S == {con.row[k] : k \in 1 .. con.x}
    <3>1. \A k \in 1 .. con.x : con.row[k] \in S
      OBVIOUS
    <3>2. con.row = [k \in 1 .. con.x |-> con.row[k]]
      BY DEF RowShown
    <3> HIDE DEF S
    <3>3. con.row \in Seq(S)
      BY <2>1, <3>1, <3>2
    <3> QED
      BY <2>1, <3>2, <3>3, LenProperties
  <2> QED
    BY <2>2 DEF RowShown, RowIntact
<1> QED
  BY <1>1, RowInvariant, PTL

----------------------------------------------------------------------------
(* sys_write.                                                              *)

CallFields == {"errno", "buffer", "size", "i", "buffer_kernel"}

\* The characters of the buffer that are printed or in buffer_kernel.
Copied ==
    LET end == IF call.buffer_kernel = <<>> THEN call.i ELSE call.i + size_block
    IN  IF end < call.size THEN end ELSE call.size

\* What is printed and what is left of the block make a prefix of the buffer.
PrefixWritten ==
    /\ call.buffer \in Seq(STRING) /\ call.size \in 0 .. Len(call.buffer)
    /\ call.i \in Nat
    /\ call.buffer_kernel \in Seq(STRING) /\ printed \in Seq(STRING)
    /\ call.buffer_kernel # <<>> => call.i < call.size
    /\ printed \o call.buffer_kernel = SubSeq(call.buffer, 1, Copied)

WriteInv ==
    /\ DOMAIN call = CallFields
    /\ call = NO_CALL => printed = <<>>
    /\ call # NO_CALL => call.size \in Nat
    /\ call # NO_CALL /\ call.errno = -1 => PrefixWritten

LEMMA Idle == DOMAIN NO_CALL = CallFields /\ NO_CALL.size = -1
BY DEF NO_CALL, CallFields

LEMMA FunctionSeq ==
    ASSUME NEW S, NEW n \in Nat, NEW f \in [1 .. n -> S]
    PROVE  f \in Seq(S) /\ Len(f) = n
<1>1. f \in Seq(S)
  BY SeqDef
<1> QED
  BY <1>1, LenProperties

\* A block goes on where the last one has stopped.
LEMMA BlockStep == ASSUME WriteInv, WriteBlock PROVE WriteInv'
<1> DEFINE l == BlockLength
           t == copy_from_user
<1>1. /\ call # NO_CALL /\ call.buffer_kernel = <<>> /\ call.i < call.size
      /\ call' = [call EXCEPT !.buffer_kernel = t]
      /\ printed' = printed
  BY DEF WriteBlock
<1>2. /\ DOMAIN call' = CallFields
      /\ call'.errno = call.errno /\ call'.buffer = call.buffer /\ call'.size = call.size
      /\ call'.i = call.i /\ call'.buffer_kernel = t
  <2> HIDE DEF t
  <2> QED
    BY <1>1 DEF WriteInv, CallFields
<1>3. call' # NO_CALL /\ call'.size \in Nat
  <2>1. call.size \in Nat
    BY <1>1 DEF WriteInv
  <2>2. call'.size \in Nat
    BY <1>2, <2>1
  <2> QED
    BY <2>2, Idle
<1>4. ASSUME call.errno = -1 PROVE PrefixWritten'
  <2> DEFINE i == call.i
             b == call.buffer
  <2>1. /\ b \in Seq(STRING) /\ call.size \in 0 .. Len(b) /\ i \in Nat
        /\ printed \in Seq(STRING)
        /\ printed \o <<>> = SubSeq(b, 1, Copied)
    BY <1>1, <1>4 DEF WriteInv, PrefixWritten
  <2>2. Copied = i
    BY <1>1 DEF Copied
  <2>3. /\ size_block \in Nat \ {0} /\ Len(b) \in Nat
        /\ l = (IF call.size - i < size_block THEN call.size - i ELSE size_block)
        /\ l \in Nat \ {0} /\ i + l <= Len(b)
        /\ i + l = IF i + size_block < call.size THEN i + size_block ELSE call.size
    <3>1. size_block \in Nat \ {0} /\ Len(b) \in Nat /\ i < call.size
      BY <1>1, <2>1, ConsoleAssumption, LenProperties
    <3>2. l = (IF call.size - i < size_block THEN call.size - i ELSE size_block)
      BY DEF BlockLength
    <3>3. call.size \in Int /\ call.size <= Len(b) /\ i \in Nat
      BY <2>1, <3>1
    <3> HIDE DEF l, b, i
    <3> QED
      BY <3>1, <3>2, <3>3
  <2>4. t = [k \in 1 .. l |-> IF i + k <= Len(b) THEN b[i + k] ELSE STRAY]
    BY DEF copy_from_user
  <2> HIDE DEF l, t, i, b
  <2>5. \A k \in 1 .. l : t[k] = b[i + k] /\ b[i + k] \in STRING
    <3> SUFFICES ASSUME NEW k \in 1 .. l PROVE t[k] = b[i + k] /\ b[i + k] \in STRING
      OBVIOUS
    <3>1. i + k \in 1 .. Len(b)
      BY <2>1, <2>3
    <3> QED
      BY <2>1, <2>4, <3>1, ElementOfSeq
  <2>6. t \in Seq(STRING) /\ Len(t) = l
    <3>1. t \in [1 .. l -> STRING]
      BY <2>4, <2>5
    <3> QED
      BY <2>3, <3>1, FunctionSeq
  <2>7. printed = SubSeq(b, 1, i)
    BY <2>1, <2>2, ConcatEmptySeq
  <2>8. printed \o t = SubSeq(b, 1, i + l)
    <3>1. /\ SubSeq(b, 1, i + l) \in Seq(STRING) /\ Len(SubSeq(b, 1, i + l)) = i + l
          /\ \A k \in 1 .. i + l : SubSeq(b, 1, i + l)[k] = b[k]
      BY <2>1, <2>3
    <3>2. Len(printed) = i /\ \A k \in 1 .. i : printed[k] = b[k]
      BY <1>1, <2>1, <2>3, <2>7
    <3>3. /\ printed \o t \in Seq(STRING) /\ Len(printed \o t) = i + l
          /\ \A k \in 1 .. i + l :
                (printed \o t)[k] = IF k <= i THEN printed[k] ELSE t[k - i]
      BY <2>1, <2>6, <3>2, ConcatProperties
    <3>4. ASSUME NEW k \in 1 .. i + l PROVE (printed \o t)[k] = b[k]
      <4>1. CASE k <= i
        BY <2>1, <3>2, <3>3, <4>1
      <4>2. CASE ~(k <= i)
        <5>1. k - i \in 1 .. l /\ i + (k - i) = k
          BY <2>1, <2>3, <4>2
        <5>2. t[k - i] = b[k]
          BY <2>5, <5>1
        <5> QED
          BY <3>3, <4>2, <5>2
      <4> QED
        BY <4>1, <4>2
    <3> QED
      BY <3>1, <3>3, <3>4, SeqEqual
  <2>9. t # <<>>
    BY <2>3, <2>6
  <2>10. Copied' = i + l
    BY <1>2, <2>3, <2>9 DEF Copied, i
  <2> QED
    BY <1>1, <1>2, <2>1, <2>6, <2>8, <2>10 DEF PrefixWritten, i, b
<1> QED
  BY <1>2, <1>3, <1>4 DEF WriteInv

\* A character that is printed leaves buffer_kernel.
LEMMA PrintStep == ASSUME WriteInv, sys_write_console PROVE WriteInv'
<1> DEFINE b == call.buffer_kernel
           next == IF Len(b) = 1 THEN call.i + size_block ELSE call.i
<1>1. /\ b # <<>> /\ printed' = Append(printed, Head(b))
      /\ call' = [call EXCEPT !.buffer_kernel = Tail(b), !.i = next]
  BY DEF sys_write_console
<1>2. /\ DOMAIN call' = CallFields
      /\ call'.errno = call.errno /\ call'.buffer = call.buffer /\ call'.size = call.size
      /\ call'.i = next /\ call'.buffer_kernel = Tail(b)
  <2> HIDE DEF next, b
  <2> QED
    BY <1>1 DEF WriteInv, CallFields
<1>3. call # NO_CALL
  BY <1>1 DEF NO_CALL
<1>4. call' # NO_CALL /\ call'.size \in Nat
  BY <1>2, <1>3, Idle DEF WriteInv
<1>5. ASSUME call.errno = -1 PROVE PrefixWritten'
  <2>1. /\ call.buffer \in Seq(STRING) /\ call.size \in 0 .. Len(call.buffer)
        /\ call.i \in Nat /\ call.i < call.size
        /\ b \in Seq(STRING) /\ printed \in Seq(STRING)
        /\ printed \o b = SubSeq(call.buffer, 1, Copied)
    BY <1>1, <1>3, <1>5 DEF WriteInv, PrefixWritten
  <2>2. size_block \in Nat \ {0}
    BY ConsoleAssumption
  <2> HIDE DEF b
  <2>3. /\ Head(b) \in STRING /\ Tail(b) \in Seq(STRING)
        /\ Len(b) \in Nat \ {0} /\ Len(Tail(b)) = Len(b) - 1
        /\ \A k \in 1 .. Len(b) - 1 : Tail(b)[k] = b[k + 1]
        /\ Head(b) = b[1]
    BY <1>1, <2>1, HeadTailProperties
  <2>4. /\ Append(printed, Head(b)) \in Seq(STRING)
        /\ Append(printed, Head(b)) \o Tail(b) = printed \o b
    <3> DEFINE p == Append(printed, Head(b))
    <3>1. /\ p \in Seq(STRING) /\ Len(p) = Len(printed) + 1 /\ Len(printed) \in Nat
          /\ \A k \in 1 .. Len(printed) : p[k] = printed[k]
          /\ p[Len(printed) + 1] = b[1]
      BY <2>1, <2>3
    <3> HIDE DEF p
    <3>2. /\ p \o Tail(b) \in Seq(STRING)
          /\ Len(p \o Tail(b)) = Len(printed) + Len(b)
          /\ \A k \in 1 .. Len(printed) + Len(b) : (p \o Tail(b))[k] =
                IF k <= Len(printed) + 1 THEN p[k] ELSE Tail(b)[k - (Len(printed) + 1)]
      <4> DEFINE t == Tail(b)
      <4>1. t \in Seq(STRING) /\ Len(t) = Len(b) - 1 /\ Len(b) \in Nat
        BY <2>3
      <4> HIDE DEF t
      <4>2. /\ p \o t \in Seq(STRING) /\ Len(p \o t) = Len(p) + Len(t)
            /\ \A k \in 1 .. Len(p) + Len(t) :
                  (p \o t)[k] = IF k <= Len(p) THEN p[k] ELSE t[k - Len(p)]
        BY <3>1, <4>1, ConcatProperties
      <4>3. Len(p) + Len(t) = Len(printed) + Len(b)
        BY <3>1, <4>1
      <4> QED
        BY <3>1, <4>2, <4>3 DEF t
    <3>3. /\ printed \o b \in Seq(STRING)
          /\ Len(printed \o b) = Len(printed) + Len(b)
          /\ \A k \in 1 .. Len(printed) + Len(b) : (printed \o b)[k] =
                IF k <= Len(printed) THEN printed[k] ELSE b[k - Len(printed)]
      BY <2>1, ConcatProperties
    <3>4. ASSUME NEW k \in 1 .. Len(printed) + Len(b)
          PROVE  (p \o Tail(b))[k] = (printed \o b)[k]
      <4>1. CASE k <= Len(printed)
        BY <3>1, <3>2, <3>3, <4>1
      <4>2. CASE k = Len(printed) + 1
        BY <3>1, <3>2, <3>3, <4>2
      <4>3. CASE k > Len(printed) + 1
        <5>1. /\ k - (Len(printed) + 1) \in 1 .. Len(b) - 1
              /\ k - (Len(printed) + 1) + 1 = k - Len(printed)
              /\ ~(k <= Len(printed) + 1) /\ ~(k <= Len(printed))
          BY <2>3, <3>1, <4>3
        <5> QED
          BY <2>3, <3>2, <3>3, <5>1
      <4> QED
        BY <3>1, <4>1, <4>2, <4>3
    <3>5. p \o Tail(b) = printed \o b
      BY <3>2, <3>3, <3>4, SeqEqual
    <3> QED
      BY <3>1, <3>5 DEF p
  <2>5. Tail(b) = <<>> <=> Len(b) = 1
    <3>1. Tail(b) = <<>> => Len(Tail(b)) = 0
      BY EmptySeq
    <3>2. Tail(b) # <<>> => Len(Tail(b)) # 0
      BY <2>3, EmptySeq
    <3>3. Len(Tail(b)) = Len(b) - 1 /\ Len(b) \in Nat
      BY <2>3
    <3> QED
      BY <3>1, <3>2, <3>3
  <2>6. Copied' = Copied /\ next \in Nat /\ (Tail(b) # <<>> => next = call.i)
    <3> DEFINE end == call.i + size_block
    <3>1. /\ next \in Nat
          /\ Tail(b) = <<>> => next = end
          /\ Tail(b) # <<>> => next = call.i
      BY <2>1, <2>2, <2>5
    <3>2. Copied = IF end < call.size THEN end ELSE call.size
      BY <1>1 DEF Copied, b
    <3>3. Copied' = LET e == IF Tail(b) = <<>> THEN next ELSE next + size_block
                    IN  IF e < call.size THEN e ELSE call.size
      BY <1>2 DEF Copied
    <3> HIDE DEF next
    <3> QED
      BY <3>1, <3>2, <3>3
  <2> HIDE DEF next
  <2> QED
    BY <1>1, <1>2, <2>1, <2>3, <2>4, <2>6 DEF PrefixWritten
<1> QED
  BY <1>2, <1>4, <1>5 DEF WriteInv

LEMMA StartStep ==
    ASSUME WriteInv, NEW buffer, NEW size \in Nat, NEW errno, StartWrite(buffer, size, errno),
           errno = -1 => buffer \in Seq(STRING) /\ size <= Len(buffer)
    PROVE  WriteInv'
<1>1. /\ call = NO_CALL /\ printed' = printed /\ printed = <<>>
      /\ call' = [errno |-> errno, buffer |-> buffer, size |-> size, i |-> 0,
                  buffer_kernel |-> <<>>]
  BY DEF StartWrite, WriteInv
<1>2. /\ DOMAIN call' = CallFields
      /\ call'.errno = errno /\ call'.buffer = buffer /\ call'.size = size /\ call'.i = 0
      /\ call'.buffer_kernel = <<>>
  BY <1>1 DEF CallFields
<1>3. call' # NO_CALL /\ call'.size \in Nat
  BY <1>2, Idle
<1>4. ASSUME errno = -1 PROVE PrefixWritten'
  <2>1. buffer \in Seq(STRING) /\ size \in 0 .. Len(buffer)
    BY <1>4, LenProperties
  <2>2. <<>> \in Seq(STRING) /\ <<>> \o <<>> = SubSeq(buffer, 1, 0)
    BY <2>1
  <2>3. Copied' = 0
    BY <1>2 DEF Copied
  <2> QED
    BY <1>1, <1>2, <2>1, <2>2, <2>3 DEF PrefixWritten
<1> QED
  BY <1>2, <1>3, <1>4 DEF WriteInv

LEMMA WriteInvariant == ConsoleSpec => []WriteInv
<1>1. ConsoleInit => WriteInv
  BY Idle DEF ConsoleInit, WriteInv
<1>2. ASSUME WriteInv, [ConsoleNext]_consoleVars PROVE WriteInv'
  <2>1. CASE WriteError \/ WriteReturn
    <3>1. call' = NO_CALL /\ printed' = <<>>
      BY <2>1 DEF WriteError, WriteReturn, ReturnFromWrite
    <3> QED
      BY <3>1, Idle DEF WriteInv
  <2>2. CASE Write
    <3>1. PICK buffer \in UserText : \E size \in {Len(buffer), Len(buffer) - 1} :
                 size >= 0 /\ StartWrite(buffer, size, -1)
      BY <2>2 DEF Write
    <3>2. PICK size \in {Len(buffer), Len(buffer) - 1} :
                 size >= 0 /\ StartWrite(buffer, size, -1)
      BY <3>1
    <3>3. buffer \in Seq(STRING) /\ size \in Nat /\ size <= Len(buffer)
      BY <3>2, ConsoleAssumption, LenProperties
    <3> QED
      BY <1>2, <3>2, <3>3, StartStep
  <2>3. CASE perror
    <3>1. PICK errno \in Errnos : StartWrite(itoa(errno), 3, errno)
      BY <2>3 DEF perror
    <3>2. errno # -1
      BY ConsoleAssumption
    <3> QED
      BY <1>2, <3>1, <3>2, StartStep
  <2>4. CASE WriteBlock
    BY <1>2, <2>4, BlockStep
  <2>5. CASE sys_write_console
    BY <1>2, <2>5, PrintStep
  <2>6. CASE UNCHANGED <<call, printed>>
    BY <1>2, <2>6 DEF WriteInv, PrefixWritten, Copied
  <2> QED
    BY <1>2, <2>1, <2>2, <2>3, <2>4, <2>5, <2>6 DEF ConsoleNext, consoleVars, ShowClock
<1> QED
  BY <1>1, <1>2, PTL DEF ConsoleSpec

\* sys_write copies its buffer block by block and prints each block whole: the
\* text comes out once, in order, and no more of it than size.
THEOREM TextIsWrittenExactly == ConsoleSpec => []WritesExactly
<1>1. ASSUME WriteInv PROVE WritesExactly
  <2> SUFFICES ASSUME call # NO_CALL, call.i >= call.size, call.errno = -1
               PROVE  printed = SubSeq(call.buffer, 1, call.size)
    BY DEF WritesExactly
  <2>1. PrefixWritten
    BY <1>1 DEF WriteInv
  <2>2. call.buffer_kernel = <<>>
    BY <2>1 DEF PrefixWritten
  <2>3. Copied = call.size
    BY <2>1, <2>2 DEF Copied, PrefixWritten
  <2> QED
    BY <2>1, <2>2, <2>3, ConcatEmptySeq DEF PrefixWritten
<1> QED
  BY <1>1, WriteInvariant, PTL
=============================================================================
