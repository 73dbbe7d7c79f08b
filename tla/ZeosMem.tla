------------------------------- MODULE ZeosMem -------------------------------
(***************************************************************************)
(* Memory management of ZeOS (mm.c, allocate_DIR of sched.c, and what      *)
(* sys_fork, sys_clone, sys_exit and sys_sbrk do to the address spaces).   *)
(* Directory n has one page table, pagusr_table[n]; tasks made by clone    *)
(* share one, and dir_counter[n] counts them.  Interrupts are masked in    *)
(* the kernel, so each call is one step of the task that runs, which can   *)
(* be any live one.  What is in the pages, and the supervisor and write    *)
(* permissions of the entries, are left out.                               *)
(***************************************************************************)
EXTENDS Integers, FiniteSets, Functions

CONSTANTS
    NR_TASKS,        \* PCBs, and page directories (10)
    TOTAL_PAGES,     \* entries of a page table, and physical frames (1024)
    NUM_PAG_KERNEL,  \* pages and frames of the kernel (256)
    NUM_PAG_CODE,    \* pages of user code (8)
    NUM_PAG_DATA,    \* pages of user data and stack (20)
    PAGE_SIZE,       \* bytes of a page (4096)
    Increments,      \* positive arguments of sbrk
    Decrements,      \* absolute values of its negative arguments
    MaxUncounted     \* bound: forks that programs make without a free directory

PAG_LOG_INIT_CODE == NUM_PAG_KERNEL
PAG_LOG_INIT_DATA == PAG_LOG_INIT_CODE + NUM_PAG_CODE
PAG_LOG_INIT_HEAP == PAG_LOG_INIT_DATA + NUM_PAG_DATA

ASSUME MemAssumption ==
    /\ NR_TASKS \in Nat /\ NR_TASKS >= 3
    /\ NUM_PAG_KERNEL \in Nat /\ NUM_PAG_KERNEL >= 2
    /\ NUM_PAG_CODE \in Nat \ {0}
    /\ NUM_PAG_DATA \in Nat \ {0}
    /\ PAGE_SIZE \in Nat \ {0}
    \* set_user_pages does not ask whether alloc_frame succeeds.
    /\ TOTAL_PAGES \in Nat
    /\ TOTAL_PAGES >= PAG_LOG_INIT_CODE + 2 * (NUM_PAG_CODE + NUM_PAG_DATA)
    /\ Increments \subseteq Nat \ {0}
    /\ Decrements \subseteq Nat \ {0}
    /\ MaxUncounted \in Nat

Task      == 0 .. NR_TASKS - 1
idle_task == 0
task1     == 1
Slot      == 0 .. NR_TASKS - 1      \* indices of dir_pages and pagusr_table
Page      == 0 .. TOTAL_PAGES - 1
Frame     == 0 .. TOTAL_PAGES - 1
Pages(first, count) == first .. first + count - 1

\* A page table entry that is 0.
NotPresent == -1

VARIABLES
    phys_mem,          \* the frames marked USED_FRAME
    pagusr_table,      \* pagusr_table[n]: the frame of each logical page
    dir_counter,       \* tasks that use directory n
    programbreak_table,\* end of the heap in directory n, 0 if never set
    dir,               \* task_struct.dir_pages_baseAddr, pos_in_dir_counter
    alive,             \* the tasks the scheduler can run
    free_pcbs,         \* the PCBs on freequeue
    stale,             \* pages of which the TLB may still hold a translation that
                       \* is no longer in the table: that a switch to another
                       \* directory empties it too is not counted on
    halted,            \* the machine has stopped: a fault in kernel or user
                       \* code, or page tables overwritten out of bounds
    uncounted_forks,   \* history: forks that found no free directory
    eax                \* what the last call returned

memVars == <<phys_mem, pagusr_table, dir_counter, programbreak_table, dir>>
vars    == <<memVars, alive, free_pcbs, stale, halted, uncounted_forks, eax>>

EAGAIN == 11
ENOMEM == 12
NO_RETURN == -1000

----------------------------------------------------------------------------
(* Frames.                                                                 *)

\* The frames that alloc_frame looks at: every second one.
Allocatable == {f \in Frame : f >= NUM_PAG_KERNEL /\ (f - NUM_PAG_KERNEL) % 2 = 0}
FreeFrames  == Allocatable \ phys_mem

\* What n calls of alloc_frame return, the lowest free frames in their order;
\* empty if one of the calls would fail.
AllocFrames(n) ==
    {g \in [0 .. n - 1 -> FreeFrames] :
        /\ \A i, j \in 0 .. n - 1 : i < j => g[i] < g[j]
        /\ \A f \in FreeFrames : f \in Range(g) \/ \A i \in 0 .. n - 1 : g[i] < f}

\* free_frame on each of them.
Freed(frames) == {f \in frames : f > NUM_PAG_KERNEL /\ f < TOTAL_PAGES}

\* The frames that were taken before alloc_frame failed are freed again.  The
\* fault: all but the last one.
RolledBack_fault == (phys_mem \cup FreeFrames)
                       \ {f \in Freed(FreeFrames) : \E g \in FreeFrames : f < g}
RolledBack       == (phys_mem \cup FreeFrames) \ Freed(FreeFrames)

----------------------------------------------------------------------------
(* Page tables.                                                            *)
get_frame(pt, page) == IF pt[page] = NotPresent THEN 0 ELSE pt[page]
FramesOf(pt, pages) == {get_frame(pt, p) : p \in pages}

\* set_ss_pag(pt, first + i, frames[i]) for each i, and del_ss_pag.
Mapped(pt, first, frames) ==
    [p \in Page |-> IF p - first \in DOMAIN frames THEN frames[p - first] ELSE pt[p]]
Unmapped(pt, pages) == [p \in Page |-> IF p \in pages THEN NotPresent ELSE pt[p]]

\* allocate_DIR(t): the first directory nobody uses.  If there is none, the
\* task keeps the one it has, and that is not counted.
FreeDirs == {n \in Slot : dir_counter[n] = 0}
FirstDir == CHOOSE n \in FreeDirs : \A m \in FreeDirs : n <= m
NewDir(t) == IF FreeDirs = {} THEN dir[t] ELSE FirstDir
DirTaken  == [n \in Slot |-> IF FreeDirs # {} /\ n = FirstDir THEN 1 ELSE dir_counter[n]]

DataPages    == Pages(PAG_LOG_INIT_DATA, NUM_PAG_DATA)
PrivatePages == PAG_LOG_INIT_DATA .. TOTAL_PAGES - 1
\* The code takes the first PCB of freequeue; which one it is does not matter
\* here.
NextPCB      == CHOOSE t \in free_pcbs : \A u \in free_pcbs : t <= u
Users(n)     == {t \in alive : dir[t] = n}
Break(t)     == programbreak_table[dir[t]]

\* User code can run: its data and its stack are there.
CanRun(t) ==
    /\ ~halted
    /\ t \in alive \ {idle_task}
    /\ \A p \in DataPages : pagusr_table[dir[t]][p] # NotPresent

Halt == halted' = TRUE /\ eax' = NO_RETURN
            /\ UNCHANGED <<memVars, alive, free_pcbs, stale, uncounted_forks>>

\* The pages of t's directory that a call maps elsewhere or unmaps: the TLB
\* does not hold what was not present.
Remapped(t) ==
    {p \in Page : /\ pagusr_table[dir[t]][p] # NotPresent
                  /\ pagusr_table'[dir[t]][p] # pagusr_table[dir[t]][p]}

\* Writing cr3 empties the TLB.  The fault: what the call has touched stays.
set_cr3_fault(touched) == stale' = stale \cup touched
set_cr3(touched)       == stale' = {}

----------------------------------------------------------------------------
(* fork.                                                                   *)

\* Data and heap pages to copy.  The fault: the heap is left shared.
PagesToCopy_fault(t) == NUM_PAG_DATA
PagesToCopy(t) ==
    NUM_PAG_DATA + (Break(t) - 1) \div PAGE_SIZE - PAG_LOG_INIT_HEAP + 1

\* The child's table after the loops over code, kernel and heap, which make
\* it share the parent's frames.  An entry of the parent that is 0 becomes
\* one that is present, with frame 0.
Inherited(t) ==
    LET parent == pagusr_table[dir[t]] IN
    [p \in Page |->
        IF \/ p < NUM_PAG_KERNEL
           \/ p \in Pages(PAG_LOG_INIT_CODE, NUM_PAG_CODE)
           \/ p \in PAG_LOG_INIT_HEAP .. (Break(t) - 1) \div PAGE_SIZE
        THEN get_frame(parent, p) ELSE pagusr_table[NewDir(t)][p]]

\* fork when frames are missing.  The child's PCB and directory stay taken.
ForkOutOfMemory(t, child) ==
    /\ AllocFrames(PagesToCopy(t)) = {}
    /\ phys_mem' = RolledBack
    /\ pagusr_table' = [pagusr_table EXCEPT ![NewDir(t)] = Inherited(t)]
    /\ eax' = -ENOMEM
    /\ UNCHANGED <<alive, halted, stale>>

\* Where the parent maps the n new frames for the copy: above its heap ("sino
\* se les carrega").  The fault: right above its data.
TemporaryPages_fault(n) == Pages(PAG_LOG_INIT_DATA + NUM_PAG_DATA, n)
TemporaryPages(n)       == Pages(PAG_LOG_INIT_DATA + n, n)

\* Each new frame is mapped in the child, and for the copy also in the parent.
\* The copy faults if the parent lacks the page.
CopyPages(t, child) ==
    /\ \E frames \in AllocFrames(PagesToCopy(t)) :
          LET n     == PagesToCopy(t)
              table == Mapped(Inherited(t), PAG_LOG_INIT_DATA, frames)
              extra == TemporaryPages(n)
          IN
          /\ phys_mem' = phys_mem \cup Range(frames)
          /\ pagusr_table' =
               [[pagusr_table EXCEPT ![NewDir(t)] = table]
                  EXCEPT ![dir[t]] = Unmapped(@, extra)]
          /\ halted' = \E p \in Pages(PAG_LOG_INIT_DATA, n) :
                          /\ dir[t] # NewDir(t)
                          /\ pagusr_table[dir[t]][p] = NotPresent
          /\ set_cr3(extra)
    /\ alive' = alive \cup {child}
    /\ eax' = child

\* No break has been set in the parent's directory: the loop over its heap
\* runs up to page (unsigned)(0 - 1) >> 12 and writes out of the table.
ForkOutOfBounds(t) == Break(t) = 0 /\ Halt

sys_fork(t, child) ==
    /\ CanRun(t)
    /\ Break(t) # 0
    /\ free_pcbs' = free_pcbs \ {child}
    /\ dir' = [dir EXCEPT ![child] = NewDir(t)]
    /\ dir_counter' = DirTaken
    /\ uncounted_forks' = uncounted_forks + IF FreeDirs = {} THEN 1 ELSE 0
    /\ uncounted_forks' <= MaxUncounted
    /\ ForkOutOfMemory(t, child) \/ CopyPages(t, child)
    /\ UNCHANGED programbreak_table

\* fork or clone without a free PCB.
NoPCB(t) ==
    /\ CanRun(t)
    /\ free_pcbs = {}
    /\ eax' = -EAGAIN
    /\ UNCHANGED <<memVars, alive, free_pcbs, stale, halted, uncounted_forks>>

----------------------------------------------------------------------------
(* clone and exit.                                                         *)

\* The fault: the new user of the directory is not counted.
Counted_fault(n) == dir_counter
Counted(n)       == [dir_counter EXCEPT ![n] = @ + 1]

sys_clone(t, child) ==
    /\ CanRun(t)
    /\ dir' = [dir EXCEPT ![child] = dir[t]]
    /\ dir_counter' = Counted(dir[t])
    /\ alive' = alive \cup {child}
    /\ free_pcbs' = free_pcbs \ {child}
    /\ eax' = child
    /\ UNCHANGED <<phys_mem, pagusr_table, programbreak_table, stale, halted, uncounted_forks>>

\* free_user_pages frees the data, and the heap up to the page of the break.
UserPages(t) == DataPages \cup (PAG_LOG_INIT_HEAP .. Break(t) \div PAGE_SIZE)

sys_exit(t) ==
    /\ CanRun(t)
    /\ dir_counter' = [dir_counter EXCEPT ![dir[t]] = @ - 1]
    /\ \/ /\ dir_counter'[dir[t]] # 0
          /\ UNCHANGED <<phys_mem, pagusr_table>>
       \/ /\ dir_counter'[dir[t]] = 0
          /\ phys_mem' = phys_mem \ Freed(FramesOf(pagusr_table[dir[t]], UserPages(t)))
          /\ pagusr_table' = [pagusr_table EXCEPT ![dir[t]] = Unmapped(@, UserPages(t))]
    \* task_switch loads cr3 unless the next task has the same directory.
    /\ stale' \in {{}} \cup {stale \cup Remapped(t) : u \in Users(dir[t]) \ {t}}
    /\ alive' = alive \ {t}
    /\ free_pcbs' = free_pcbs \cup {t}
    /\ eax' = NO_RETURN
    /\ UNCHANGED <<programbreak_table, dir, halted, uncounted_forks>>

----------------------------------------------------------------------------
(* sbrk.                                                                   *)
Aligned(address) == address % PAGE_SIZE = 0
\* The first page whose bytes are all at or above address.
PageAbove(address) ==
    address \div PAGE_SIZE + IF Aligned(address) THEN 0 ELSE 1

OutOfHeap(address) ==
    address \div PAGE_SIZE < PAG_LOG_INIT_HEAP \/ address \div PAGE_SIZE > TOTAL_PAGES

\* Moves the break; returns where it was.
SetBreak(t, address) ==
    /\ programbreak_table' = [programbreak_table EXCEPT ![dir[t]] = address]
    /\ eax' = Break(t)

sbrkVars == <<dir_counter, dir, alive, free_pcbs, uncounted_forks>>

Grow(t, increment) ==
    LET end   == Break(t) + increment
        first == PageAbove(Break(t))
        n     == PageAbove(end) - first
    IN
    /\ CanRun(t)
    /\ \/ /\ OutOfHeap(end) \/ AllocFrames(n) = {}
          /\ phys_mem' = IF OutOfHeap(end) THEN phys_mem ELSE RolledBack
          /\ eax' = -ENOMEM
          /\ UNCHANGED <<pagusr_table, programbreak_table, stale, halted>>
       \/ /\ ~OutOfHeap(end)
          \* From a break that was never set it takes kernel entries.
          /\ first >= PAG_LOG_INIT_HEAP
          /\ \E frames \in AllocFrames(n) :
                /\ phys_mem' = phys_mem \cup Range(frames)
                /\ pagusr_table' = [pagusr_table EXCEPT ![dir[t]] = Mapped(@, first, frames)]
          \* cr3 is not written: only an entry that was 0 is safe to fill.
          /\ stale' = stale \cup Remapped(t)
          /\ SetBreak(t, end)
          /\ UNCHANGED halted
    /\ UNCHANGED sbrkVars

\* increment = 0
AskBreak(t) ==
    /\ CanRun(t)
    /\ \/ /\ OutOfHeap(Break(t))
          /\ eax' = -ENOMEM
          /\ UNCHANGED programbreak_table
       \/ /\ ~OutOfHeap(Break(t))
          /\ SetBreak(t, Break(t))
    /\ UNCHANGED <<phys_mem, pagusr_table, sbrkVars, stale, halted>>

\* Page by page down from the old break; the page of a new break at its
\* start goes too.  The fault: it goes wherever the break is in it.
ReleasedPages_fault(t, end) == (end \div PAGE_SIZE) .. (Break(t) \div PAGE_SIZE)
ReleasedPages(t, end) ==
    LET old == Break(t) \div PAGE_SIZE
        new == IF end \div PAGE_SIZE < PAG_LOG_INIT_HEAP THEN PAG_LOG_INIT_HEAP
                                                         ELSE end \div PAGE_SIZE
    IN (new + 1 .. old) \cup IF Aligned(end) THEN {new} ELSE {}

\* The fault: the new break is not clamped.
ShrunkBreak_fault(end) == end
ShrunkBreak(end) ==
    IF end \div PAGE_SIZE < PAG_LOG_INIT_HEAP THEN PAG_LOG_INIT_HEAP * PAGE_SIZE
                                              ELSE end

Shrink(t, decrement) ==
    LET end == Break(t) - decrement IN
    /\ CanRun(t)
    /\ end >= 0
    /\ phys_mem' = phys_mem \ Freed(FramesOf(pagusr_table[dir[t]], ReleasedPages(t, end)))
    /\ pagusr_table' = [pagusr_table EXCEPT ![dir[t]] = Unmapped(@, ReleasedPages(t, end))]
    /\ set_cr3(Remapped(t))
    /\ SetBreak(t, ShrunkBreak(end))
    /\ UNCHANGED <<sbrkVars, halted>>

\* A break below address 0 is a huge unsigned page number, and the loop that
\* releases pages runs below the table; a break that was never set grows
\* over the kernel's entries.
SbrkOutOfBounds(t) ==
    /\ CanRun(t)
    /\ \/ \E decrement \in Decrements : Break(t) < decrement
       \/ \E increment \in Increments :
             LET end == Break(t) + increment IN
             /\ ~OutOfHeap(end)
             /\ PageAbove(Break(t)) < PAG_LOG_INIT_HEAP
             /\ AllocFrames(PageAbove(end) - PageAbove(Break(t))) # {}
    /\ Halt

\* Whoever runs without data pages faults.
UserFault(t) ==
    /\ ~halted
    /\ t \in alive \ {idle_task}
    /\ ~CanRun(t)
    /\ Halt

----------------------------------------------------------------------------
\* init_mm takes directory 0 for task[0], init_idle one more for the same
\* PCB, init_task1 the third; set_user_pages allocates code and data.
BootFrame(i) == NUM_PAG_KERNEL + 2 * i
KernelTable  == [p \in Page |-> IF p \in 1 .. NUM_PAG_KERNEL - 1 THEN p ELSE NotPresent]

Init ==
    /\ phys_mem = (0 .. NUM_PAG_KERNEL - 1)
                    \cup {BootFrame(i) : i \in 0 .. NUM_PAG_CODE + NUM_PAG_DATA - 1}
    /\ pagusr_table =
         [n \in Slot |->
            IF n = 2 THEN [p \in Page |->
                             IF p \in Pages(PAG_LOG_INIT_CODE, NUM_PAG_CODE + NUM_PAG_DATA)
                             THEN BootFrame(p - PAG_LOG_INIT_CODE) ELSE KernelTable[p]]
                     ELSE KernelTable]
    /\ dir_counter = [n \in Slot |-> IF n <= 2 THEN 1 ELSE 0]
    /\ programbreak_table =
         [n \in Slot |-> IF n = 2 THEN PAG_LOG_INIT_HEAP * PAGE_SIZE ELSE 0]
    /\ dir = [t \in Task |-> IF t = idle_task THEN 1 ELSE IF t = task1 THEN 2 ELSE 0]
    /\ alive = {idle_task, task1}
    /\ free_pcbs = Task \ {idle_task, task1}
    /\ stale = {}
    /\ halted = FALSE
    /\ uncounted_forks = 0
    /\ eax = NO_RETURN

Fork  == free_pcbs # {} /\ \E t \in Task : sys_fork(t, NextPCB)
BadFork == \E t \in Task : CanRun(t) /\ free_pcbs # {} /\ ForkOutOfBounds(t)
Clone == free_pcbs # {} /\ \E t \in Task : sys_clone(t, NextPCB)
Exit  == \E t \in Task : sys_exit(t)
Sbrk  == \E t \in Task :
            \/ \E increment \in Increments : Grow(t, increment)
            \/ AskBreak(t)
            \/ \E decrement \in Decrements : Shrink(t, decrement)
            \/ SbrkOutOfBounds(t)

Next == Fork \/ BadFork \/ Clone \/ (\E t \in Task : NoPCB(t)) \/ Exit \/ Sbrk
          \/ (\E t \in Task : UserFault(t))

Spec == Init /\ [][Next]_vars

----------------------------------------------------------------------------
TypeOK ==
    /\ phys_mem \subseteq Frame
    /\ pagusr_table \in [Slot -> [Page -> Frame \cup {NotPresent}]]
    /\ dir_counter \in [Slot -> Int]
    /\ \A n \in Slot :
          programbreak_table[n] \in
             {0} \cup PAG_LOG_INIT_HEAP * PAGE_SIZE .. TOTAL_PAGES * PAGE_SIZE
    /\ dir \in [Task -> Slot]
    /\ alive \subseteq Task /\ free_pcbs \subseteq Task \ alive
    /\ stale \subseteq Page
    /\ halted \in BOOLEAN /\ uncounted_forks \in 0 .. MaxUncounted
    /\ eax \in Int

InUse == {n \in Slot : Users(n) # {}}

\* No frame of data, stack or heap is free, belongs to the kernel, or is
\* mapped a second time, in the same or in another address space in use:
\* after any fork, clone, exit and sbrk a process writes only to its own.
PrivateFrames ==
    \A n, m \in InUse : \A p \in PrivatePages, q \in PAG_LOG_INIT_CODE .. TOTAL_PAGES - 1 :
        pagusr_table[n][p] # NotPresent =>
            /\ pagusr_table[n][p] \in phys_mem \ (0 .. NUM_PAG_KERNEL - 1)
            /\ pagusr_table[n][p] = pagusr_table[m][q] => n = m /\ p = q

\* As long as every fork found a directory, the counters are right: the last
\* thread of an address space, and nobody earlier, frees it (sys_exit), and
\* no directory in use is given away (allocate_DIR).
SharersCounted ==
    uncounted_forks = 0 => \A n \in InUse : dir_counter[n] = Cardinality(Users(n))

\* Every page below the break is mapped, whatever sequence of growing and
\* shrinking sbrk calls, across and inside pages, led there.
HeapBacked ==
    uncounted_forks = 0 => \A n \in InUse : \A p \in PAG_LOG_INIT_HEAP .. TOTAL_PAGES - 1 :
        p * PAGE_SIZE < programbreak_table[n] => pagusr_table[n][p] # NotPresent

\* No call takes a page away from a process or puts another one in its place:
\* an address space in use keeps its translations up to the break, as far as
\* the call leaves the break there, whoever forks (the temporary pages of
\* sys.c:117), exits (free_user_pages, with threads that share the directory)
\* or calls sbrk.
Held(n) ==
    {p \in Page : p < PAG_LOG_INIT_HEAP \/ p * PAGE_SIZE < programbreak_table[n]}
PagesStay ==
    [][uncounted_forks' = 0 =>
          \A n \in InUse \cap InUse' : \A p \in Held(n) \cap Held(n)' :
              pagusr_table'[n][p] = pagusr_table[n][p]]_vars

\* User code never goes on with a translation that fork or sbrk has replaced
\* or removed, except in the first page of the heap: when sbrk has shrunk the
\* heap to nothing and left that page mapped, the next growing sbrk maps
\* another frame over it without a flush (sys.c:401, 420).
TLBFresh ==
    uncounted_forks = 0 => stale \subseteq {PAG_LOG_INIT_HEAP}

\* A fork or an sbrk that fails half way has taken no frame and changed no
\* address space in use.
FailureIsUndone ==
    [][eax' = -ENOMEM /\ uncounted_forks' = 0 =>
          /\ phys_mem' = phys_mem
          /\ programbreak_table' = programbreak_table
          /\ \A n \in InUse : pagusr_table'[n] = pagusr_table[n]]_vars
=============================================================================
