------------------------------- MODULE MemProofs -------------------------------
(***************************************************************************)
(* Proofs about memory management: the counters of the page directories,   *)
(* the roll-back of a fork or an sbrk that runs out of frames, and the     *)
(* address spaces themselves, that is frames that belong to one page, a    *)
(* heap without holes and a TLB without stale translations.                *)
(***************************************************************************)
EXTENDS ZeosMem, FiniteSetTheorems, WellFoundedInduction, TLAPS

\* A set of naturals has a least element: what the searches of allocate_DIR
\* and of freequeue find.
LEMMA LeastExists ==
    ASSUME NEW S \in SUBSET Nat, S # {}
    PROVE  \E n \in S : \A m \in S : n <= m
<1> DEFINE R == {ss \in Nat \X Nat : ss[1] < ss[2]}
<1>1. IsWellFoundedOn(R, Nat)
  BY NatLessThanWellFounded DEF OpToRel
<1> HIDE DEF R
<1>2. PICK n \in S : \A m \in S : ~(<<m, n>> \in R)
  <2>1. S \subseteq Nat
    OBVIOUS
  <2> QED
    BY <1>1, <2>1, WFMin, Zenon
<1>3. ASSUME NEW m \in S PROVE n <= m
  <2>1. m \in Nat /\ n \in Nat
    OBVIOUS
  <2>2. <<m, n>> \notin R
    BY <1>2
  <2>3. ~(m < n)
    BY <2>1, <2>2 DEF R
  <2> QED
    BY <2>1, <2>3
<1> QED
  BY <1>3

LEMMA Slots ==
    /\ Task \subseteq Nat /\ Slot \subseteq Nat /\ Task = Slot
    /\ 0 \in Task /\ 1 \in Task /\ 2 \in Slot
    /\ IsFiniteSet(Task)
BY MemAssumption, FS_Interval DEF Task, Slot

LEMMA FirstDirFree ==
    ASSUME FreeDirs # {} PROVE FirstDir \in FreeDirs
BY LeastExists, Slots DEF FirstDir, FreeDirs

LEMMA NextPCBFree ==
    ASSUME free_pcbs # {}, free_pcbs \subseteq Task PROVE NextPCB \in free_pcbs
BY LeastExists, Slots DEF NextPCB

----------------------------------------------------------------------------
(* What the counters depend on.  NUM_PAG_KERNEL, the first frame that      *)
(* alloc_frame can give, was given to the code of task1 at boot and is the *)
(* one that free_frame refuses: were it ever free, a failed call would     *)
(* lose it (RolledBack).                                                   *)
TaskTypes ==
    /\ dir \in [Task -> Slot]
    /\ alive \subseteq Task /\ free_pcbs \subseteq Task \ alive
    /\ dir_counter \in [Slot -> Int]

CountInv ==
    /\ TaskTypes
    /\ uncounted_forks \in Nat
    /\ programbreak_table \in [Slot -> Nat]
    /\ NUM_PAG_KERNEL \in phys_mem
    /\ SharersCounted

\* The counter of directory n, if tasks use it, is their number.
RightCount(n) == Users(n) # {} => dir_counter[n] = Cardinality(Users(n))

LEMMA UsersFinite ==
    ASSUME alive \subseteq Task, NEW n
    PROVE  IsFiniteSet(Users(n)) /\ Users(n) \subseteq Task
BY Slots, FS_Subset DEF Users

\* A directory that the code takes for free has no user.
LEMMA FreeDirUnused ==
    ASSUME CountInv, uncounted_forks = 0, NEW n \in FreeDirs
    PROVE  Users(n) = {}
<1>1. n \in Slot /\ dir_counter[n] = 0 /\ IsFiniteSet(Users(n))
  BY UsersFinite DEF FreeDirs, CountInv, TaskTypes
<1>2. ASSUME Users(n) # {} PROVE FALSE
  <2>1. Cardinality(Users(n)) = 0
    BY <1>1, <1>2 DEF CountInv, SharersCounted, InUse
  <2> QED
    BY <1>1, <1>2, <2>1, FS_EmptySet
<1> QED
  BY <1>2

LEMMA BreakOK ==
    ASSUME CountInv, NEW t \in Task PROVE Break(t) \in Nat
BY DEF CountInv, TaskTypes, Break

\* The frames that a failed call has taken are exactly those it frees.
LEMMA RolledBackAll ==
    ASSUME NUM_PAG_KERNEL \in phys_mem PROVE RolledBack = phys_mem
<1>1. ASSUME NEW f \in FreeFrames PROVE f > NUM_PAG_KERNEL /\ f < TOTAL_PAGES
  BY MemAssumption DEF FreeFrames, Allocatable, Frame
<1>2. Freed(FreeFrames) = FreeFrames
  BY <1>1 DEF Freed
<1>3. FreeFrames \cap phys_mem = {}
  BY DEF FreeFrames
<1> QED
  BY <1>2, <1>3 DEF RolledBack

\* Frames are taken, or some frames other than the first one are freed.
LEMMA FirstFrameKept ==
    ASSUME NUM_PAG_KERNEL \in phys_mem, NEW frames
    PROVE  NUM_PAG_KERNEL \in phys_mem \ Freed(frames)
BY MemAssumption DEF Freed

\* A step that leaves tasks and counters alone.
LEMMA CountKept ==
    ASSUME CountInv, UNCHANGED <<dir, alive, free_pcbs, dir_counter, uncounted_forks>>,
           programbreak_table' \in [Slot -> Nat], NUM_PAG_KERNEL \in phys_mem'
    PROVE  CountInv'
BY DEF CountInv, TaskTypes, SharersCounted, InUse, Users

\* The parts of the invariant that one task's new break disturbs.
LEMMA BreakMoved ==
    ASSUME CountInv, NEW t \in Task, NEW address \in Nat, SetBreak(t, address)
    PROVE  programbreak_table' \in [Slot -> Nat] /\ eax' \in Nat
BY BreakOK DEF CountInv, SetBreak

LEMMA CountSbrk == ASSUME CountInv, Sbrk PROVE CountInv'
<1>1. PICK t \in Task :
         \/ \E increment \in Increments : Grow(t, increment)
         \/ AskBreak(t)
         \/ \E decrement \in Decrements : Shrink(t, decrement)
         \/ SbrkOutOfBounds(t)
  BY DEF Sbrk
<1>2. Break(t) \in Nat /\ NUM_PAG_KERNEL \in phys_mem /\ programbreak_table \in [Slot -> Nat]
  BY BreakOK DEF CountInv
<1>3. ASSUME NEW increment \in Increments, Grow(t, increment) PROVE CountInv'
  <2>1. Break(t) + increment \in Nat
    BY <1>2, MemAssumption
  <2>2. \/ programbreak_table' = programbreak_table
        \/ SetBreak(t, Break(t) + increment)
    BY <1>3 DEF Grow
  <2>3. \/ phys_mem' = phys_mem \/ phys_mem' = RolledBack
        \/ \E frames : phys_mem' = phys_mem \cup frames
    BY <1>3 DEF Grow
  <2>4. programbreak_table' \in [Slot -> Nat]
    BY <1>2, <2>1, <2>2, BreakMoved
  <2>5. NUM_PAG_KERNEL \in phys_mem'
    BY <1>2, <2>3, RolledBackAll
  <2> QED
    BY <1>3, <2>4, <2>5, CountKept DEF Grow, sbrkVars
<1>4. CASE AskBreak(t)
  <2>1. programbreak_table' \in [Slot -> Nat]
    BY <1>2, <1>4, BreakMoved DEF AskBreak
  <2> QED
    BY <1>2, <1>4, <2>1, CountKept DEF AskBreak, sbrkVars
<1>5. ASSUME NEW decrement \in Decrements, Shrink(t, decrement) PROVE CountInv'
  <2>1. Break(t) - decrement \in Nat
    BY <1>2, <1>5, MemAssumption DEF Shrink
  <2>2. PAG_LOG_INIT_HEAP * PAGE_SIZE \in Nat
    BY MemAssumption DEF PAG_LOG_INIT_HEAP, PAG_LOG_INIT_DATA, PAG_LOG_INIT_CODE
  <2>3. ShrunkBreak(Break(t) - decrement) \in Nat
    BY <2>1, <2>2 DEF ShrunkBreak
  <2>4. programbreak_table' \in [Slot -> Nat]
    BY <1>5, <2>3, BreakMoved DEF Shrink
  <2>5. NUM_PAG_KERNEL \in phys_mem'
    BY <1>2, <1>5, FirstFrameKept DEF Shrink
  <2> QED
    BY <1>5, <2>4, <2>5, CountKept DEF Shrink, sbrkVars
<1>6. CASE SbrkOutOfBounds(t)
  BY <1>2, <1>6, CountKept DEF SbrkOutOfBounds, Halt, memVars
<1> QED
  BY <1>1, <1>3, <1>4, <1>5, <1>6

\* What fork, clone and exit do to the tasks and counters.  In a fork that
\* finds a directory the child is, if it is made, its only user.
LEMMA ForkTasks ==
    ASSUME TaskTypes, NEW t \in Task, free_pcbs # {}, sys_fork(t, NextPCB)
    PROVE  /\ NextPCB \in Task \ alive /\ t \in alive /\ NewDir(t) \in Slot
           /\ dir' = [dir EXCEPT ![NextPCB] = NewDir(t)]
           /\ dir_counter' = DirTaken
           /\ alive' = alive \/ alive' = alive \cup {NextPCB}
           /\ \A u \in alive : dir'[u] = dir[u]
           /\ dir'[NextPCB] = NewDir(t)
           /\ TaskTypes'
<1> DEFINE c == NextPCB
<1>1. c \in free_pcbs /\ c \in Task /\ c \notin alive /\ t \in alive
  BY NextPCBFree DEF TaskTypes, sys_fork, CanRun
<1>2. /\ free_pcbs' = free_pcbs \ {c}
      /\ dir' = [dir EXCEPT ![c] = NewDir(t)]
      /\ dir_counter' = DirTaken
      /\ alive' = alive \/ alive' = alive \cup {c}
  BY DEF sys_fork, ForkOutOfMemory, CopyPages
<1> HIDE DEF c
<1>3. NewDir(t) \in Slot
  BY <1>1, FirstDirFree DEF NewDir, FreeDirs, TaskTypes
<1>4. TaskTypes'
  BY <1>1, <1>2, <1>3 DEF TaskTypes, DirTaken
<1>5. (\A u \in alive : dir'[u] = dir[u]) /\ dir'[c] = NewDir(t)
  BY <1>1, <1>2 DEF TaskTypes
<1> QED
  BY <1>1, <1>2, <1>3, <1>4, <1>5 DEF c

LEMMA ForkCounts ==
    ASSUME TaskTypes, NEW t \in Task, free_pcbs # {}, sys_fork(t, NextPCB),
           NEW n \in Slot, RightCount(n),
           FreeDirs = {} => n # dir[t],
           FreeDirs # {} => Users(FirstDir) = {}
    PROVE  RightCount(n)'
<1> DEFINE c == NextPCB
<1>1. /\ c \notin alive /\ dir_counter' = DirTaken
      /\ alive' = alive \/ alive' = alive \cup {c}
      /\ \A u \in alive : dir'[u] = dir[u]
      /\ dir'[c] = NewDir(t)
  BY ForkTasks
<1> HIDE DEF c
<1> SUFFICES ASSUME Users(n)' # {} PROVE dir_counter'[n] = Cardinality(Users(n)')
  BY DEF RightCount
<1>2. CASE FreeDirs # {} /\ n = FirstDir
  <2>1. Users(n)' = {c}
    BY <1>1, <1>2 DEF Users
  <2>2. dir_counter'[n] = 1
    BY <1>1, <1>2 DEF DirTaken
  <2> QED
    BY <2>1, <2>2, FS_Singleton
<1>3. CASE ~(FreeDirs # {} /\ n = FirstDir)
  <2>1. n # NewDir(t)
    BY <1>3 DEF NewDir
  <2>2. Users(n)' = Users(n)
    BY <1>1, <2>1 DEF Users
  <2>3. dir_counter'[n] = dir_counter[n]
    BY <1>1, <1>3 DEF DirTaken
  <2> QED
    BY <2>2, <2>3 DEF RightCount
<1> QED
  BY <1>2, <1>3

LEMMA CloneTasks ==
    ASSUME TaskTypes, NEW t \in Task, free_pcbs # {}, sys_clone(t, NextPCB)
    PROVE  /\ NextPCB \in Task \ alive /\ t \in alive
           /\ dir' = [dir EXCEPT ![NextPCB] = dir[t]]
           /\ dir_counter' = [dir_counter EXCEPT ![dir[t]] = @ + 1]
           /\ alive' = alive \cup {NextPCB}
           /\ \A u \in alive : dir'[u] = dir[u]
           /\ dir'[NextPCB] = dir[t]
           /\ TaskTypes'
<1> DEFINE c == NextPCB
<1>1. c \in free_pcbs /\ c \in Task /\ c \notin alive /\ t \in alive /\ dir[t] \in Slot
  BY NextPCBFree DEF TaskTypes, sys_clone, CanRun
<1>2. /\ free_pcbs' = free_pcbs \ {c}
      /\ dir' = [dir EXCEPT ![c] = dir[t]]
      /\ dir_counter' = [dir_counter EXCEPT ![dir[t]] = @ + 1]
      /\ alive' = alive \cup {c}
  BY DEF sys_clone, Counted
<1> HIDE DEF c
<1>3. TaskTypes'
  BY <1>1, <1>2 DEF TaskTypes
<1>4. (\A u \in alive : dir'[u] = dir[u]) /\ dir'[c] = dir[t]
  BY <1>1, <1>2 DEF TaskTypes
<1> QED
  BY <1>1, <1>2, <1>3, <1>4 DEF c

LEMMA CloneCounts ==
    ASSUME TaskTypes, NEW t \in Task, free_pcbs # {}, sys_clone(t, NextPCB),
           NEW n \in Slot, RightCount(n)
    PROVE  RightCount(n)'
<1> DEFINE c == NextPCB
           d == dir[t]
<1>1. /\ c \notin alive /\ t \in alive /\ d \in Slot
      /\ dir_counter' = [dir_counter EXCEPT ![d] = @ + 1]
      /\ alive' = alive \cup {c}
      /\ \A u \in alive : dir'[u] = dir[u]
      /\ dir'[c] = d
  BY CloneTasks DEF TaskTypes
<1> HIDE DEF c
<1>2. IsFiniteSet(Users(n)) /\ c \notin Users(n)
  BY <1>1, UsersFinite DEF TaskTypes, Users
<1>3. CASE n = d
  <2>1. Users(n)' = Users(n) \cup {c}
    BY <1>1, <1>3 DEF Users
  <2>2. dir_counter'[n] = dir_counter[n] + 1
    BY <1>1, <1>3 DEF TaskTypes
  <2>3. Users(n) # {}
    BY <1>1, <1>3 DEF Users
  <2> QED
    BY <1>2, <2>1, <2>2, <2>3, FS_AddElement DEF RightCount
<1>4. CASE n # d
  <2>1. Users(n)' = Users(n)
    BY <1>1, <1>4 DEF Users
  <2>2. dir_counter'[n] = dir_counter[n]
    BY <1>1, <1>4 DEF TaskTypes
  <2> QED
    BY <2>1, <2>2 DEF RightCount
<1> QED
  BY <1>3, <1>4

LEMMA ExitTasks ==
    ASSUME TaskTypes, NEW t \in Task, sys_exit(t)
    PROVE  /\ t \in alive
           /\ dir_counter' = [dir_counter EXCEPT ![dir[t]] = @ - 1]
           /\ alive' = alive \ {t}
           /\ dir' = dir
           /\ TaskTypes'
BY DEF TaskTypes, sys_exit, CanRun

LEMMA ExitCounts ==
    ASSUME TaskTypes, NEW t \in Task, sys_exit(t), NEW n \in Slot, RightCount(n)
    PROVE  RightCount(n)'
<1> SUFFICES ASSUME Users(n)' # {} PROVE dir_counter'[n] = Cardinality(Users(n)')
  BY DEF RightCount
<1>1. Users(n)' = Users(n) \ {t}
  BY ExitTasks DEF Users
<1>2. IsFiniteSet(Users(n)) /\ Users(n) # {}
  BY <1>1, UsersFinite DEF TaskTypes
<1>3. dir_counter[n] = Cardinality(Users(n)) /\ Cardinality(Users(n)) \in Nat
  BY <1>2, FS_CardinalityType DEF RightCount
<1>4. t \in Users(n) <=> n = dir[t]
  BY ExitTasks DEF Users
<1>5. dir_counter'[n] = IF n = dir[t] THEN dir_counter[n] - 1 ELSE dir_counter[n]
  BY ExitTasks DEF TaskTypes
<1>6. Cardinality(Users(n) \ {t}) = IF t \in Users(n) THEN Cardinality(Users(n)) - 1
                                                      ELSE Cardinality(Users(n))
  BY <1>2, FS_RemoveElement
<1> QED
  BY <1>1, <1>3, <1>4, <1>5, <1>6

----------------------------------------------------------------------------
LEMMA CountFork == ASSUME CountInv, Fork PROVE CountInv'
<1>1. PICK t \in Task : sys_fork(t, NextPCB)
  BY DEF Fork
<1>2. /\ uncounted_forks' = uncounted_forks + IF FreeDirs = {} THEN 1 ELSE 0
      /\ UNCHANGED programbreak_table
      /\ phys_mem' = RolledBack \/ \E frames : phys_mem' = phys_mem \cup frames
      /\ free_pcbs # {}
  BY <1>1 DEF Fork, sys_fork, ForkOutOfMemory, CopyPages
<1>3. TaskTypes' /\ uncounted_forks' \in Nat /\ programbreak_table' \in [Slot -> Nat]
  BY <1>1, <1>2, ForkTasks DEF CountInv
<1>4. NUM_PAG_KERNEL \in phys_mem'
  BY <1>2, RolledBackAll DEF CountInv
<1>5. ASSUME uncounted_forks' = 0, NEW n \in Slot PROVE RightCount(n)'
  <2>1. uncounted_forks = 0 /\ FreeDirs # {}
    BY <1>2, <1>5 DEF CountInv
  <2>2. Users(FirstDir) = {} /\ RightCount(n)
    BY <2>1, FirstDirFree, FreeDirUnused DEF CountInv, SharersCounted, InUse, RightCount
  <2> QED
    BY <1>1, <1>2, <2>1, <2>2, ForkCounts DEF CountInv
<1> QED
  BY <1>3, <1>4, <1>5 DEF CountInv, SharersCounted, InUse, RightCount

LEMMA CountClone == ASSUME CountInv, Clone PROVE CountInv'
<1>1. PICK t \in Task : sys_clone(t, NextPCB)
  BY DEF Clone
<1>2. free_pcbs # {} /\ UNCHANGED <<uncounted_forks, programbreak_table, phys_mem>>
  BY <1>1 DEF Clone, sys_clone
<1>3. ASSUME uncounted_forks' = 0, NEW n \in Slot PROVE RightCount(n)'
  <2>1. RightCount(n)
    BY <1>2, <1>3 DEF CountInv, SharersCounted, InUse, RightCount
  <2> QED
    BY <1>1, <1>2, <2>1, CloneCounts DEF CountInv
<1> QED
  BY <1>1, <1>2, <1>3, CloneTasks DEF CountInv, SharersCounted, InUse, RightCount

LEMMA CountExit == ASSUME CountInv, Exit PROVE CountInv'
<1>1. PICK t \in Task : sys_exit(t)
  BY DEF Exit
<1>2. /\ phys_mem' = phys_mem \/ \E frames : phys_mem' = phys_mem \ Freed(frames)
      /\ UNCHANGED <<programbreak_table, uncounted_forks>>
  BY <1>1 DEF sys_exit
<1>3. NUM_PAG_KERNEL \in phys_mem'
  BY <1>2, FirstFrameKept DEF CountInv
<1>4. ASSUME uncounted_forks' = 0, NEW n \in Slot PROVE RightCount(n)'
  <2>1. RightCount(n)
    BY <1>2, <1>4 DEF CountInv, SharersCounted, InUse, RightCount
  <2> QED
    BY <1>1, <2>1, ExitCounts DEF CountInv
<1> QED
  BY <1>1, <1>2, <1>3, <1>4, ExitTasks DEF CountInv, SharersCounted, InUse, RightCount

LEMMA CountStep == ASSUME CountInv, [Next]_vars PROVE CountInv'
<1>1. ASSUME UNCHANGED <<memVars, alive, free_pcbs, uncounted_forks>> PROVE CountInv'
  BY <1>1, CountKept DEF memVars, CountInv
<1>2. CASE BadFork \/ (\E t \in Task : UserFault(t)) \/ (\E t \in Task : NoPCB(t))
           \/ UNCHANGED vars
  BY <1>1, <1>2 DEF BadFork, ForkOutOfBounds, UserFault, NoPCB, Halt, vars
<1> QED
  BY <1>2, CountFork, CountClone, CountExit, CountSbrk DEF Next

LEMMA CountInit == Init => CountInv
<1> SUFFICES ASSUME Init PROVE CountInv
  OBVIOUS
<1> USE DEF Init
<1>1. /\ dir \in [Task -> Slot] /\ alive \subseteq Task /\ free_pcbs \subseteq Task \ alive
      /\ dir_counter \in [Slot -> Int] /\ uncounted_forks \in Nat
  BY Slots DEF idle_task, task1
<1>2. programbreak_table \in [Slot -> Nat]
  <2>1. PAG_LOG_INIT_HEAP * PAGE_SIZE \in Nat
    BY MemAssumption DEF PAG_LOG_INIT_HEAP, PAG_LOG_INIT_DATA, PAG_LOG_INIT_CODE
  <2> QED
    BY <2>1
<1>3. NUM_PAG_KERNEL \in phys_mem
  <2>1. 0 \in 0 .. NUM_PAG_CODE + NUM_PAG_DATA - 1 /\ BootFrame(0) = NUM_PAG_KERNEL
    BY MemAssumption DEF BootFrame
  <2> QED
    BY <2>1
<1>4. SharersCounted
  <2>1. dir[0] = 1 /\ dir[1] = 2 /\ alive = {0, 1}
    BY Slots DEF idle_task, task1
  <2>2. ASSUME NEW n \in Slot, Users(n) # {}
        PROVE  dir_counter[n] = Cardinality(Users(n))
    <3>1. (n = 1 /\ Users(n) = {0}) \/ (n = 2 /\ Users(n) = {1})
      BY <2>1, <2>2 DEF Users
    <3>2. dir_counter[n] = 1
      BY <2>2, <3>1
    <3> QED
      BY <3>1, <3>2, FS_Singleton
  <2> QED
    BY <2>2 DEF SharersCounted, InUse
<1> QED
  BY <1>1, <1>2, <1>3, <1>4 DEF CountInv, TaskTypes

LEMMA CountInvariance == Spec => []CountInv
BY CountInit, CountStep, PTL DEF Spec

\* dir_counter counts the tasks of every directory in use, for any number of
\* tasks and directories: sys_exit frees an address space with its last
\* thread, and allocate_DIR gives none away that somebody uses.
THEOREM CountersAreRight == Spec => []SharersCounted
BY CountInvariance, PTL DEF CountInv

----------------------------------------------------------------------------
\* Every directory keeps its table.
TableInv == DOMAIN pagusr_table = Slot

LEMMA TableStep == ASSUME TableInv, [Next]_vars PROVE TableInv'
<1>1. \/ pagusr_table' = pagusr_table
      \/ \E n, v : pagusr_table' = [pagusr_table EXCEPT ![n] = v]
      \/ \E n, v, m, w : pagusr_table' = [[pagusr_table EXCEPT ![n] = v] EXCEPT ![m] = w]
  <2>1. CASE Fork
    <3>1. PICK t \in Task : ForkOutOfMemory(t, NextPCB) \/ CopyPages(t, NextPCB)
      BY <2>1 DEF Fork, sys_fork
    <3>2. CASE ForkOutOfMemory(t, NextPCB)
      BY <3>2 DEF ForkOutOfMemory
    <3>3. CASE CopyPages(t, NextPCB)
      <4>1. PICK frames \in AllocFrames(PagesToCopy(t)) :
               pagusr_table' =
                 [[pagusr_table EXCEPT
                     ![NewDir(t)] = Mapped(Inherited(t), PAG_LOG_INIT_DATA, frames)]
                    EXCEPT ![dir[t]] =
                      Unmapped(@, Pages(PAG_LOG_INIT_DATA + PagesToCopy(t), PagesToCopy(t)))]
        BY <3>3, Zenon DEF CopyPages, TemporaryPages
      <4> QED
        BY <4>1
    <3> QED
      BY <3>1, <3>2, <3>3
  <2>2. CASE Exit
    BY <2>2 DEF Exit, sys_exit
  <2>3. CASE Sbrk
    BY <2>3 DEF Sbrk, Grow, AskBreak, Shrink, SbrkOutOfBounds, Halt, memVars
  <2>4. CASE ~Fork /\ ~Exit /\ ~Sbrk
    BY <2>4 DEF Next, BadFork, ForkOutOfBounds, UserFault, NoPCB, Clone, sys_clone, Halt,
                vars, memVars
  <2> QED
    BY <2>1, <2>2, <2>3, <2>4
<1> QED
  BY <1>1 DEF TableInv

Undone ==
    eax' = -ENOMEM /\ uncounted_forks' = 0 =>
        /\ phys_mem' = phys_mem
        /\ programbreak_table' = programbreak_table
        /\ \A n \in InUse : pagusr_table'[n] = pagusr_table[n]

LEMMA UndoneFork == ASSUME CountInv, TableInv, Fork PROVE Undone
<1> SUFFICES ASSUME eax' = -ENOMEM, uncounted_forks' = 0
             PROVE  /\ phys_mem' = phys_mem
                    /\ programbreak_table' = programbreak_table
                    /\ \A n \in InUse : pagusr_table'[n] = pagusr_table[n]
  BY DEF Undone
<1>1. PICK t \in Task : sys_fork(t, NextPCB)
  BY DEF Fork
<1>2. NextPCB \in Nat
  BY NextPCBFree, Slots DEF Fork, CountInv, TaskTypes
<1>3. /\ ForkOutOfMemory(t, NextPCB)
      /\ uncounted_forks' = uncounted_forks + IF FreeDirs = {} THEN 1 ELSE 0
      /\ programbreak_table' = programbreak_table
  <2>1. ASSUME CopyPages(t, NextPCB) PROVE FALSE
    <3>1. eax' = NextPCB
      BY <2>1, Zenon DEF CopyPages
    <3> HIDE DEF NextPCB
    <3> QED
      BY <1>2, <3>1 DEF ENOMEM
  <2> QED
    BY <1>1, <2>1, Zenon DEF sys_fork
<1>4. phys_mem' = phys_mem
  BY <1>3, RolledBackAll DEF ForkOutOfMemory, CountInv
<1>5. uncounted_forks = 0 /\ FreeDirs # {} /\ NewDir(t) = FirstDir
  BY <1>3 DEF CountInv, NewDir
<1>6. Users(FirstDir) = {}
  BY <1>5, FirstDirFree, FreeDirUnused
<1>7. ASSUME NEW n \in InUse PROVE pagusr_table'[n] = pagusr_table[n]
  <2>1. n # NewDir(t) /\ n \in Slot
    BY <1>5, <1>6 DEF InUse
  <2> QED
    BY <1>3, <2>1 DEF ForkOutOfMemory, TableInv
<1> QED
  BY <1>3, <1>4, <1>7

LEMMA UndoneSbrk == ASSUME CountInv, Sbrk PROVE Undone
<1>1. PICK t \in Task :
         \/ \E increment \in Increments : Grow(t, increment)
         \/ AskBreak(t)
         \/ \E decrement \in Decrements : Shrink(t, decrement)
         \/ SbrkOutOfBounds(t)
  BY DEF Sbrk
<1>2. \A address : SetBreak(t, address) => eax' # -ENOMEM
  BY BreakOK DEF SetBreak, ENOMEM
<1>3. RolledBack = phys_mem
  BY RolledBackAll DEF CountInv
<1>4. ASSUME NEW increment \in Increments, Grow(t, increment) PROVE Undone
  BY <1>2, <1>3, <1>4 DEF Grow, Undone
<1>5. CASE AskBreak(t)
  BY <1>2, <1>5 DEF AskBreak, Undone
<1>6. ASSUME NEW decrement \in Decrements, Shrink(t, decrement) PROVE Undone
  BY <1>2, <1>6 DEF Shrink, Undone
<1>7. CASE SbrkOutOfBounds(t)
  BY <1>7 DEF SbrkOutOfBounds, Halt, memVars, Undone
<1> QED
  BY <1>1, <1>4, <1>5, <1>6, <1>7

LEMMA UndoneStep == ASSUME CountInv, TableInv, [Next]_vars PROVE [Undone]_vars
<1>1. CASE Clone \/ Exit
  <2>1. CASE Clone
    <3>1. eax' = NextPCB
      BY <2>1 DEF Clone, sys_clone
    <3>2. NextPCB \in Nat
      BY <2>1, NextPCBFree, Slots DEF Clone, CountInv, TaskTypes
    <3> QED
      BY <3>1, <3>2 DEF Undone, ENOMEM
  <2>2. CASE Exit
    BY <2>2 DEF Exit, sys_exit, NO_RETURN, Undone, ENOMEM
  <2> QED
    BY <1>1, <2>1, <2>2
<1>2. CASE BadFork \/ (\E t \in Task : UserFault(t)) \/ (\E t \in Task : NoPCB(t))
  BY <1>2 DEF BadFork, ForkOutOfBounds, UserFault, NoPCB, Halt, NO_RETURN, EAGAIN, Undone,
              ENOMEM
<1> QED
  BY <1>1, <1>2, UndoneFork, UndoneSbrk DEF Next

LEMMA TableInit == Init => TableInv
BY DEF Init, TableInv

\* A fork or an sbrk for which alloc_frame runs out of frames half way gives
\* every frame back and changes no page table in use, however many frames,
\* pages and tasks there are.
THEOREM FailuresAreUndone == Spec => FailureIsUndone
<1>1. CountInv /\ TableInv /\ [Next]_vars => [Undone]_vars
  BY UndoneStep
<1>2. TableInv /\ [Next]_vars => TableInv'
  BY TableStep
<1> QED
  BY <1>1, <1>2, CountInvariance, TableInit, PTL DEF Spec, FailureIsUndone, Undone

----------------------------------------------------------------------------
(* Addresses and pages.                                                    *)

\* Where the parts of an address space lie.
LEMMA Layout ==
    /\ {PAG_LOG_INIT_CODE, PAG_LOG_INIT_DATA, PAG_LOG_INIT_HEAP, TOTAL_PAGES} \subseteq Nat
    /\ NUM_PAG_KERNEL \in Nat /\ NUM_PAG_DATA \in Nat /\ NUM_PAG_DATA > 0
    /\ PAG_LOG_INIT_CODE = NUM_PAG_KERNEL /\ NUM_PAG_KERNEL >= 2
    /\ NUM_PAG_CODE \in Nat /\ NUM_PAG_CODE > 0
    /\ PAG_LOG_INIT_DATA = PAG_LOG_INIT_CODE + NUM_PAG_CODE
    /\ PAG_LOG_INIT_HEAP = PAG_LOG_INIT_DATA + NUM_PAG_DATA
    /\ PAG_LOG_INIT_HEAP + 2 <= TOTAL_PAGES
    /\ PAGE_SIZE \in Nat \ {0}
BY MemAssumption DEF PAG_LOG_INIT_HEAP, PAG_LOG_INIT_DATA, PAG_LOG_INIT_CODE

LEMMA DivisionRounds ==
    ASSUME NEW page \in Int, NEW address \in Int
    PROVE  /\ address \div PAGE_SIZE \in Int
           /\ page <= address \div PAGE_SIZE <=> page * PAGE_SIZE <= address
BY Layout

LEMMA AlignedAddress ==
    ASSUME NEW address \in Int
    PROVE  Aligned(address) <=> address = (address \div PAGE_SIZE) * PAGE_SIZE
BY Layout DEF Aligned

\* PageAbove rounds up: a page starts below the address iff it is below
\* PageAbove.
LEMMA PageAboveRounds ==
    ASSUME NEW address \in Int
    PROVE  /\ PageAbove(address) \in Int
           /\ \A page \in Int : page < PageAbove(address) <=> page * PAGE_SIZE < address
           /\ PageAbove(address) = (address - 1) \div PAGE_SIZE + 1
<1> DEFINE d == address \div PAGE_SIZE
<1>1. d \in Int /\ PageAbove(address) \in Int
  BY DivisionRounds DEF PageAbove
<1>2. ASSUME NEW page \in Int
      PROVE  page < PageAbove(address) <=> page * PAGE_SIZE < address
  <2>1. page <= d <=> page * PAGE_SIZE <= address
    BY DivisionRounds
  <2>2. page * PAGE_SIZE \in Int /\ d * PAGE_SIZE \in Int
    BY <1>1, Layout
  <2>3. Aligned(address) <=> address = d * PAGE_SIZE
    BY AlignedAddress
  <2>4. CASE page = d
    BY <2>1, <2>2, <2>3, <2>4, <1>1 DEF PageAbove
  <2>5. CASE page < d
    <3>1. d * PAGE_SIZE <= address
      BY <1>1, DivisionRounds
    <3>2. page * PAGE_SIZE < d * PAGE_SIZE
      <4> HIDE DEF d
      <4> QED
        BY <1>1, <2>5, Layout
    <3>3. page < PageAbove(address)
      BY <1>1, <2>5 DEF PageAbove
    <3> QED
      BY <1>1, <2>2, <3>1, <3>2, <3>3
  <2>6. CASE page > d
    <3>1. ~(page * PAGE_SIZE < address)
      BY <1>1, <2>1, <2>2, <2>6
    <3>2. ~(page < PageAbove(address))
      BY <1>1, <2>6 DEF PageAbove
    <3> QED
      BY <3>1, <3>2
  <2> QED
    BY <1>1, <2>4, <2>5, <2>6
<1>3. PageAbove(address) = (address - 1) \div PAGE_SIZE + 1
  <2> DEFINE e == (address - 1) \div PAGE_SIZE
  <2>1. \A page \in Int : page <= e <=> page * PAGE_SIZE <= address - 1
    BY DivisionRounds
  <2>2. e \in Int
    BY DivisionRounds
  <2> HIDE DEF e
  <2>3. e < PageAbove(address) /\ ~(e + 1 < PageAbove(address))
    <3>1. e * PAGE_SIZE \in Int /\ (e + 1) * PAGE_SIZE \in Int /\ e + 1 \in Int
      BY <2>2, Layout
    <3>2. e * PAGE_SIZE <= address - 1
      BY <2>1, <2>2
    <3>3. ~((e + 1) * PAGE_SIZE <= address - 1)
      BY <2>1, <2>2, <3>1
    <3> QED
      BY <1>2, <2>2, <3>1, <3>2, <3>3
  <2> QED
    BY <1>1, <2>2, <2>3 DEF e
<1> QED
  BY <1>1, <1>2, <1>3

LEMMA PageAboveGrows ==
    ASSUME NEW a \in Int, NEW b \in Int, a <= b
    PROVE  PageAbove(a) <= PageAbove(b)
<1> DEFINE p == PageAbove(a) - 1
<1>1. p \in Int /\ PageAbove(a) \in Int /\ PageAbove(b) \in Int
  BY PageAboveRounds
<1>2. p * PAGE_SIZE < a
  BY <1>1, PageAboveRounds
<1>3. p * PAGE_SIZE < b
  BY <1>1, <1>2, Layout
<1>4. p < PageAbove(b)
  BY <1>1, <1>3, PageAboveRounds
<1> QED
  BY <1>1, <1>4

LEMMA PageAbovePage ==
    ASSUME NEW page \in Int PROVE PageAbove(page * PAGE_SIZE) = page
<1> DEFINE k == PageAbove(page * PAGE_SIZE)
<1>1. page * PAGE_SIZE \in Int
  BY Layout
<1>2. k \in Int /\ \A q \in Int : q < k <=> q * PAGE_SIZE < page * PAGE_SIZE
  BY <1>1, PageAboveRounds
<1> HIDE DEF k
<1>3. ~(page < k)
  BY <1>1, <1>2
<1>4. page - 1 < k
  <2>1. (page - 1) * PAGE_SIZE < page * PAGE_SIZE
    BY Layout
  <2> QED
    BY <1>2, <2>1
<1> QED
  BY <1>2, <1>3, <1>4 DEF k

----------------------------------------------------------------------------
(* Address spaces.  Only the directory that init_task1 takes ever has a    *)
(* break, so only its tasks fork and move a break; the directories made by *)
(* fork can only clone and exit.                                           *)
HeapDir   == 2
UserPage  == PAG_LOG_INIT_CODE .. TOTAL_PAGES - 1
HeapPages == PAG_LOG_INIT_HEAP .. TOTAL_PAGES - 1
CodePages == Pages(PAG_LOG_INIT_CODE, NUM_PAG_CODE)
HeapBreak == programbreak_table[HeapDir]

\* The directories whose tables matter: those in use and those that fork can
\* give away.  A fork that runs out of frames leaves its directory behind,
\* counted and unused, with entries that belong to somebody else.
Kept == {n \in Slot : n = HeapDir \/ Users(n) # {} \/ dir_counter[n] = 0}

\* What tables T and taken frames M must satisfy for the directories in K.
CodeShared(K, T) ==
    \A n \in K, p \in CodePages :
        T[n][p] # NotPresent => T[n][p] = BootFrame(p - PAG_LOG_INIT_CODE)
FramesTaken(K, T, M) ==
    \A n \in K, p \in UserPage : T[n][p] # NotPresent => T[n][p] \in M \cap Allocatable
FramesApart(K, T) ==
    \A n, m \in K : \A p \in PrivatePages, q \in UserPage :
        T[n][p] # NotPresent /\ T[n][p] = T[m][q] => n = m /\ p = q
FramesRight(K, T, M) == CodeShared(K, T) /\ FramesTaken(K, T, M) /\ FramesApart(K, T)

\* The state of task1's directory: it runs, with its whole heap, or its last
\* counted task has exited and taken data and stack away.
HeapDirRuns ==
    /\ dir_counter[HeapDir] >= 1
    /\ \A p \in DataPages : pagusr_table[HeapDir][p] # NotPresent
    /\ \A p \in HeapPages : p < PageAbove(HeapBreak) => pagusr_table[HeapDir][p] # NotPresent
HeapDirFreed ==
    /\ dir_counter[HeapDir] = 0
    /\ \A p \in DataPages : pagusr_table[HeapDir][p] = NotPresent

\* Nothing is mapped above the heap.  Its first page is the exception: see
\* TLBFresh.
NothingAbove ==
    \A p \in HeapPages : p > PAG_LOG_INIT_HEAP /\ p >= PageAbove(HeapBreak)
                            => pagusr_table[HeapDir][p] = NotPresent

MemTypes ==
    /\ phys_mem \subseteq Frame
    /\ pagusr_table \in [Slot -> [Page -> Frame \cup {NotPresent}]]
    /\ stale \subseteq Page
    /\ halted \in BOOLEAN
    /\ uncounted_forks <= MaxUncounted
    /\ eax \in Int

Breaks ==
    /\ \A n \in Slot \ {HeapDir} : programbreak_table[n] = 0
    /\ HeapBreak >= PAG_LOG_INIT_HEAP * PAGE_SIZE
    /\ PageAbove(HeapBreak) < TOTAL_PAGES

\* Even when forks have gone uncounted.
OthersCounted == \A n \in Slot \ {HeapDir} : RightCount(n)

HeapDirState ==
    /\ \A p \in CodePages : pagusr_table[HeapDir][p] # NotPresent
    /\ HeapDirRuns \/ HeapDirFreed
    /\ NothingAbove

SpaceInv ==
    /\ CountInv /\ MemTypes /\ Breaks /\ OthersCounted /\ HeapDirState
    /\ FramesRight(Kept, pagusr_table, phys_mem)
    /\ TLBFresh

LEMMA Regions ==
    /\ CodePages \subseteq UserPage /\ PrivatePages \subseteq UserPage
    /\ DataPages \subseteq PrivatePages /\ HeapPages \subseteq PrivatePages
    /\ UserPage \subseteq Page /\ UserPage \subseteq Int
    /\ UserPage = CodePages \cup PrivatePages /\ CodePages \cap PrivatePages = {}
    /\ PrivatePages = DataPages \cup HeapPages /\ DataPages \cap HeapPages = {}
    /\ HeapDir \in Kept /\ Kept \subseteq Slot
BY Layout, Slots DEF UserPage, HeapPages, CodePages, DataPages, PrivatePages, Pages, Page,
                     Kept, HeapDir

\* Free frames are user frames, and what allocation takes is all different.
LEMMA AllocatedFrames ==
    ASSUME NEW n \in Int, NEW frames \in AllocFrames(n)
    PROVE  /\ DOMAIN frames = 0 .. n - 1
           /\ \A i \in 0 .. n - 1 : frames[i] \in Allocatable \ phys_mem
           /\ \A i, j \in 0 .. n - 1 : frames[i] = frames[j] => i = j
           /\ Range(frames) \subseteq Allocatable
           /\ \A i \in 0 .. n - 1 : frames[i] \in Range(frames)
<1>1. frames \in [0 .. n - 1 -> FreeFrames]
      /\ \A i, j \in 0 .. n - 1 : i < j => frames[i] < frames[j]
  BY DEF AllocFrames
<1>2. FreeFrames \subseteq Int
  BY DEF FreeFrames, Allocatable, Frame
<1> QED
  BY <1>1, <1>2 DEF FreeFrames, Range

LEMMA UserFrames ==
    /\ NotPresent \notin Allocatable /\ 0 \notin Allocatable
    /\ Allocatable \subseteq Frame
    /\ \A f \in Allocatable : f \in Int /\ f >= NUM_PAG_KERNEL
BY Layout DEF Allocatable, NotPresent, Frame

\* What a call may do to them: entries are kept, removed, copied from the
\* code of task1's directory, or made, in directory d, of frames just taken.
FramesMove(T, M, K1, T1, M1, d, first, frames) ==
    /\ \A i \in DOMAIN frames : frames[i] \in Allocatable \ M
    /\ \A i, j \in DOMAIN frames : frames[i] = frames[j] => i = j
    /\ \A n \in K1, p \in UserPage :
          \/ T1[n][p] = NotPresent
          \/ T1[n][p] = T[n][p]
          \/ p \in CodePages /\ T1[n][p] = T[HeapDir][p]
          \/ /\ n = d /\ p \in PrivatePages
             /\ p - first \in DOMAIN frames /\ T1[n][p] = frames[p - first]
    /\ \A n \in K1, p \in UserPage : T1[n][p] # NotPresent => T1[n][p] \in M1

LEMMA FramesStep ==
    ASSUME NEW K, NEW T, NEW M, NEW K1, NEW T1, NEW M1,
           NEW d, NEW first, NEW frames, first \in Int, K1 \subseteq K, HeapDir \in K,
           FramesRight(K, T, M), FramesMove(T, M, K1, T1, M1, d, first, frames)
    PROVE  FramesRight(K1, T1, M1)
<1> USE DEF FramesMove
<1> DEFINE New(n, p) == /\ n = d /\ p \in PrivatePages
                        /\ p - first \in DOMAIN frames /\ T1[n][p] = frames[p - first]
           Old(n, p) == T1[n][p] = T[n][p]
           Code(n, p) == p \in CodePages /\ T1[n][p] = T[HeapDir][p]
<1>1. ASSUME NEW n \in K1, NEW p \in UserPage, T1[n][p] # NotPresent
      PROVE  Old(n, p) \/ Code(n, p) \/ New(n, p)
  BY <1>1
<1>2. CodePages \cap PrivatePages = {}
  BY Regions
<1>3. PrivatePages \subseteq UserPage /\ UserPage \subseteq Int /\ CodePages \subseteq UserPage
  BY Regions
<1>4. K1 \subseteq K
  OBVIOUS
<1>5. CodeShared(K1, T1)
  BY <1>1, <1>2, <1>3, <1>4 DEF FramesRight, CodeShared
<1>6. FramesTaken(K1, T1, M1)
  <2> SUFFICES ASSUME NEW n \in K1, NEW p \in UserPage, T1[n][p] # NotPresent
               PROVE  T1[n][p] \in Allocatable
    BY DEF FramesTaken
  <2> QED
    BY <1>1, <1>4 DEF FramesRight, FramesTaken
<1>7. ASSUME NEW n \in K1, NEW m \in K1, NEW p \in PrivatePages, NEW q \in UserPage,
             T1[n][p] # NotPresent, T1[n][p] = T1[m][q]
      PROVE  n = m /\ p = q
  <2>1. p \in UserPage /\ ~Code(n, p) /\ (Old(n, p) \/ New(n, p))
    BY <1>1, <1>2, <1>3, <1>7
  <2>2. Old(m, q) \/ Code(m, q) \/ New(m, q)
    BY <1>1, <1>7
  <2>3. CASE Old(n, p)
    <3>1. T[n][p] \in M
      BY <1>4, <1>7, <2>1, <2>3 DEF FramesRight, FramesTaken
    <3>2. ~New(m, q)
      BY <1>7, <2>3, <3>1
    <3>5. \A k \in K : T[n][p] # NotPresent /\ T[n][p] = T[k][q] => n = k /\ p = q
      BY <1>4, <1>7 DEF FramesRight, FramesApart
    <3>3. CASE Old(m, q)
      BY <1>4, <1>7, <2>3, <3>3, <3>5
    <3>4. CASE Code(m, q)
      <4>1. HeapDir \in K /\ T[n][p] # NotPresent /\ T[n][p] = T[HeapDir][q]
        BY <1>7, <2>3, <3>4
      <4>2. p = q /\ q \in CodePages
        BY <3>4, <3>5, <4>1
      <4> QED
        BY <1>2, <4>2
    <3> QED
      BY <2>2, <3>2, <3>3, <3>4
  <2>4. CASE New(n, p)
    <3>1. T1[n][p] \notin M
      BY <2>4
    <3>2. New(m, q)
      BY <1>3, <1>4, <1>7, <2>2, <3>1 DEF FramesRight, FramesTaken
    <3>3. p - first = q - first
      BY <1>7, <2>4, <3>2
    <3> QED
      BY <1>3, <2>4, <3>2, <3>3
  <2> QED
    BY <2>1, <2>3, <2>4
<1> QED
  BY <1>5, <1>6, <1>7 DEF FramesRight, FramesApart

\* Unmapping pages of one directory and freeing their frames.
LEMMA ReleaseStep ==
    ASSUME SpaceInv, NEW K1 \in SUBSET Kept, NEW d \in Kept, NEW S \in SUBSET PrivatePages
    PROVE  FramesRight(K1, [pagusr_table EXCEPT ![d] = Unmapped(@, S)],
                       phys_mem \ Freed(FramesOf(pagusr_table[d], S)))
<1> DEFINE T  == pagusr_table
           T1 == [T EXCEPT ![d] = Unmapped(@, S)]
           M1 == phys_mem \ Freed(FramesOf(T[d], S))
<1>1. FramesRight(Kept, T, phys_mem) /\ T \in [Slot -> [Page -> Frame \cup {NotPresent}]]
  BY DEF SpaceInv, MemTypes
<1>2. UserPage \subseteq Page /\ S \subseteq Page /\ S \subseteq UserPage /\ Kept \subseteq Slot
      /\ HeapDir \in Kept
  BY Regions
<1>3. ASSUME NEW n \in K1, NEW p \in UserPage
      PROVE  T1[n][p] = IF n = d /\ p \in S THEN NotPresent ELSE T[n][p]
  BY <1>1, <1>2 DEF Unmapped
<1>4. ASSUME NEW n \in K1, NEW p \in UserPage, T1[n][p] # NotPresent
      PROVE  T1[n][p] \in M1
  <2>1. T1[n][p] = T[n][p] /\ ~(n = d /\ p \in S)
    BY <1>3, <1>4
  <2>2. T[n][p] \in phys_mem \cap Allocatable
    BY <1>1, <1>4, <2>1 DEF FramesRight, FramesTaken
  <2>3. ASSUME NEW q \in S, T[n][p] = get_frame(T[d], q) PROVE FALSE
    <3>1. T[d][q] = T[n][p] /\ T[d][q] # NotPresent
      BY <2>2, <2>3, UserFrames DEF get_frame
    <3>2. d = n /\ q = p
      BY <1>1, <1>2, <3>1 DEF FramesRight, FramesApart
    <3> QED
      BY <2>1, <3>2
  <2> QED
    BY <2>1, <2>2, <2>3 DEF Freed, FramesOf
<1> HIDE DEF T, T1, M1
<1>5. \A n \in K1, p \in UserPage : T1[n][p] = NotPresent \/ T1[n][p] = T[n][p]
  BY <1>3
<1> DEFINE frames == [i \in {} |-> 0]
<1>6. DOMAIN frames = {}
  OBVIOUS
<1> HIDE DEF frames
<1>7. FramesRight(K1, T1, M1)
  <2>1. FramesMove(T, phys_mem, K1, T1, M1, d, 0, frames)
    BY <1>4, <1>5, <1>6 DEF FramesMove
  <2>2. K1 \subseteq Kept
    OBVIOUS
  <2> QED
    BY <1>1, <1>2, <2>1, <2>2, FramesStep
<1> QED
  BY <1>7 DEF T, T1, M1

\* Entries kept or removed, frames kept.
LEMMA KeepStep ==
    ASSUME SpaceInv, NEW K1 \in SUBSET Kept, NEW T1,
           \A n \in K1, p \in UserPage :
               T1[n][p] = NotPresent \/ T1[n][p] = pagusr_table[n][p]
    PROVE  FramesRight(K1, T1, phys_mem)
<1> DEFINE frames == [i \in {} |-> 0]
<1>1. DOMAIN frames = {}
  OBVIOUS
<1> HIDE DEF frames
<1>2. FramesRight(Kept, pagusr_table, phys_mem) /\ HeapDir \in Kept
  BY Regions DEF SpaceInv
<1>3. \A n \in K1, p \in UserPage : T1[n][p] # NotPresent => T1[n][p] \in phys_mem
  BY <1>2 DEF FramesRight, FramesTaken
<1>4. FramesMove(pagusr_table, phys_mem, K1, T1, phys_mem, 0, 0, frames)
  BY <1>1, <1>3 DEF FramesMove
<1>5. K1 \subseteq Kept
  OBVIOUS
<1> QED
  BY <1>2, <1>4, <1>5, FramesStep

\* Mapping n frames that alloc_frame has just given from page first up, in
\* directory d; other entries are kept or removed, or copied from the code of
\* task1's directory.
FramesMapped(K1, T1, d, first, n, frames) ==
    \A m \in K1, p \in UserPage :
        \/ T1[m][p] = NotPresent
        \/ T1[m][p] = pagusr_table[m][p]
        \/ p \in CodePages /\ T1[m][p] = pagusr_table[HeapDir][p]
        \/ /\ m = d /\ p \in PrivatePages
           /\ p - first \in 0 .. n - 1 /\ T1[m][p] = frames[p - first]

LEMMA MapStep ==
    ASSUME SpaceInv, NEW K1 \in SUBSET Kept, NEW T1, NEW d, NEW first \in Int, NEW n \in Int,
           NEW frames \in AllocFrames(n), FramesMapped(K1, T1, d, first, n, frames)
    PROVE  FramesRight(K1, T1, phys_mem \cup Range(frames))
<1>1. /\ DOMAIN frames = 0 .. n - 1
      /\ \A i \in DOMAIN frames : frames[i] \in Allocatable \ phys_mem
      /\ \A i, j \in DOMAIN frames : frames[i] = frames[j] => i = j
      /\ \A i \in 0 .. n - 1 : frames[i] \in Range(frames)
  BY AllocatedFrames
<1>2. FramesRight(Kept, pagusr_table, phys_mem) /\ HeapDir \in Kept /\ CodePages \subseteq UserPage
  BY Regions DEF SpaceInv
<1>3. \A m \in K1, p \in UserPage : T1[m][p] # NotPresent => T1[m][p] \in phys_mem \cup Range(frames)
  BY <1>1, <1>2 DEF FramesRight, FramesTaken, FramesMapped
<1>4. FramesMove(pagusr_table, phys_mem, K1, T1, phys_mem \cup Range(frames), d, first, frames)
  BY <1>1, <1>3 DEF FramesMove, FramesMapped
<1>5. K1 \subseteq Kept
  OBVIOUS
<1> QED
  BY <1>2, <1>4, <1>5, FramesStep

\* Only tasks of task1's directory have a break, and those that can run have
\* their whole heap.
LEMMA WhoseBreak ==
    ASSUME SpaceInv, NEW t \in Task, CanRun(t)
    PROVE  /\ dir[t] \in Kept /\ t \in Users(dir[t])
           /\ Break(t) # 0 => dir[t] = HeapDir
           /\ dir[t] # HeapDir => Break(t) = 0
           /\ dir[t] = HeapDir => HeapDirRuns /\ Break(t) = HeapBreak
<1>1. t \in alive /\ dir[t] \in Slot /\ t \in Users(dir[t])
  BY DEF CanRun, Users, SpaceInv, CountInv, TaskTypes
<1>2. dir[t] \in Kept
  BY <1>1 DEF Kept
<1>3. dir[t] = HeapDir => HeapDirRuns
  <2>1. PAG_LOG_INIT_DATA \in DataPages
    BY Layout DEF DataPages, Pages
  <2> QED
    BY <2>1 DEF CanRun, SpaceInv, HeapDirState, HeapDirFreed
<1>4. dir[t] # HeapDir => Break(t) = 0
  BY <1>1 DEF Break, SpaceInv, Breaks
<1> QED
  BY <1>1, <1>2, <1>3, <1>4 DEF Break, HeapBreak

LEMMA HeapBreakOK ==
    ASSUME SpaceInv
    PROVE  /\ HeapBreak \in Nat /\ HeapBreak > 0
           /\ PageAbove(HeapBreak) \in PAG_LOG_INIT_HEAP .. TOTAL_PAGES - 1
           /\ HeapBreak \div PAGE_SIZE \in PAG_LOG_INIT_HEAP .. TOTAL_PAGES - 1
           /\ (HeapBreak - 1) \div PAGE_SIZE = PageAbove(HeapBreak) - 1
<1>1. HeapBreak \in Nat /\ HeapBreak >= PAG_LOG_INIT_HEAP * PAGE_SIZE
      /\ PageAbove(HeapBreak) < TOTAL_PAGES
  BY Slots DEF SpaceInv, CountInv, Breaks, HeapDir, HeapBreak
<1> DEFINE b == HeapBreak
<1> HIDE DEF b
<1>2. b \in Nat /\ b >= PAG_LOG_INIT_HEAP * PAGE_SIZE /\ PageAbove(b) < TOTAL_PAGES
  BY <1>1 DEF b
<1>3. PAG_LOG_INIT_HEAP * PAGE_SIZE > 0
  BY Layout
<1>4. PAG_LOG_INIT_HEAP <= b \div PAGE_SIZE /\ b \div PAGE_SIZE \in Int
  BY <1>2, DivisionRounds, Layout
<1>5. PageAbove(b) \in Int /\ PageAbove(b) >= b \div PAGE_SIZE
  BY <1>4 DEF PageAbove
<1>6. b > 0
  BY <1>2, <1>3, Layout
<1>7. (b - 1) \div PAGE_SIZE = PageAbove(b) - 1
  <2>1. (b - 1) \div PAGE_SIZE \in Int
    BY <1>2, DivisionRounds
  <2> QED
    BY <1>2, <2>1, PageAboveRounds
<1> QED
  BY <1>2, <1>4, <1>5, <1>6, <1>7, Layout DEF b

\* The invariant after a step, from its parts.
LEMMA SpaceParts ==
    ASSUME SpaceInv, [Next]_vars, MemTypes', Breaks', OthersCounted', HeapDirState', TLBFresh',
           FramesRight(Kept', pagusr_table', phys_mem')
    PROVE  SpaceInv'
BY CountStep DEF SpaceInv

LEMMA SpaceExit == ASSUME SpaceInv, Exit PROVE SpaceInv'
<1>1. PICK t \in Task : sys_exit(t)
  BY DEF Exit
<1> DEFINE d == dir[t]
           S == UserPages(t)
<1>2. /\ CanRun(t) /\ UNCHANGED <<programbreak_table, dir, halted, uncounted_forks>>
      /\ stale' \in {{}} \cup {stale \cup Remapped(t) : u \in Users(dir[t]) \ {t}}
      /\ eax' = NO_RETURN
      /\ \/ /\ dir_counter'[d] # 0
            /\ UNCHANGED <<phys_mem, pagusr_table>>
         \/ /\ dir_counter'[d] = 0
            /\ phys_mem' = phys_mem \ Freed(FramesOf(pagusr_table[d], S))
            /\ pagusr_table' = [pagusr_table EXCEPT ![d] = Unmapped(@, S)]
  BY <1>1, Zenon DEF sys_exit
<1>3. /\ TaskTypes /\ MemTypes /\ t \in alive
      /\ dir_counter' = [dir_counter EXCEPT ![d] = @ - 1]
      /\ alive' = alive \ {t} /\ dir' = dir
      /\ d \in Kept /\ d \in Slot /\ dir_counter \in [Slot -> Int] /\ dir_counter[d] \in Int
  BY <1>1, <1>2, ExitTasks, WhoseBreak DEF SpaceInv, CountInv, TaskTypes
<1>4. S \subseteq PrivatePages /\ DataPages \subseteq S
  <2>1. CASE d = HeapDir
    <3>1. Break(t) \div PAGE_SIZE \in PAG_LOG_INIT_HEAP .. TOTAL_PAGES - 1
      BY <1>2, <2>1, WhoseBreak, HeapBreakOK
    <3> QED
      BY <3>1, Regions, Layout DEF UserPages, HeapPages
  <2>2. CASE d # HeapDir
    <3>1. Break(t) \div PAGE_SIZE = 0
      BY <1>2, <2>2, WhoseBreak, Layout
    <3> QED
      BY <3>1, Regions, Layout DEF UserPages
  <2> QED
    BY <2>1, <2>2
<1>5. Kept' \subseteq Kept
  <2> SUFFICES ASSUME NEW n \in Slot, n \in Kept', n # d PROVE n \in Kept
    BY <1>3 DEF Kept
  <2>1. Users(n)' = Users(n) /\ dir_counter'[n] = dir_counter[n]
    BY <1>3 DEF Users
  <2> QED
    BY <2>1 DEF Kept
<1>6. FramesRight(Kept', pagusr_table', phys_mem')
  <2>1. CASE UNCHANGED <<phys_mem, pagusr_table>>
    <3>1. FramesRight(Kept', pagusr_table, phys_mem)
      BY <1>5, KeepStep
    <3> QED
      BY <2>1, <3>1
  <2>2. CASE /\ phys_mem' = phys_mem \ Freed(FramesOf(pagusr_table[d], S))
             /\ pagusr_table' = [pagusr_table EXCEPT ![d] = Unmapped(@, S)]
    <3> HIDE DEF d, S
    <3> QED
      BY <1>3, <1>4, <1>5, <2>2, ReleaseStep
  <2> QED
    BY <1>2, <2>1, <2>2
<1>7. /\ \A n \in Slot \ {d} : pagusr_table'[n] = pagusr_table[n]
      /\ \A p \in Page : pagusr_table'[d][p] \in {pagusr_table[d][p], NotPresent}
      /\ dir_counter'[d] # 0 => pagusr_table' = pagusr_table
      /\ dir_counter'[d] = 0 => \A p \in S : pagusr_table'[d][p] = NotPresent
      /\ \A p \in CodePages : pagusr_table'[d][p] = pagusr_table[d][p]
  <2> S \subseteq Page /\ CodePages \subseteq Page /\ CodePages \cap S = {}
    BY <1>4, Regions
  <2> HIDE DEF S
  <2> QED
    BY <1>2, <1>3 DEF Unmapped, MemTypes
<1>8. MemTypes'
  <2>1. phys_mem' \subseteq Frame
    BY <1>2, <1>3 DEF MemTypes
  <2>2. pagusr_table' \in [Slot -> [Page -> Frame \cup {NotPresent}]]
    BY <1>2, <1>3 DEF MemTypes, Unmapped
  <2>3. stale' \subseteq Page
    BY <1>2, <1>3 DEF MemTypes, Remapped
  <2>4. halted' \in BOOLEAN
    BY <1>2, <1>3, Zenon DEF MemTypes
  <2>5. uncounted_forks' <= MaxUncounted /\ eax' \in Int
    BY <1>2, <1>3 DEF MemTypes, NO_RETURN
  <2> QED
    BY <2>1, <2>2, <2>3, <2>4, <2>5 DEF MemTypes
<1>9. Breaks'
  BY <1>2 DEF SpaceInv, Breaks, HeapBreak
<1>10. OthersCounted'
  BY <1>1, <1>3, ExitCounts DEF SpaceInv, OthersCounted
<1>11. HeapDirState'
  <2>1. CASE d # HeapDir
    <3>1. pagusr_table'[HeapDir] = pagusr_table[HeapDir] /\ dir_counter'[HeapDir] = dir_counter[HeapDir]
      BY <1>3, <1>7, <2>1, Slots DEF HeapDir
    <3> QED
      BY <1>2, <3>1 DEF SpaceInv, HeapDirState, HeapDirRuns, HeapDirFreed, NothingAbove,
                           HeapBreak
  <2>2. CASE d = HeapDir
    <3>1. HeapDirRuns
      BY <1>2, <2>2, WhoseBreak
    <3>2. dir_counter'[HeapDir] = dir_counter[HeapDir] - 1
      BY <1>3, <2>2
    <3>3. CASE dir_counter'[HeapDir] # 0
      <4>1. dir_counter'[HeapDir] >= 1
        BY <1>3, <2>2, <3>1, <3>2, <3>3 DEF HeapDirRuns
      <4> QED
        BY <1>2, <1>7, <2>2, <3>1, <3>3, <4>1
           DEF SpaceInv, HeapDirState, HeapDirRuns, NothingAbove, HeapBreak
    <3>4. CASE dir_counter'[HeapDir] = 0
      <4>1. HeapDirFreed'
        BY <1>4, <1>7, <2>2, <3>4 DEF HeapDirFreed
      <4>2. NothingAbove'
        BY <1>2, <1>7, <2>2, Regions DEF SpaceInv, HeapDirState, NothingAbove, HeapBreak
      <4>3. \A p \in CodePages : pagusr_table'[HeapDir][p] # NotPresent
        BY <1>7, <2>2 DEF SpaceInv, HeapDirState
      <4> QED
        BY <4>1, <4>2, <4>3 DEF HeapDirState
    <3> QED
      BY <3>3, <3>4
  <2> QED
    BY <2>1, <2>2
<1>12. TLBFresh'
  <2> SUFFICES ASSUME uncounted_forks' = 0 PROVE stale' \subseteq {PAG_LOG_INIT_HEAP}
    BY DEF TLBFresh
  <2>1. uncounted_forks = 0 /\ stale \subseteq {PAG_LOG_INIT_HEAP}
    BY <1>2 DEF SpaceInv, TLBFresh
  <2>2. ASSUME NEW u \in Users(d) \ {t} PROVE Remapped(t) = {}
    <3>1. u \in Users(d) \ {t} /\ u \in Users(d)'
      BY <1>3, <2>2 DEF Users
    <3>2. \A n \in Slot : n = d => dir_counter'[n] = Cardinality(Users(n)')
      <4> SUFFICES ASSUME NEW n \in Slot, n = d PROVE dir_counter'[n] = Cardinality(Users(n)')
        OBVIOUS
      <4>1. RightCount(n)
        BY <1>3, <2>1 DEF RightCount, SpaceInv, CountInv, SharersCounted, InUse
      <4>2. RightCount(n)'
        BY <1>1, <1>3, <4>1, ExitCounts
      <4>3. u \in Users(n)'
        BY <3>1, <1>3 DEF Users
      <4> QED
        BY <4>2, <4>3 DEF RightCount
    <3>3. IsFiniteSet(Users(d)')
      BY <1>3, Slots, FS_Subset DEF Users, TaskTypes
    <3>4. dir_counter'[d] # 0
      <4>1. dir_counter'[d] = Cardinality(Users(d)')
        BY <1>3, <3>2
      <4> QED
        BY <3>1, <3>3, <4>1, FS_EmptySet
    <3> QED
      BY <1>7, <3>4 DEF Remapped
  <2> QED
    BY <1>2, <2>1, <2>2
<1>13. [Next]_vars
  BY DEF Next
<1> QED
  BY <1>6, <1>8, <1>9, <1>10, <1>11, <1>12, <1>13, SpaceParts

\* A step that leaves the memory, the tasks and the TLB alone.
LEMMA SpaceKept ==
    ASSUME SpaceInv, [Next]_vars, UNCHANGED <<memVars, alive, stale, uncounted_forks>>,
           halted' \in BOOLEAN, eax' \in Int
    PROVE  SpaceInv'
<1>1. UNCHANGED <<phys_mem, pagusr_table, dir_counter, programbreak_table, dir, alive, stale,
                  uncounted_forks>>
  BY DEF memVars
<1>2. MemTypes'
  BY <1>1 DEF SpaceInv, MemTypes
<1>3. Breaks' /\ OthersCounted' /\ TLBFresh'
  BY <1>1 DEF SpaceInv, Breaks, OthersCounted, TLBFresh, HeapBreak, RightCount, Users
<1>4. HeapDirState'
  BY <1>1 DEF SpaceInv, HeapDirState, HeapDirRuns, HeapDirFreed, NothingAbove, HeapBreak
<1>5. FramesRight(Kept', pagusr_table', phys_mem')
  BY <1>1 DEF SpaceInv, Kept, Users
<1> QED
  BY <1>2, <1>3, <1>4, <1>5, SpaceParts

LEMMA SpaceClone == ASSUME SpaceInv, Clone PROVE SpaceInv'
<1>1. PICK t \in Task : sys_clone(t, NextPCB)
  BY DEF Clone
<1> DEFINE c == NextPCB
<1>2. /\ CanRun(t) /\ free_pcbs # {} /\ eax' = c
      /\ UNCHANGED <<phys_mem, pagusr_table, programbreak_table, stale, halted, uncounted_forks>>
  BY <1>1 DEF sys_clone, Clone
<1>3. /\ c \in Task \ alive
      /\ dir_counter' = [dir_counter EXCEPT ![dir[t]] = @ + 1]
      /\ alive' = alive \cup {c}
      /\ \A u \in alive : dir'[u] = dir[u]
      /\ dir'[c] = dir[t]
      /\ TaskTypes
  BY <1>1, <1>2, CloneTasks DEF SpaceInv, CountInv
<1> HIDE DEF c
<1>4. dir[t] \in Kept /\ dir_counter \in [Slot -> Int]
  BY <1>2, <1>3, WhoseBreak DEF TaskTypes
<1>5. MemTypes'
  <2>1. eax' \in Int
    BY <1>2, <1>3, Slots
  <2>2. halted' \in BOOLEAN
    BY <1>2, Zenon DEF SpaceInv, MemTypes
  <2> QED
    BY <1>2, <2>1, <2>2 DEF SpaceInv, MemTypes
<1>6. Breaks' /\ TLBFresh'
  BY <1>2 DEF SpaceInv, Breaks, TLBFresh, HeapBreak
<1>7. OthersCounted'
  BY <1>1, <1>2, <1>3, CloneCounts DEF SpaceInv, OthersCounted
<1>8. HeapDirState'
  <2>1. \/ dir[t] = HeapDir /\ HeapDirRuns /\ dir_counter'[HeapDir] = dir_counter[HeapDir] + 1
        \/ dir_counter'[HeapDir] = dir_counter[HeapDir]
    BY <1>2, <1>3, <1>4, WhoseBreak, Slots DEF HeapDir
  <2>2. dir_counter[HeapDir] \in Int
    BY <1>4, Slots DEF HeapDir
  <2> QED
    BY <1>2, <2>1, <2>2
       DEF SpaceInv, HeapDirState, HeapDirRuns, HeapDirFreed, NothingAbove, HeapBreak
<1>9. FramesRight(Kept', pagusr_table', phys_mem')
  <2>1. Kept' \subseteq Kept
    <3> SUFFICES ASSUME NEW n \in Slot, n \in Kept', n # dir[t] PROVE n \in Kept
      BY <1>4 DEF Kept
    <3>1. Users(n)' = Users(n) /\ dir_counter'[n] = dir_counter[n]
      BY <1>3, <1>4 DEF Users
    <3> QED
      BY <3>1 DEF Kept
  <2>2. FramesRight(Kept', pagusr_table, phys_mem)
    BY <2>1, KeepStep
  <2> QED
    BY <1>2, <2>2
<1>10. [Next]_vars
  BY DEF Next
<1> QED
  BY <1>5, <1>6, <1>7, <1>8, <1>9, <1>10, SpaceParts

\* Only tasks of task1's directory get through fork; the child's directory
\* is one that nobody uses, or the parent's own if there is none.
LEMMA ForkSpace ==
    ASSUME SpaceInv, NEW t \in Task, free_pcbs # {}, sys_fork(t, NextPCB)
    PROVE  /\ dir[t] = HeapDir /\ HeapDirRuns
           /\ FreeDirs # {} => /\ FirstDir # HeapDir /\ FirstDir \in Kept
                               /\ Users(FirstDir) = {} /\ NewDir(t) = FirstDir
           /\ FreeDirs = {} => NewDir(t) = HeapDir
           /\ NewDir(t) \in Kept /\ NewDir(t) \in Slot
           /\ dir_counter'[HeapDir] = dir_counter[HeapDir]
           /\ PagesToCopy(t) = PageAbove(HeapBreak) - PAG_LOG_INIT_DATA
           /\ OthersCounted'
           /\ \A n \in Kept' : n \in Kept /\ (n = NewDir(t) => alive' # alive \/ n = HeapDir)
           /\ Inherited(t) \in [Page -> Frame \cup {NotPresent}]
           /\ \A p \in UserPage :
                 Inherited(t)[p] = IF p \in CodePages \/ p \in PAG_LOG_INIT_HEAP .. PageAbove(HeapBreak) - 1
                                   THEN pagusr_table[HeapDir][p]
                                   ELSE pagusr_table[NewDir(t)][p]
<1>1. CanRun(t) /\ Break(t) # 0
  BY DEF sys_fork
<1>2. dir[t] = HeapDir /\ HeapDirRuns /\ Break(t) = HeapBreak
  BY <1>1, WhoseBreak
<1>3. TaskTypes /\ OthersCounted /\ MemTypes
  BY DEF SpaceInv, CountInv
<1>4. ASSUME FreeDirs # {}
      PROVE  FirstDir # HeapDir /\ FirstDir \in Slot /\ FirstDir \in Kept /\ Users(FirstDir) = {}
             /\ NewDir(t) = FirstDir
  <2>1. FirstDir \in Slot /\ dir_counter[FirstDir] = 0
    BY <1>4, FirstDirFree DEF FreeDirs
  <2>2. FirstDir # HeapDir
    BY <1>2, <2>1 DEF HeapDirRuns
  <2>3. Users(FirstDir) = {}
    <3>1. RightCount(FirstDir) /\ IsFiniteSet(Users(FirstDir))
      BY <1>3, <2>1, <2>2, UsersFinite DEF OthersCounted, TaskTypes
    <3> QED
      BY <2>1, <3>1, FS_EmptySet DEF RightCount
  <2> QED
    BY <1>4, <2>1, <2>2, <2>3 DEF Kept, NewDir
<1>5. /\ NewDir(t) \in Kept /\ NewDir(t) \in Slot
      /\ FreeDirs = {} => NewDir(t) = HeapDir
      /\ HeapDir \in Slot
  BY <1>2, <1>4, Regions DEF NewDir
<1>6. /\ NextPCB \notin alive
      /\ dir_counter' = DirTaken
      /\ alive' = alive \/ alive' = alive \cup {NextPCB}
      /\ \A u \in alive : dir'[u] = dir[u]
      /\ dir'[NextPCB] = NewDir(t)
  BY <1>3, ForkTasks
<1>7. dir_counter'[HeapDir] = dir_counter[HeapDir]
  BY <1>4, <1>5, <1>6 DEF DirTaken
<1>8. PagesToCopy(t) = PageAbove(HeapBreak) - PAG_LOG_INIT_DATA
  <2> DEFINE b == HeapBreak
  <2>1. (b - 1) \div PAGE_SIZE = PageAbove(b) - 1 /\ PageAbove(b) \in Int
    BY HeapBreakOK
  <2>2. PagesToCopy(t) = NUM_PAG_DATA + (b - 1) \div PAGE_SIZE - PAG_LOG_INIT_HEAP + 1
    BY <1>2 DEF PagesToCopy
  <2> HIDE DEF b
  <2>3. PagesToCopy(t) = PageAbove(b) - PAG_LOG_INIT_DATA
    BY <2>1, <2>2, Layout
  <2> QED
    BY <2>3 DEF b
<1>9. OthersCounted'
  <2> SUFFICES ASSUME NEW n \in Slot \ {HeapDir} PROVE RightCount(n)'
    BY DEF OthersCounted
  <2>1. RightCount(n)
    BY <1>3 DEF OthersCounted
  <2>2. FreeDirs = {} => n # dir[t]
    BY <1>2
  <2> QED
    BY <1>3, <1>4, <2>1, <2>2, ForkCounts
<1>10. ASSUME NEW n \in Kept' PROVE n \in Kept /\ (n = NewDir(t) => alive' # alive \/ n = HeapDir)
  <2>0. n \in Slot /\ (n = HeapDir \/ Users(n)' # {} \/ dir_counter'[n] = 0)
    BY <1>10 DEF Kept
  <2>1. CASE n # NewDir(t)
    <3>1. dir_counter'[n] = dir_counter[n]
      BY <1>4, <1>6, <2>0, <2>1 DEF DirTaken
    <3>2. Users(n)' = Users(n)
      BY <1>6, <2>1 DEF Users
    <3> QED
      BY <2>0, <2>1, <3>1, <3>2 DEF Kept
  <2>2. CASE n = NewDir(t)
    <3>1. ASSUME alive' = alive, n # HeapDir PROVE FALSE
      <4>1. FreeDirs # {} /\ n = FirstDir /\ Users(n) = {}
        BY <1>4, <1>5, <2>2, <3>1
      <4>2. dir_counter'[n] = 1
        BY <1>6, <2>0, <4>1 DEF DirTaken
      <4>3. Users(n)' = Users(n)
        BY <1>6, <3>1 DEF Users
      <4> QED
        BY <2>0, <3>1, <4>1, <4>2, <4>3
    <3> QED
      BY <1>5, <2>2, <3>1
  <2> QED
    BY <2>1, <2>2
<1>11. \A p \in Page :
          Inherited(t)[p] = IF \/ p < NUM_PAG_KERNEL
                               \/ p \in CodePages
                               \/ p \in PAG_LOG_INIT_HEAP .. PageAbove(HeapBreak) - 1
                            THEN get_frame(pagusr_table[HeapDir], p)
                            ELSE pagusr_table[NewDir(t)][p]
  BY <1>2, HeapBreakOK DEF Inherited, CodePages
<1>12. Inherited(t) \in [Page -> Frame \cup {NotPresent}]
  <2>1. pagusr_table[HeapDir] \in [Page -> Frame \cup {NotPresent}]
        /\ pagusr_table[NewDir(t)] \in [Page -> Frame \cup {NotPresent}]
    BY <1>3, <1>5 DEF MemTypes
  <2>2. 0 \in Frame
    BY Layout DEF Frame
  <2>3. \A p \in Page : get_frame(pagusr_table[HeapDir], p) \in Frame \cup {NotPresent}
    BY <2>1, <2>2 DEF get_frame
  <2>4. \A p \in Page : Inherited(t)[p] \in Frame \cup {NotPresent}
    BY <1>11, <2>1, <2>3
  <2>5. Inherited(t) = [p \in Page |-> Inherited(t)[p]]
    BY DEF Inherited
  <2> QED
    BY <2>4, <2>5
<1>13. ASSUME NEW p \in UserPage
       PROVE  Inherited(t)[p] = IF p \in CodePages \/ p \in PAG_LOG_INIT_HEAP .. PageAbove(HeapBreak) - 1
                                THEN pagusr_table[HeapDir][p]
                                ELSE pagusr_table[NewDir(t)][p]
  <2>1. p \in Page /\ ~(p < NUM_PAG_KERNEL)
    BY Regions, Layout DEF UserPage
  <2>2. p \in CodePages => pagusr_table[HeapDir][p] # NotPresent
    BY DEF SpaceInv, HeapDirState
  <2>3. p \in PAG_LOG_INIT_HEAP .. PageAbove(HeapBreak) - 1 => pagusr_table[HeapDir][p] # NotPresent
    BY <1>2, HeapBreakOK, Layout DEF HeapDirRuns, HeapPages, UserPage
  <2> QED
    BY <1>11, <2>1, <2>2, <2>3 DEF get_frame
<1> QED
  BY <1>2, <1>4, <1>5, <1>7, <1>8, <1>9, <1>10, <1>12, <1>13

LEMMA SpaceForkFails ==
    ASSUME SpaceInv, NEW t \in Task, Fork, free_pcbs # {}, sys_fork(t, NextPCB),
           ForkOutOfMemory(t, NextPCB)
    PROVE  SpaceInv'
<1>1. /\ phys_mem' = RolledBack
      /\ pagusr_table' = [pagusr_table EXCEPT ![NewDir(t)] = Inherited(t)]
      /\ eax' = -ENOMEM
      /\ UNCHANGED <<alive, halted, stale, programbreak_table>>
      /\ uncounted_forks' = uncounted_forks + IF FreeDirs = {} THEN 1 ELSE 0
      /\ uncounted_forks' <= MaxUncounted
  BY DEF ForkOutOfMemory, sys_fork
<1>2. /\ HeapDirRuns
      /\ NewDir(t) = HeapDir \/ NewDir(t) \notin Kept'
      /\ NewDir(t) \in Slot /\ HeapDir \in Slot
      /\ dir_counter'[HeapDir] = dir_counter[HeapDir]
      /\ OthersCounted'
      /\ Kept' \subseteq Kept
      /\ Inherited(t) \in [Page -> Frame \cup {NotPresent}]
      /\ NewDir(t) = HeapDir =>
            \A p \in UserPage : Inherited(t)[p] = pagusr_table[HeapDir][p]
  BY <1>1, ForkSpace, Regions
<1>3. MemTypes /\ phys_mem' = phys_mem
  BY <1>1, RolledBackAll DEF SpaceInv, CountInv
<1>4. ASSUME NEW n \in Kept' \cup {HeapDir}, NEW p \in UserPage
      PROVE  pagusr_table'[n][p] = pagusr_table[n][p]
  <2>1. n \in Slot
    BY <1>2 DEF Kept
  <2>2. n = NewDir(t) => n = HeapDir
    BY <1>2
  <2> QED
    BY <1>1, <1>2, <1>3, <2>1, <2>2 DEF MemTypes
<1>5. FramesRight(Kept', pagusr_table', phys_mem')
  BY <1>2, <1>3, <1>4, KeepStep
<1>6. MemTypes'
  <2>1. pagusr_table' \in [Slot -> [Page -> Frame \cup {NotPresent}]]
    BY <1>1, <1>2, <1>3 DEF MemTypes
  <2>2. halted' \in BOOLEAN
    BY <1>1, <1>3, Zenon DEF MemTypes
  <2> QED
    BY <1>1, <1>3, <2>1, <2>2 DEF MemTypes, ENOMEM
<1>7. Breaks'
  BY <1>1 DEF SpaceInv, Breaks, HeapBreak
<1>8. TLBFresh'
  BY <1>1 DEF SpaceInv, TLBFresh, CountInv
<1>9. HeapDirState'
  <2>1. CodePages \subseteq UserPage /\ DataPages \subseteq UserPage /\ HeapPages \subseteq UserPage
    BY Regions
  <2>2. \A p \in UserPage : pagusr_table'[HeapDir][p] = pagusr_table[HeapDir][p]
    BY <1>4
  <2> QED
    BY <1>1, <1>2, <2>1, <2>2 DEF SpaceInv, HeapDirState, HeapDirRuns, NothingAbove, HeapBreak
<1>10. [Next]_vars
  BY DEF Next
<1> QED
  BY <1>2, <1>5, <1>6, <1>7, <1>8, <1>9, <1>10, SpaceParts

LEMMA SpaceForkCopies ==
    ASSUME SpaceInv, NEW t \in Task, Fork, free_pcbs # {}, sys_fork(t, NextPCB),
           CopyPages(t, NextPCB)
    PROVE  SpaceInv'
<1> DEFINE n == PagesToCopy(t)
           extra == Pages(PAG_LOG_INIT_DATA + n, n)
           new == NewDir(t)
           old == pagusr_table[HeapDir]
           top == PageAbove(HeapBreak)
           inherited == Inherited(t)
<1>1. /\ HeapDirRuns
      /\ n = top - PAG_LOG_INIT_DATA /\ top \in Int
      /\ new \in Kept /\ new \in Slot /\ HeapDir \in Slot /\ HeapDir \in Kept
      /\ dir_counter'[HeapDir] = dir_counter[HeapDir]
      /\ OthersCounted'
      /\ Kept' \subseteq Kept /\ Kept \subseteq Slot
      /\ inherited \in [Page -> Frame \cup {NotPresent}]
      /\ \A p \in UserPage : inherited[p] = IF p \in CodePages \/ p \in PAG_LOG_INIT_HEAP .. top - 1
                                            THEN old[p] ELSE pagusr_table[new][p]
      /\ dir[t] = HeapDir
  BY ForkSpace, Regions, HeapBreakOK
<1>2. PICK frames \in AllocFrames(n) :
         /\ phys_mem' = phys_mem \cup Range(frames)
         /\ pagusr_table' =
              [[pagusr_table EXCEPT ![new] = Mapped(inherited, PAG_LOG_INIT_DATA, frames)]
                 EXCEPT ![dir[t]] = Unmapped(@, extra)]
         /\ halted' = \E p \in Pages(PAG_LOG_INIT_DATA, n) :
                          /\ dir[t] # new
                          /\ pagusr_table[dir[t]][p] = NotPresent
         /\ stale' = {}
  BY Zenon DEF CopyPages, TemporaryPages, set_cr3
<1>3. /\ eax' = NextPCB /\ UNCHANGED programbreak_table
      /\ uncounted_forks' <= MaxUncounted
  BY Zenon DEF CopyPages, sys_fork
<1>4. /\ DOMAIN frames = 0 .. n - 1
      /\ \A i \in 0 .. n - 1 : frames[i] \in Allocatable
      /\ Range(frames) \subseteq Allocatable
  BY <1>1, <1>2, AllocatedFrames, Layout
<1> DEFINE table == Mapped(inherited, PAG_LOG_INIT_DATA, frames)
<1>5. MemTypes
  BY DEF SpaceInv
<1> HIDE DEF n, new, top, inherited
<1>6. \A p \in Page : table[p] = IF p - PAG_LOG_INIT_DATA \in 0 .. n - 1
                                 THEN frames[p - PAG_LOG_INIT_DATA] ELSE inherited[p]
  BY <1>4 DEF Mapped
<1>7. table \in [Page -> Frame \cup {NotPresent}]
  <2>1. \A p \in Page : table[p] \in Frame \cup {NotPresent}
    BY <1>1, <1>4, <1>6, UserFrames
  <2>2. table = [p \in Page |-> table[p]]
    BY DEF Mapped
  <2> HIDE DEF table
  <2> QED
    BY <2>1, <2>2
<1> HIDE DEF table
<1>8. \A m \in Slot, p \in Page :
         pagusr_table'[m][p] = IF m = HeapDir /\ p \in extra THEN NotPresent
                               ELSE IF m = new THEN table[p] ELSE pagusr_table[m][p]
  BY <1>1, <1>2, <1>5 DEF MemTypes, Unmapped, table
<1>9. UserPage \subseteq Page /\ PAG_LOG_INIT_DATA \in Int /\ PAG_LOG_INIT_HEAP \in Int
      /\ PAG_LOG_INIT_DATA < PAG_LOG_INIT_HEAP
  BY Regions, Layout
<1>10. FramesRight(Kept', pagusr_table', phys_mem')
  <2> SUFFICES ASSUME NEW m \in Kept', NEW p \in UserPage
               PROVE  \/ pagusr_table'[m][p] = NotPresent
                      \/ pagusr_table'[m][p] = pagusr_table[m][p]
                      \/ p \in CodePages /\ pagusr_table'[m][p] = pagusr_table[HeapDir][p]
                      \/ /\ m = new /\ p \in PrivatePages
                         /\ p - PAG_LOG_INIT_DATA \in 0 .. n - 1
                         /\ pagusr_table'[m][p] = frames[p - PAG_LOG_INIT_DATA]
    <3>1. PAG_LOG_INIT_DATA \in Int /\ n \in Int /\ Kept' \in SUBSET Kept
      BY <1>1, <1>9
    <3>2. FramesMapped(Kept', pagusr_table', new, PAG_LOG_INIT_DATA, n, frames)
      BY DEF FramesMapped
    <3> QED
      BY <1>2, <3>1, <3>2, MapStep
  <2>1. m \in Slot /\ p \in Page
    BY <1>1, <1>9
  <2>2. CASE ~(m = HeapDir /\ p \in extra) /\ m = new
    <3>1. pagusr_table'[m][p] = table[p]
      BY <1>8, <2>1, <2>2
    <3>2. CASE p - PAG_LOG_INIT_DATA \in 0 .. n - 1
      <4>1. p \in PrivatePages
        BY <1>9, <3>2 DEF UserPage, PrivatePages
      <4> QED
        BY <1>6, <2>1, <2>2, <3>1, <3>2, <4>1
    <3>3. CASE p - PAG_LOG_INIT_DATA \notin 0 .. n - 1
      <4>1. pagusr_table'[m][p] = inherited[p]
        BY <1>6, <2>1, <3>1, <3>3
      <4>2. p \notin PAG_LOG_INIT_HEAP .. top - 1
        BY <1>1, <1>9, <3>3 DEF UserPage
      <4> QED
        BY <1>1, <2>2, <4>1, <4>2
    <3> QED
      BY <3>2, <3>3
  <2> QED
    BY <1>8, <2>1, <2>2
<1>11. MemTypes'
  <2>1. phys_mem' \subseteq Frame
    BY <1>2, <1>4, <1>5, UserFrames DEF MemTypes
  <2>2. pagusr_table' \in [Slot -> [Page -> Frame \cup {NotPresent}]]
    BY <1>1, <1>2, <1>5, <1>7 DEF MemTypes, Unmapped, table
  <2>3. halted' \in BOOLEAN
    BY <1>2
  <2>4. eax' \in Int
    <3>1. NextPCB \in Task
      BY NextPCBFree DEF SpaceInv, CountInv, TaskTypes
    <3> QED
      BY <1>3, <3>1, Slots
  <2> QED
    BY <1>2, <1>3, <2>1, <2>2, <2>3, <2>4 DEF MemTypes
<1>12. Breaks'
  BY <1>3 DEF SpaceInv, Breaks, HeapBreak
<1>13. TLBFresh'
  BY <1>2 DEF TLBFresh
<1>14. HeapDirState'
  <2>1. ASSUME NEW p \in UserPage, p < top, old[p] # NotPresent
        PROVE  pagusr_table'[HeapDir][p] # NotPresent
    <3>1. p \in Page /\ p \notin extra /\ p \in Int
      BY <1>1, <1>9, <2>1, Regions DEF Pages
    <3>2. pagusr_table'[HeapDir][p] = IF new = HeapDir THEN table[p] ELSE old[p]
      BY <1>1, <1>8, <3>1
    <3>3. CASE p - PAG_LOG_INIT_DATA \in 0 .. n - 1
      BY <1>4, <1>6, <2>1, <3>1, <3>2, <3>3, UserFrames
    <3>4. CASE p - PAG_LOG_INIT_DATA \notin 0 .. n - 1
      BY <1>1, <1>6, <2>1, <3>1, <3>2, <3>4
    <3> QED
      BY <3>3, <3>4
  <2>2. ASSUME NEW p \in HeapPages, p >= top, old[p] = NotPresent
        PROVE  pagusr_table'[HeapDir][p] = NotPresent
    <3>1. p \in UserPage /\ p \in Page /\ p \in Int /\ p \notin CodePages
          /\ p - PAG_LOG_INIT_DATA \notin 0 .. n - 1
      BY <1>1, <1>9, <2>2, Regions
    <3>2. inherited[p] = pagusr_table[new][p]
      BY <1>1, <2>2, <3>1
    <3> QED
      BY <1>1, <1>6, <1>8, <2>2, <3>1, <3>2
  <2>3. /\ CodePages \subseteq UserPage /\ DataPages \subseteq UserPage /\ HeapPages \subseteq UserPage
        /\ \A p \in CodePages \cup DataPages : p < top
    BY HeapBreakOK, Layout, Regions DEF CodePages, DataPages, Pages, top
  <2>4. HeapBreak' = HeapBreak
    BY <1>3 DEF HeapBreak
  <2>5. HeapDirRuns'
    BY <1>1, <2>1, <2>3, <2>4 DEF HeapDirRuns, top
  <2>6. NothingAbove'
    BY <2>2, <2>4 DEF SpaceInv, HeapDirState, NothingAbove, top
  <2>7. \A p \in CodePages : pagusr_table'[HeapDir][p] # NotPresent
    BY <2>1, <2>3 DEF SpaceInv, HeapDirState
  <2> QED
    BY <2>5, <2>6, <2>7 DEF HeapDirState
<1>15. [Next]_vars
  BY DEF Next
<1> QED
  BY <1>1, <1>10, <1>11, <1>12, <1>13, <1>14, <1>15, SpaceParts

\* alloc_frame gives every second frame only, so there are not enough of them
\* to fill the page table: the heap stops short of it.
LEMMA HeapFull ==
    ASSUME SpaceInv, HeapDirRuns, NEW last \in Int, last >= PageAbove(HeapBreak),
           NEW frames \in AllocFrames(last - PageAbove(HeapBreak))
    PROVE  last < TOTAL_PAGES
<1> DEFINE top == PageAbove(HeapBreak)
           old == pagusr_table[HeapDir]
           spare == NUM_PAG_KERNEL + 1
           f == [p \in UserPage |-> IF p < top THEN old[p] ELSE frames[p - top]]
<1> SUFFICES ASSUME ~(last < TOTAL_PAGES) PROVE FALSE
  OBVIOUS
<1>1. top \in PAG_LOG_INIT_HEAP .. TOTAL_PAGES - 1
  BY HeapBreakOK
<1>2. /\ \A i \in 0 .. last - top - 1 : frames[i] \in Allocatable \ phys_mem
      /\ \A i, j \in 0 .. last - top - 1 : frames[i] = frames[j] => i = j
  BY <1>1, AllocatedFrames, Layout
<1> HIDE DEF top
<1>3. ASSUME NEW p \in UserPage
      PROVE  /\ p \in Int
             /\ p < top => f[p] = old[p] /\ old[p] # NotPresent /\ old[p] \in phys_mem \cap Allocatable
             /\ ~(p < top) => /\ p - top \in 0 .. last - top - 1
                              /\ f[p] = frames[p - top] /\ f[p] \in Allocatable \ phys_mem
  <2>1. p \in Int /\ p < TOTAL_PAGES
    BY Layout DEF UserPage
  <2>2. ~(p < top) => p - top \in 0 .. last - top - 1
    BY <1>1, <2>1, Layout
  <2>3. p < top => old[p] # NotPresent
    BY Regions DEF SpaceInv, HeapDirState, HeapDirRuns, top
  <2>4. old[p] # NotPresent => old[p] \in phys_mem \cap Allocatable
    BY Regions DEF SpaceInv, FramesRight, FramesTaken
  <2> QED
    BY <1>2, <2>1, <2>2, <2>3, <2>4
<1>4. spare \in UserPage /\ IsFiniteSet(UserPage) /\ Allocatable \subseteq UserPage \ {spare}
  <2>1. spare \in UserPage
    BY Layout DEF UserPage
  <2>2. IsFiniteSet(UserPage)
    <3>1. PAG_LOG_INIT_CODE \in Int /\ TOTAL_PAGES - 1 \in Int
      BY Layout
    <3> QED
      BY <3>1, FS_Interval DEF UserPage
  <2>3. ASSUME NEW g \in Allocatable PROVE g \in UserPage /\ g # spare
    BY Layout DEF Allocatable, Frame, UserPage
  <2> QED
    BY <2>1, <2>2, <2>3
<1>5. /\ IsFiniteSet(UserPage \ {spare})
      /\ Cardinality(UserPage \ {spare}) < Cardinality(UserPage)
  <2> HIDE DEF spare, f
  <2>1. Cardinality(UserPage) \in Nat
    BY <1>4, FS_CardinalityType
  <2>2. spare \in UserPage /\ IsFiniteSet(UserPage)
    BY <1>4
  <2>3. /\ IsFiniteSet(UserPage \ {spare})
        /\ Cardinality(UserPage \ {spare}) = Cardinality(UserPage) - 1
    BY <2>2, FS_RemoveElement
  <2> QED
    BY <2>1, <2>3
<1>6. f \in [UserPage -> UserPage \ {spare}]
  BY <1>3, <1>4
<1>7. PICK p \in UserPage, q \in UserPage : p # q /\ f[p] = f[q]
  <2> HIDE DEF f, spare
  <2> QED
    BY <1>4, <1>5, <1>6, FS_PigeonHole
<1> HIDE DEF f
<1>8. p < top /\ q < top
  <2>1. p < top <=> q < top
    BY <1>3, <1>7
  <2>2. ASSUME ~(p < top), ~(q < top) PROVE FALSE
    <3>1. p - top = q - top
      BY <1>2, <1>3, <1>7, <2>2
    <3> QED
      BY <1>1, <1>3, <1>7, <3>1 DEF top
  <2> QED
    BY <2>1, <2>2
<1>9. old[p] = old[q] /\ old[p] # NotPresent /\ old[q] # NotPresent
  BY <1>3, <1>7, <1>8
<1>10. CASE p \in PrivatePages \/ q \in PrivatePages
  <2>1. FramesApart(Kept, pagusr_table) /\ HeapDir \in Kept
    BY Regions DEF SpaceInv, FramesRight
  <2>2. \A x \in PrivatePages, y \in UserPage : old[x] # NotPresent /\ old[x] = old[y] => x = y
    BY <2>1 DEF FramesApart
  <2> QED
    BY <1>7, <1>9, <1>10, <2>2
<1>11. CASE p \in CodePages /\ q \in CodePages
  <2>1. BootFrame(p - PAG_LOG_INIT_CODE) = BootFrame(q - PAG_LOG_INIT_CODE)
    BY <1>9, <1>11, Regions DEF SpaceInv, FramesRight, CodeShared
  <2> QED
    BY <1>3, <1>7, <2>1, Layout DEF BootFrame
<1> QED
  BY <1>7, <1>10, <1>11, Regions

LEMMA HeapBreakSet ==
    ASSUME SpaceInv, NEW t \in Task, dir[t] = HeapDir, NEW address \in Nat,
           SetBreak(t, address)
    PROVE  /\ HeapBreak' = address /\ eax' \in Int
           /\ \A n \in Slot \ {HeapDir} : programbreak_table'[n] = programbreak_table[n]
<1>1. eax' \in Int
  BY BreakMoved DEF SpaceInv
<1>2. programbreak_table' = [programbreak_table EXCEPT ![HeapDir] = address]
      /\ programbreak_table \in [Slot -> Nat] /\ HeapDir \in Slot
  BY Regions DEF SpaceInv, CountInv, SetBreak
<1> QED
  BY <1>1, <1>2 DEF HeapBreak

LEMMA SbrkTasks ==
    ASSUME SpaceInv, UNCHANGED sbrkVars
    PROVE  Kept' = Kept /\ OthersCounted' /\ dir_counter' = dir_counter
BY DEF SpaceInv, sbrkVars, Kept, Users, OthersCounted, RightCount

LEMMA SpaceGrows ==
    ASSUME SpaceInv, NEW t \in Task, NEW increment \in Increments, Grow(t, increment), Sbrk
    PROVE  SpaceInv'
<1> DEFINE end == Break(t) + increment
           first == PageAbove(Break(t))
           n == PageAbove(end) - first
<1>0. [Next]_vars
  BY DEF Next
<1>1. CanRun(t) /\ UNCHANGED sbrkVars
  BY DEF Grow
<1>2. CASE /\ OutOfHeap(end) \/ AllocFrames(n) = {}
           /\ phys_mem' = IF OutOfHeap(end) THEN phys_mem ELSE RolledBack
           /\ eax' = -ENOMEM
           /\ UNCHANGED <<pagusr_table, programbreak_table, stale, halted>>
  <2>1. phys_mem' = phys_mem
    BY <1>2, RolledBackAll DEF SpaceInv, CountInv
  <2>2. halted' \in BOOLEAN
    BY <1>2, Zenon DEF SpaceInv, MemTypes
  <2>3. eax' \in Int
    BY <1>2 DEF ENOMEM
  <2>4. UNCHANGED <<memVars, alive, stale, uncounted_forks>>
    BY <1>1, <1>2, <2>1 DEF memVars, sbrkVars
  <2> QED
    BY <1>0, <2>2, <2>3, <2>4, SpaceKept
<1>3. CASE /\ first >= PAG_LOG_INIT_HEAP
           /\ \E frames \in AllocFrames(n) :
                /\ phys_mem' = phys_mem \cup Range(frames)
                /\ pagusr_table' = [pagusr_table EXCEPT ![dir[t]] = Mapped(@, first, frames)]
           /\ stale' = stale \cup Remapped(t)
           /\ SetBreak(t, end)
           /\ UNCHANGED halted
  <2>1. Break(t) # 0
    <3>1. PageAbove(0 * PAGE_SIZE) = 0 /\ 0 * PAGE_SIZE = 0
      BY PageAbovePage, Layout
    <3> QED
      BY <1>3, <3>1, Layout
  <2>2. dir[t] = HeapDir /\ HeapDirRuns /\ Break(t) = HeapBreak
    BY <1>1, <2>1, WhoseBreak
  <2> DEFINE top == PageAbove(HeapBreak)
             old == pagusr_table[HeapDir]
             last == PageAbove(end)
  <2>3. /\ HeapBreak \in Nat /\ end \in Nat /\ end >= HeapBreak
        /\ top \in PAG_LOG_INIT_HEAP .. TOTAL_PAGES - 1 /\ top \in Int
        /\ first = top
    BY <2>2, HeapBreakOK, MemAssumption
  <2>4. last \in Int /\ last >= top
    BY <2>3, PageAboveRounds, PageAboveGrows
  <2>5. PICK frames \in AllocFrames(n) :
           /\ phys_mem' = phys_mem \cup Range(frames)
           /\ pagusr_table' = [pagusr_table EXCEPT ![HeapDir] = Mapped(@, top, frames)]
    BY <1>3, <2>2
  <2>6. /\ DOMAIN frames = 0 .. n - 1 /\ n = last - top /\ n \in Int
        /\ \A i \in 0 .. n - 1 : frames[i] \in Allocatable
        /\ Range(frames) \subseteq Allocatable
    BY <2>3, <2>4, <2>5, AllocatedFrames
  <2>7. last < TOTAL_PAGES
    BY <2>2, <2>3, <2>4, <2>5, <2>6, HeapFull
  <2>8. /\ HeapBreak' = end /\ eax' \in Int
        /\ \A m \in Slot \ {HeapDir} : programbreak_table'[m] = programbreak_table[m]
    BY <1>3, <2>2, <2>3, HeapBreakSet
  <2>9. MemTypes /\ Kept' = Kept /\ OthersCounted' /\ dir_counter' = dir_counter
        /\ uncounted_forks' = uncounted_forks
    BY <1>1, SbrkTasks DEF SpaceInv, sbrkVars
  <2> HIDE DEF n, first, top, last, end
  <2>10. \A m \in Slot, p \in Page :
            pagusr_table'[m][p] = IF m = HeapDir /\ p - top \in 0 .. n - 1
                                  THEN frames[p - top] ELSE pagusr_table[m][p]
    BY <2>5, <2>6, <2>9, Regions DEF MemTypes, Mapped
  <2>11. Kept \subseteq Slot /\ HeapDir \in Kept /\ UserPage \subseteq Page /\ UserPage \subseteq Int
    BY Regions
  <2>12. FramesRight(Kept', pagusr_table', phys_mem')
    <3>1. FramesMapped(Kept, pagusr_table', HeapDir, top, n, frames)
      <4> SUFFICES ASSUME NEW m \in Kept, NEW p \in UserPage
                   PROVE  \/ pagusr_table'[m][p] = pagusr_table[m][p]
                          \/ /\ m = HeapDir /\ p \in PrivatePages
                             /\ p - top \in 0 .. n - 1
                             /\ pagusr_table'[m][p] = frames[p - top]
        BY DEF FramesMapped
      <4>1. p - top \in 0 .. n - 1 => p \in PrivatePages
        BY <2>3, <2>11, Layout DEF UserPage, PrivatePages
      <4> QED
        BY <2>10, <2>11, <4>1
    <3>2. FramesRight(Kept, pagusr_table', phys_mem \cup Range(frames))
      BY <2>3, <2>5, <2>6, <3>1, MapStep
    <3> QED
      BY <2>5, <2>9, <3>2
  <2>13. Remapped(t) \subseteq {PAG_LOG_INIT_HEAP}
    <3> SUFFICES ASSUME NEW p \in Page, old[p] # NotPresent, pagusr_table'[HeapDir][p] # old[p]
                 PROVE  p = PAG_LOG_INIT_HEAP
      BY <2>2 DEF Remapped
    <3>1. p - top \in 0 .. n - 1 /\ p \in Int
      BY <2>10, <2>11 DEF Page
    <3>2. p \in HeapPages /\ p >= top /\ ~(p < PAG_LOG_INIT_HEAP)
      BY <2>3, <3>1, Layout DEF HeapPages, Page
    <3> QED
      BY <2>3, <3>1, <3>2, Layout DEF SpaceInv, HeapDirState, NothingAbove, top
  <2>14. MemTypes'
    <3>1. phys_mem' \subseteq Frame
      BY <2>5, <2>6, <2>9, UserFrames DEF MemTypes
    <3>2. pagusr_table' \in [Slot -> [Page -> Frame \cup {NotPresent}]]
      <4>1. Mapped(old, top, frames) \in [Page -> Frame \cup {NotPresent}]
        BY <2>6, <2>9, <2>11, UserFrames DEF MemTypes, Mapped
      <4> QED
        BY <2>5, <2>9, <4>1 DEF MemTypes
    <3>3. halted' \in BOOLEAN
      BY <1>3, <2>9, Zenon DEF MemTypes
    <3>4. stale' \subseteq Page
      BY <1>3, <2>9 DEF MemTypes, Remapped
    <3> QED
      BY <2>8, <2>9, <3>1, <3>2, <3>3, <3>4 DEF MemTypes
  <2>15. Breaks'
    <3>1. HeapBreak >= PAG_LOG_INIT_HEAP * PAGE_SIZE /\ PAG_LOG_INIT_HEAP * PAGE_SIZE \in Int
      BY Layout DEF SpaceInv, Breaks
    <3>2. end >= PAG_LOG_INIT_HEAP * PAGE_SIZE
      BY <2>3, <3>1
    <3> QED
      BY <2>7, <2>8, <3>2 DEF SpaceInv, Breaks, last
  <2>16. TLBFresh'
    BY <1>3, <2>9, <2>13 DEF SpaceInv, TLBFresh
  <2>17. HeapDirState'
    <3>1. ASSUME NEW p \in UserPage, p < last, p < top => old[p] # NotPresent
          PROVE  pagusr_table'[HeapDir][p] # NotPresent
      BY <2>3, <2>4, <2>6, <2>10, <2>11, <3>1, UserFrames
    <3>2. ASSUME NEW p \in HeapPages, p >= last
          PROVE  pagusr_table'[HeapDir][p] = old[p] /\ p >= top
      BY <2>3, <2>4, <2>6, <2>10, <2>11, <3>2, Regions
    <3>3. /\ CodePages \subseteq UserPage /\ DataPages \subseteq UserPage /\ HeapPages \subseteq UserPage
          /\ \A p \in CodePages \cup DataPages : p < last
      BY <2>3, <2>4, Layout, Regions DEF CodePages, DataPages, Pages
    <3>4. PageAbove(HeapBreak') = last
      BY <2>8 DEF last
    <3>5. HeapDirRuns'
      BY <2>2, <2>9, <3>1, <3>3, <3>4 DEF HeapDirRuns, top
    <3>6. NothingAbove'
      BY <3>2, <3>4 DEF SpaceInv, HeapDirState, NothingAbove, top
    <3>7. \A p \in CodePages : pagusr_table'[HeapDir][p] # NotPresent
      BY <3>1, <3>3 DEF SpaceInv, HeapDirState
    <3> QED
      BY <3>5, <3>6, <3>7 DEF HeapDirState
  <2> QED
    BY <1>0, <2>9, <2>12, <2>14, <2>15, <2>16, <2>17, SpaceParts
<1> QED
  <2>1. \/ /\ OutOfHeap(end) \/ AllocFrames(n) = {}
           /\ phys_mem' = IF OutOfHeap(end) THEN phys_mem ELSE RolledBack
           /\ eax' = -ENOMEM
           /\ UNCHANGED <<pagusr_table, programbreak_table, stale, halted>>
        \/ /\ first >= PAG_LOG_INIT_HEAP
           /\ \E frames \in AllocFrames(n) :
                /\ phys_mem' = phys_mem \cup Range(frames)
                /\ pagusr_table' = [pagusr_table EXCEPT ![dir[t]] = Mapped(@, first, frames)]
           /\ stale' = stale \cup Remapped(t)
           /\ SetBreak(t, end)
           /\ UNCHANGED halted
    BY Zenon DEF Grow
  <2> QED
    BY <1>2, <1>3, <2>1

LEMMA SpaceShrinks ==
    ASSUME SpaceInv, NEW t \in Task, NEW decrement \in Decrements, Shrink(t, decrement), Sbrk
    PROVE  SpaceInv'
<1> DEFINE end == Break(t) - decrement
           S == ReleasedPages(t, end)
           b == HeapBreak
           b1 == ShrunkBreak(end)
           new == IF end \div PAGE_SIZE < PAG_LOG_INIT_HEAP THEN PAG_LOG_INIT_HEAP
                                                            ELSE end \div PAGE_SIZE
           floor == PAG_LOG_INIT_HEAP * PAGE_SIZE
<1>0. [Next]_vars
  BY DEF Next
<1>1. /\ CanRun(t) /\ end >= 0 /\ UNCHANGED sbrkVars
      /\ phys_mem' = phys_mem \ Freed(FramesOf(pagusr_table[dir[t]], S))
      /\ pagusr_table' = [pagusr_table EXCEPT ![dir[t]] = Unmapped(@, S)]
      /\ stale' = {}
      /\ SetBreak(t, b1)
      /\ UNCHANGED halted
  BY DEF Shrink, set_cr3
<1>2. decrement \in Nat /\ decrement > 0
  BY MemAssumption
<1>3. Break(t) # 0
  <2>1. Break(t) \in Nat
    BY BreakOK DEF SpaceInv
  <2> QED
    BY <1>1, <1>2, <2>1
<1>4. dir[t] = HeapDir /\ HeapDirRuns /\ Break(t) = HeapBreak
  BY <1>1, <1>3, WhoseBreak
<1>5. /\ b \in Nat /\ end \in Nat /\ end < b
      /\ b \div PAGE_SIZE \in PAG_LOG_INIT_HEAP .. TOTAL_PAGES - 1
      /\ PageAbove(b) < TOTAL_PAGES /\ PageAbove(b) \in Int
      /\ b >= floor /\ floor \in Nat
  BY <1>1, <1>2, <1>4, HeapBreakOK, Layout DEF SpaceInv, Breaks
<1>6. S = (new + 1 .. b \div PAGE_SIZE) \cup IF Aligned(end) THEN {new} ELSE {}
  BY <1>4 DEF ReleasedPages
<1>7. b1 = IF end \div PAGE_SIZE < PAG_LOG_INIT_HEAP THEN floor ELSE end
  BY DEF ShrunkBreak
<1> HIDE DEF end, S, b, b1, floor
<1>8. end \div PAGE_SIZE \in Int /\ end \div PAGE_SIZE <= b \div PAGE_SIZE
  <2>1. end \div PAGE_SIZE \in Int /\ b \div PAGE_SIZE \in Int
    BY <1>5, DivisionRounds
  <2>2. (end \div PAGE_SIZE) * PAGE_SIZE <= end
    BY <1>5, <2>1, DivisionRounds
  <2> DEFINE e == end \div PAGE_SIZE
  <2> HIDE DEF e
  <2>3. e \in Int /\ e * PAGE_SIZE <= end /\ e * PAGE_SIZE \in Int
    BY <2>1, <2>2, Layout DEF e
  <2>4. e <= b \div PAGE_SIZE
    BY <1>5, <2>3, DivisionRounds
  <2> QED
    BY <2>1, <2>4 DEF e
<1>9. /\ new \in Int /\ new >= PAG_LOG_INIT_HEAP /\ new <= b \div PAGE_SIZE
  BY <1>5, <1>8, Layout
<1>10. S \subseteq HeapPages
  BY <1>5, <1>6, <1>9, Layout DEF HeapPages
\* The pages up to the new break.
<1>11. /\ b1 \in Nat /\ floor <= b1 /\ b1 <= b
       /\ PageAbove(b1) \in Int /\ PageAbove(b1) <= PageAbove(b)
       /\ PageAbove(b1) = new \/ (~Aligned(end) /\ PageAbove(b1) = new + 1)
       /\ PageAbove(b1) = new => Aligned(end) \/ new = PAG_LOG_INIT_HEAP
  <2>1. CASE end \div PAGE_SIZE < PAG_LOG_INIT_HEAP
    <3>1. b1 = floor /\ new = PAG_LOG_INIT_HEAP
      BY <1>7, <2>1
    <3>2. PageAbove(floor) = PAG_LOG_INIT_HEAP
      BY PageAbovePage, Layout DEF floor
    <3>3. PageAbove(b1) <= PageAbove(b)
      BY <1>5, <3>1, PageAboveGrows
    <3> QED
      BY <1>5, <3>1, <3>2, <3>3, Layout
  <2>2. CASE ~(end \div PAGE_SIZE < PAG_LOG_INIT_HEAP)
    <3>1. b1 = end /\ new = end \div PAGE_SIZE
      BY <1>7, <2>2
    <3>2. floor <= end
      <4>1. PAG_LOG_INIT_HEAP \in Int /\ PAG_LOG_INIT_HEAP <= end \div PAGE_SIZE /\ end \in Int
        BY <1>5, <1>8, <2>2, Layout
      <4> QED
        BY <4>1, DivisionRounds DEF floor
    <3>3. PageAbove(end) <= PageAbove(b)
      BY <1>5, PageAboveGrows
    <3>4. PageAbove(end) = end \div PAGE_SIZE + IF Aligned(end) THEN 0 ELSE 1
      BY DEF PageAbove
    <3> QED
      BY <1>5, <1>8, <3>1, <3>2, <3>3, <3>4
  <2> QED
    BY <2>1, <2>2
<1>12. /\ HeapBreak' = b1 /\ eax' \in Int
       /\ \A m \in Slot \ {HeapDir} : programbreak_table'[m] = programbreak_table[m]
  BY <1>1, <1>4, <1>11, HeapBreakSet
<1>13. MemTypes /\ Kept' = Kept /\ OthersCounted' /\ dir_counter' = dir_counter
       /\ uncounted_forks' = uncounted_forks
  BY <1>1, SbrkTasks DEF SpaceInv, sbrkVars
<1>14. \A p \in Page : pagusr_table'[HeapDir][p] = IF p \in S THEN NotPresent
                                                   ELSE pagusr_table[HeapDir][p]
  BY <1>1, <1>4, <1>13, Regions DEF MemTypes, Unmapped
<1>15. FramesRight(Kept', pagusr_table', phys_mem')
  <2>1. S \in SUBSET PrivatePages /\ HeapDir \in Kept
    BY <1>10, Regions
  <2> QED
    BY <1>1, <1>4, <1>13, <2>1, ReleaseStep
<1>16. MemTypes'
  <2>1. phys_mem' \subseteq Frame
    BY <1>1, <1>13 DEF MemTypes
  <2>2. pagusr_table' \in [Slot -> [Page -> Frame \cup {NotPresent}]]
    BY <1>1, <1>4, <1>13 DEF MemTypes, Unmapped
  <2>3. halted' \in BOOLEAN
    BY <1>1, <1>13, Zenon DEF MemTypes
  <2> QED
    BY <1>1, <1>12, <1>13, <2>1, <2>2, <2>3 DEF MemTypes
<1>17. Breaks'
  BY <1>5, <1>11, <1>12, Layout DEF SpaceInv, Breaks, floor
<1>18. TLBFresh'
  BY <1>1 DEF TLBFresh
<1>19. HeapDirState'
  <2>1. /\ CodePages \subseteq Page /\ DataPages \subseteq Page /\ HeapPages \subseteq Page
        /\ HeapPages \subseteq Int
        /\ CodePages \cap S = {} /\ DataPages \cap S = {}
    BY <1>10, Regions
  <2>2. PageAbove(HeapBreak') = PageAbove(b1)
    BY <1>12
  <2>3. ASSUME NEW p \in HeapPages, p < PageAbove(b1)
        PROVE  pagusr_table'[HeapDir][p] # NotPresent
    <3>1. p < PageAbove(b) /\ p \in Int /\ p \in Page
      BY <1>5, <1>11, <2>1, <2>3
    <3>2. pagusr_table[HeapDir][p] # NotPresent
      BY <1>4, <3>1 DEF HeapDirRuns, b
    <3>3. p \notin S
      BY <1>6, <1>9, <1>11, <2>3, <3>1
    <3> QED
      BY <1>14, <3>1, <3>2, <3>3
  <2>4. ASSUME NEW p \in HeapPages, p > PAG_LOG_INIT_HEAP, p >= PageAbove(b1)
        PROVE  pagusr_table'[HeapDir][p] = NotPresent
    <3>1. p \in Int /\ p \in Page
      BY <2>1
    <3>2. CASE p >= PageAbove(b)
      BY <1>14, <2>4, <3>1, <3>2 DEF SpaceInv, HeapDirState, NothingAbove, b
    <3>3. CASE ~(p >= PageAbove(b))
      <4>1. p <= b \div PAGE_SIZE
        <5>1. b \div PAGE_SIZE \in Int /\ PageAbove(b) <= b \div PAGE_SIZE + 1
          BY <1>5 DEF PageAbove
        <5> QED
          BY <1>5, <3>1, <3>3, <5>1
      <4>2. p >= new + 1 \/ (Aligned(end) /\ p = new)
        BY <1>9, <1>11, <2>4, <3>1, Layout
      <4>3. p \in S
        BY <1>6, <1>9, <3>1, <4>1, <4>2, <1>5
      <4> QED
        BY <1>14, <3>1, <4>3
    <3> QED
      BY <3>2, <3>3
  <2>5. HeapDirRuns'
    BY <1>4, <1>13, <1>14, <2>1, <2>2, <2>3 DEF HeapDirRuns
  <2>6. NothingAbove'
    BY <2>2, <2>4 DEF NothingAbove
  <2>7. \A p \in CodePages : pagusr_table'[HeapDir][p] # NotPresent
    BY <1>14, <2>1 DEF SpaceInv, HeapDirState
  <2> QED
    BY <2>5, <2>6, <2>7 DEF HeapDirState
<1> QED
  BY <1>0, <1>13, <1>15, <1>16, <1>17, <1>18, <1>19, SpaceParts

LEMMA SpaceSbrk == ASSUME SpaceInv, Sbrk PROVE SpaceInv'
<1>1. PICK t \in Task :
         \/ \E increment \in Increments : Grow(t, increment)
         \/ AskBreak(t)
         \/ \E decrement \in Decrements : Shrink(t, decrement)
         \/ SbrkOutOfBounds(t)
  BY DEF Sbrk
<1>2. CASE AskBreak(t)
  <2>1. programbreak_table \in [Slot -> Nat] /\ Break(t) \in Nat
    BY BreakOK DEF SpaceInv, CountInv
  <2>2. programbreak_table' = programbreak_table /\ eax' \in Int
    BY <1>2, <2>1 DEF AskBreak, SetBreak, Break, ENOMEM
  <2>3. halted' \in BOOLEAN
    BY <1>2, Zenon DEF AskBreak, SpaceInv, MemTypes
  <2>4. UNCHANGED <<memVars, alive, stale, uncounted_forks>>
    BY <1>2, <2>2 DEF AskBreak, memVars, sbrkVars
  <2> QED
    BY <2>2, <2>3, <2>4, SpaceKept DEF Next
<1>3. CASE SbrkOutOfBounds(t)
  BY <1>3, SpaceKept DEF Next, SbrkOutOfBounds, Halt, NO_RETURN
<1> QED
  BY <1>1, <1>2, <1>3, SpaceGrows, SpaceShrinks

LEMMA SpaceFork == ASSUME SpaceInv, Fork PROVE SpaceInv'
<1>1. PICK t \in Task : sys_fork(t, NextPCB)
  BY DEF Fork
<1>2. free_pcbs # {} /\ (ForkOutOfMemory(t, NextPCB) \/ CopyPages(t, NextPCB))
  BY <1>1, Zenon DEF Fork, sys_fork
<1> QED
  BY <1>1, <1>2, SpaceForkFails, SpaceForkCopies

LEMMA SpaceStep == ASSUME SpaceInv, [Next]_vars PROVE SpaceInv'
<1>1. CASE BadFork \/ \E t \in Task : UserFault(t)
  <2>1. Halt
    BY <1>1, Zenon DEF BadFork, ForkOutOfBounds, UserFault
  <2>2. eax' \in Int /\ UNCHANGED <<memVars, alive, stale, uncounted_forks>>
    BY <2>1 DEF Halt, NO_RETURN
  <2>3. halted' \in BOOLEAN
    BY <2>1, Zenon DEF Halt
  <2> QED
    BY <2>2, <2>3, SpaceKept
<1>2. CASE (\E t \in Task : NoPCB(t)) \/ UNCHANGED vars
  <2>1. eax' \in Int /\ UNCHANGED <<memVars, alive, stale, uncounted_forks>>
    BY <1>2 DEF NoPCB, vars, EAGAIN, SpaceInv, MemTypes
  <2>2. halted' = halted
    BY <1>2, Zenon DEF NoPCB, vars
  <2>3. halted' \in BOOLEAN
    BY <2>2, Zenon DEF SpaceInv, MemTypes
  <2> QED
    BY <2>1, <2>3, SpaceKept
<1> QED
  BY <1>1, <1>2, SpaceFork, SpaceClone, SpaceExit, SpaceSbrk DEF Next

LEMMA SpaceInit == Init => SpaceInv
<1> SUFFICES ASSUME Init PROVE SpaceInv
  OBVIOUS
<1>1. CountInv
  BY CountInit
<1>2. /\ dir = [t \in Task |-> IF t = idle_task THEN 1 ELSE IF t = task1 THEN 2 ELSE 0]
      /\ alive = {idle_task, task1}
      /\ dir_counter = [n \in Slot |-> IF n <= 2 THEN 1 ELSE 0]
      /\ programbreak_table = [n \in Slot |-> IF n = 2 THEN PAG_LOG_INIT_HEAP * PAGE_SIZE ELSE 0]
      /\ stale = {} /\ halted = FALSE /\ uncounted_forks = 0 /\ eax = NO_RETURN
  BY DEF Init
<1>3. pagusr_table =
         [n \in Slot |->
            IF n = 2 THEN [p \in Page |->
                             IF p \in Pages(PAG_LOG_INIT_CODE, NUM_PAG_CODE + NUM_PAG_DATA)
                             THEN BootFrame(p - PAG_LOG_INIT_CODE) ELSE KernelTable[p]]
                     ELSE KernelTable]
      /\ phys_mem = (0 .. NUM_PAG_KERNEL - 1)
                    \cup {BootFrame(i) : i \in 0 .. NUM_PAG_CODE + NUM_PAG_DATA - 1}
  BY DEF Init
<1> DEFINE BootPages == PAG_LOG_INIT_CODE .. PAG_LOG_INIT_HEAP - 1
<1>4. BootPages = Pages(PAG_LOG_INIT_CODE, NUM_PAG_CODE + NUM_PAG_DATA)
      /\ BootPages = CodePages \cup DataPages /\ BootPages \cap HeapPages = {}
  BY Layout DEF Pages, CodePages, DataPages, HeapPages
<1>5. TOTAL_PAGES >= PAG_LOG_INIT_CODE + 2 * (NUM_PAG_CODE + NUM_PAG_DATA)
  BY MemAssumption
<1>6. ASSUME NEW p \in BootPages
      PROVE  /\ BootFrame(p - PAG_LOG_INIT_CODE) \in phys_mem \cap Allocatable
             /\ p - PAG_LOG_INIT_CODE \in Int
  <2> DEFINE i == p - PAG_LOG_INIT_CODE
  <2>1. i \in 0 .. NUM_PAG_CODE + NUM_PAG_DATA - 1
    BY Layout
  <2>2. BootFrame(i) \in phys_mem
    BY <1>3, <2>1
  <2> HIDE DEF i
  <2>3. BootFrame(i) = NUM_PAG_KERNEL + 2 * i /\ i \in Nat
        /\ i <= NUM_PAG_CODE + NUM_PAG_DATA - 1
    BY <2>1, Layout DEF BootFrame
  <2>4. BootFrame(i) \in Frame /\ BootFrame(i) >= NUM_PAG_KERNEL
    BY <1>5, <2>3, Layout DEF Frame
  <2>5. (BootFrame(i) - NUM_PAG_KERNEL) % 2 = 0
    <3>1. BootFrame(i) - NUM_PAG_KERNEL = 2 * i
      BY <2>3, Layout
    <3> QED
      BY <2>3, <3>1
  <2> QED
    BY <2>1, <2>2, <2>4, <2>5 DEF Allocatable, i
<1>7. ASSUME NEW p \in UserPage
      PROVE  /\ pagusr_table[HeapDir][p] = IF p \in BootPages THEN BootFrame(p - PAG_LOG_INIT_CODE)
                                                              ELSE NotPresent
             /\ \A n \in Slot \ {HeapDir} : pagusr_table[n][p] = NotPresent
  <2>1. p \in Page /\ p \notin 1 .. NUM_PAG_KERNEL - 1
    BY Regions, Layout DEF UserPage
  <2>2. KernelTable[p] = NotPresent
    BY <2>1 DEF KernelTable
  <2> QED
    BY <1>3, <1>4, <2>1, <2>2, Regions DEF HeapDir
<1>8. /\ CodePages \subseteq UserPage /\ PrivatePages \subseteq UserPage /\ Kept \subseteq Slot
      /\ DataPages \subseteq UserPage /\ HeapPages \subseteq UserPage /\ HeapDir \in Slot
      /\ CodePages \subseteq BootPages /\ DataPages \subseteq BootPages
      /\ BootPages \subseteq UserPage
  BY <1>4, Regions, Layout DEF UserPage
<1> HIDE DEF BootPages
<1>9. MemTypes
  <2>1. 0 .. NUM_PAG_KERNEL - 1 \subseteq Frame
    BY Layout DEF Frame
  <2>2. \A i \in 0 .. NUM_PAG_CODE + NUM_PAG_DATA - 1 : BootFrame(i) \in Frame
    BY <1>5, Layout DEF BootFrame, Frame
  <2>3. KernelTable \in [Page -> Frame \cup {NotPresent}]
    BY <2>1 DEF KernelTable
  <2>4. \A p \in Pages(PAG_LOG_INIT_CODE, NUM_PAG_CODE + NUM_PAG_DATA) :
           BootFrame(p - PAG_LOG_INIT_CODE) \in Frame
    <3>1. \A p \in BootPages : BootFrame(p - PAG_LOG_INIT_CODE) \in Frame
      BY <1>6, UserFrames
    <3> QED
      BY <1>4, <3>1
  <2>5. pagusr_table \in [Slot -> [Page -> Frame \cup {NotPresent}]]
    BY <1>3, <2>3, <2>4
  <2>6. phys_mem \subseteq Frame
    BY <1>3, <2>1, <2>2
  <2>7. halted \in BOOLEAN
    BY <1>2, Zenon
  <2>8. stale \subseteq Page /\ uncounted_forks <= MaxUncounted /\ eax \in Int
    BY <1>2, MemAssumption DEF NO_RETURN
  <2> QED
    BY <2>5, <2>6, <2>7, <2>8 DEF MemTypes
<1>10. Breaks
  <2>1. HeapBreak = PAG_LOG_INIT_HEAP * PAGE_SIZE
    BY <1>2, <1>8 DEF HeapBreak, HeapDir
  <2>2. PageAbove(HeapBreak) = PAG_LOG_INIT_HEAP /\ HeapBreak \in Int
    BY <2>1, PageAbovePage, Layout
  <2> QED
    BY <1>2, <2>1, <2>2, Layout DEF Breaks, HeapDir
<1>11. OthersCounted
  BY <1>1, <1>2 DEF OthersCounted, RightCount, CountInv, SharersCounted, InUse
<1>12. HeapDirState
  <2>1. PageAbove(HeapBreak) = PAG_LOG_INIT_HEAP
    BY <1>2, <1>8, PageAbovePage, Layout DEF HeapBreak, HeapDir
  <2>2. \A p \in BootPages : pagusr_table[HeapDir][p] # NotPresent
    BY <1>6, <1>7, <1>8, UserFrames
  <2>3. \A p \in HeapPages : pagusr_table[HeapDir][p] = NotPresent
    BY <1>4, <1>7, <1>8
  <2>4. dir_counter[HeapDir] = 1
    BY <1>2, <1>8 DEF HeapDir
  <2>5. \A p \in HeapPages : ~(p < PAG_LOG_INIT_HEAP)
    BY Layout DEF HeapPages
  <2> QED
    BY <1>8, <2>1, <2>2, <2>3, <2>4, <2>5 DEF HeapDirState, HeapDirRuns, NothingAbove
<1>13. FramesRight(Kept, pagusr_table, phys_mem)
  <2>1. CodeShared(Kept, pagusr_table)
    BY <1>7, <1>8 DEF CodeShared
  <2>2. FramesTaken(Kept, pagusr_table, phys_mem)
    BY <1>6, <1>7, <1>8 DEF FramesTaken
  <2>3. FramesApart(Kept, pagusr_table)
    <3> SUFFICES ASSUME NEW n \in Kept, NEW m \in Kept, NEW p \in PrivatePages, NEW q \in UserPage,
                        pagusr_table[n][p] # NotPresent, pagusr_table[n][p] = pagusr_table[m][q]
                 PROVE  n = m /\ p = q
      BY DEF FramesApart
    <3>1. n = HeapDir /\ p \in BootPages /\ m = HeapDir /\ q \in BootPages
      BY <1>7, <1>8
    <3>2. BootFrame(p - PAG_LOG_INIT_CODE) = BootFrame(q - PAG_LOG_INIT_CODE)
      BY <1>7, <1>8, <3>1
    <3>3. p \in Int /\ q \in Int
      BY <1>8, Regions
    <3> QED
      BY <3>1, <3>2, <3>3, Layout DEF BootFrame
  <2> QED
    BY <2>1, <2>2, <2>3 DEF FramesRight
<1>14. TLBFresh
  BY <1>2 DEF TLBFresh
<1> QED
  BY <1>1, <1>9, <1>10, <1>11, <1>12, <1>13, <1>14 DEF SpaceInv

LEMMA SpaceInvariance == Spec => []SpaceInv
BY SpaceInit, SpaceStep, PTL DEF Spec

\* Every value of the memory model keeps its type; the break of a directory is
\* 0 or lies in the heap, whatever forks, exits and sbrks led there.
THEOREM MemTypeCorrect == Spec => []TypeOK
<1>1. SpaceInv => TypeOK
  <2> SUFFICES ASSUME SpaceInv PROVE TypeOK
    OBVIOUS
  <2>1. ASSUME NEW n \in Slot
        PROVE  programbreak_table[n] \in
                  {0} \cup PAG_LOG_INIT_HEAP * PAGE_SIZE .. TOTAL_PAGES * PAGE_SIZE
    <3>1. CASE n # HeapDir
      BY <3>1 DEF SpaceInv, Breaks
    <3>2. CASE n = HeapDir
      <4>1. HeapBreak \in Int /\ HeapBreak >= PAG_LOG_INIT_HEAP * PAGE_SIZE
            /\ ~(TOTAL_PAGES < PageAbove(HeapBreak))
        BY HeapBreakOK, Layout DEF SpaceInv, Breaks
      <4>2. ~(TOTAL_PAGES * PAGE_SIZE < HeapBreak)
        BY <4>1, PageAboveRounds, Layout
      <4>3. PAG_LOG_INIT_HEAP * PAGE_SIZE \in Int /\ TOTAL_PAGES * PAGE_SIZE \in Int
        BY Layout
      <4> QED
        BY <3>2, <4>1, <4>2, <4>3 DEF HeapBreak
    <3> QED
      BY <3>1, <3>2
  <2>2. uncounted_forks \in 0 .. MaxUncounted
    BY MemAssumption DEF SpaceInv, MemTypes, CountInv
  <2> QED
    BY <2>1, <2>2 DEF TypeOK, SpaceInv, MemTypes, CountInv, TaskTypes
<1> QED
  BY <1>1, SpaceInvariance, PTL

\* No frame of data, stack or heap is free, belongs to the kernel, or is
\* mapped twice, for any number of pages, frames and tasks, and even after
\* forks that found no directory: what alloc_frame gives to fork and sbrk is
\* nobody else's, and what exit and sbrk free is nobody else's either.
THEOREM FramesArePrivate == Spec => []PrivateFrames
<1>1. SpaceInv => PrivateFrames
  <2> SUFFICES ASSUME SpaceInv, NEW n \in InUse, NEW m \in InUse,
                      NEW p \in PrivatePages, NEW q \in UserPage,
                      pagusr_table[n][p] # NotPresent
               PROVE  /\ pagusr_table[n][p] \in phys_mem \ (0 .. NUM_PAG_KERNEL - 1)
                      /\ pagusr_table[n][p] = pagusr_table[m][q] => n = m /\ p = q
    BY DEF PrivateFrames, UserPage
  <2>1. n \in Kept /\ m \in Kept /\ p \in UserPage
    BY Regions DEF Kept, InUse
  <2>2. pagusr_table[n][p] \in phys_mem \cap Allocatable
    BY <2>1 DEF SpaceInv, FramesRight, FramesTaken
  <2>3. pagusr_table[n][p] \in Int /\ pagusr_table[n][p] >= NUM_PAG_KERNEL
    BY <2>2, UserFrames
  <2>4. pagusr_table[n][p] = pagusr_table[m][q] => n = m /\ p = q
    BY <2>1 DEF SpaceInv, FramesRight, FramesApart
  <2> QED
    BY <2>2, <2>3, <2>4, Layout
<1> QED
  BY <1>1, SpaceInvariance, PTL

\* Every page below the break is mapped: the rounding of sbrk, up and down,
\* and the copies of fork never leave a hole, whatever the page size.
THEOREM HeapIsBacked == Spec => []HeapBacked
<1>1. SpaceInv => HeapBacked
  <2> SUFFICES ASSUME SpaceInv, uncounted_forks = 0, NEW n \in InUse, NEW p \in HeapPages,
                      p * PAGE_SIZE < programbreak_table[n]
               PROVE  pagusr_table[n][p] # NotPresent
    BY DEF HeapBacked, HeapPages
  <2>1. p \in Int /\ p >= 0 /\ n \in Slot
    BY Layout DEF HeapPages, InUse
  <2>2. n = HeapDir
    <3>1. p * PAGE_SIZE >= 0 /\ p * PAGE_SIZE \in Int
      BY <2>1, Layout
    <3> QED
      BY <2>1, <3>1 DEF SpaceInv, Breaks
  <2>3. HeapDirRuns
    <3>1. dir_counter[n] = Cardinality(Users(n)) /\ Users(n) # {} /\ IsFiniteSet(Users(n))
      BY UsersFinite DEF SpaceInv, CountInv, TaskTypes, SharersCounted, InUse
    <3>2. dir_counter[n] # 0
      BY <3>1, FS_EmptySet
    <3> QED
      BY <2>2, <3>2 DEF SpaceInv, HeapDirState, HeapDirFreed
  <2>4. p < PageAbove(HeapBreak)
    <3>1. HeapBreak \in Int /\ p * PAGE_SIZE < HeapBreak
      BY <2>2, HeapBreakOK DEF HeapBreak
    <3> QED
      BY <2>1, <3>1, PageAboveRounds
  <2> QED
    BY <2>2, <2>3, <2>4 DEF HeapDirRuns
<1> QED
  BY <1>1, SpaceInvariance, PTL

\* fork, exit and sbrk leave no translation in the TLB that the page table
\* no longer has, but for the first page of the heap: sbrk fills entries
\* without writing cr3, and only that one can have been present before.
THEOREM TLBIsFresh == Spec => []TLBFresh
<1>1. SpaceInv => TLBFresh
  BY DEF SpaceInv
<1> QED
  BY <1>1, SpaceInvariance, PTL

----------------------------------------------------------------------------
(* What every step leaves alone in the address spaces in use.              *)

Stays ==
    uncounted_forks' = 0 =>
        \A n \in InUse \cap InUse' : \A p \in Held(n) \cap Held(n)' :
            pagusr_table'[n][p] = pagusr_table[n][p]

LEMMA TablesKept == ASSUME pagusr_table' = pagusr_table PROVE Stays
BY DEF Stays

\* The pages of task1's directory that are held lie below its top.
LEMMA HeldBelow ==
    ASSUME SpaceInv, NEW p \in Held(HeapDir)
    PROVE  p \in Page /\ p \in Int /\ p < PageAbove(HeapBreak)
<1>1. p \in Page /\ p \in Int
  BY DEF Held, Page
<1>2. /\ HeapBreak \in Nat
      /\ PageAbove(HeapBreak) \in PAG_LOG_INIT_HEAP .. TOTAL_PAGES - 1
  BY HeapBreakOK
<1>3. CASE p < PAG_LOG_INIT_HEAP
  BY <1>1, <1>2, <1>3, Layout
<1>4. CASE p * PAGE_SIZE < HeapBreak
  BY <1>1, <1>2, <1>4, PageAboveRounds
<1> QED
  BY <1>1, <1>3, <1>4 DEF Held, HeapBreak

\* fork writes the table of a directory nobody uses, and above the heap of
\* the parent.
LEMMA StaysFork == ASSUME SpaceInv, Fork PROVE Stays
<1> SUFFICES ASSUME uncounted_forks' = 0,
                    NEW n \in InUse, NEW p \in Held(n)
             PROVE  pagusr_table'[n][p] = pagusr_table[n][p]
  BY DEF Stays
<1>1. PICK t \in Task : sys_fork(t, NextPCB)
  BY DEF Fork
<1>2. /\ uncounted_forks' = uncounted_forks + IF FreeDirs = {} THEN 1 ELSE 0
      /\ ForkOutOfMemory(t, NextPCB) \/ CopyPages(t, NextPCB)
      /\ free_pcbs # {}
  BY <1>1 DEF Fork, sys_fork
<1>3. uncounted_forks = 0 /\ FreeDirs # {} /\ NewDir(t) = FirstDir
  BY <1>2 DEF SpaceInv, CountInv, NewDir
<1>4. Users(FirstDir) = {}
  BY <1>3, FirstDirFree, FreeDirUnused DEF SpaceInv
<1>5. n # NewDir(t) /\ n \in Slot /\ DOMAIN pagusr_table = Slot
  BY <1>3, <1>4 DEF InUse, SpaceInv, MemTypes
<1>6. CASE ForkOutOfMemory(t, NextPCB)
  BY <1>5, <1>6 DEF ForkOutOfMemory
<1>7. CASE CopyPages(t, NextPCB)
  <2> DEFINE k == PagesToCopy(t)
             extra == Pages(PAG_LOG_INIT_DATA + k, k)
             top == PageAbove(HeapBreak)
  <2>1. k = top - PAG_LOG_INIT_DATA /\ top \in Int /\ dir[t] = HeapDir
    BY <1>1, <1>2, ForkSpace, HeapBreakOK
  <2>2. PICK frames \in AllocFrames(k) :
           pagusr_table' =
             [[pagusr_table EXCEPT
                 ![NewDir(t)] = Mapped(Inherited(t), PAG_LOG_INIT_DATA, frames)]
                EXCEPT ![dir[t]] = Unmapped(@, extra)]
    BY <1>7, Zenon DEF CopyPages, TemporaryPages
  <2> HIDE DEF k, top
  <2>3. CASE n # HeapDir
    BY <1>5, <2>1, <2>2, <2>3
  <2>4. CASE n = HeapDir
    <3>1. p \in Page /\ p \in Int /\ p < top
      BY <2>4, HeldBelow DEF top
    <3>2. p \notin extra
      BY <2>1, <3>1, Layout DEF Pages
    <3>3. pagusr_table'[n] = Unmapped(pagusr_table[n], extra)
      BY <1>5, <2>1, <2>2, <2>4
    <3> QED
      BY <3>1, <3>2, <3>3 DEF Unmapped
  <2> QED
    BY <2>3, <2>4
<1> QED
  BY <1>2, <1>6, <1>7

\* exit unmaps the pages of a directory that nobody uses any longer.
LEMMA StaysExit == ASSUME SpaceInv, Exit PROVE Stays
<1> SUFFICES ASSUME uncounted_forks' = 0, NEW n \in InUse, n \in InUse'
             PROVE  pagusr_table'[n] = pagusr_table[n]
  BY DEF Stays
<1>1. PICK t \in Task : sys_exit(t)
  BY DEF Exit
<1>2. /\ n \in Slot /\ DOMAIN pagusr_table = Slot /\ TaskTypes
      /\ uncounted_forks = 0
  BY <1>1 DEF InUse, SpaceInv, MemTypes, CountInv, sys_exit
<1>3. CASE n # dir[t] \/ pagusr_table' = pagusr_table
  BY <1>1, <1>2, <1>3 DEF sys_exit
<1>4. CASE n = dir[t] /\ pagusr_table' # pagusr_table
  <2>1. dir_counter'[n] = 0
    BY <1>1, <1>4 DEF sys_exit
  <2>2. RightCount(n) /\ Users(n)' # {}
    BY <1>2 DEF RightCount, SpaceInv, CountInv, SharersCounted, InUse
  <2>3. dir_counter'[n] = Cardinality(Users(n)')
    BY <1>1, <1>2, <2>2, ExitCounts DEF RightCount
  <2>4. IsFiniteSet(Users(n)')
    <3>1. Users(n)' \subseteq Task
      BY <1>1, <1>2, ExitTasks DEF Users, TaskTypes
    <3> QED
      BY <3>1, Slots, FS_Subset
  <2> QED
    BY <2>1, <2>2, <2>3, <2>4, FS_EmptySet
<1> QED
  BY <1>3, <1>4

\* sbrk maps from the old break up, and unmaps from the old one down to the
\* new one.
LEMMA StaysGrow ==
    ASSUME SpaceInv, NEW t \in Task, NEW increment \in Increments, Grow(t, increment)
    PROVE  Stays
<1> DEFINE first == PageAbove(Break(t))
           k == PageAbove(Break(t) + increment) - first
<1>1. CASE pagusr_table' = pagusr_table
  BY <1>1, TablesKept
<1>2. CASE /\ CanRun(t) /\ first >= PAG_LOG_INIT_HEAP
           /\ \E frames \in AllocFrames(k) :
                pagusr_table' = [pagusr_table EXCEPT ![dir[t]] = Mapped(@, first, frames)]
  <2> SUFFICES ASSUME NEW n \in InUse, NEW p \in Held(n)
               PROVE  pagusr_table'[n][p] = pagusr_table[n][p]
    BY DEF Stays
  <2>1. n \in Slot /\ DOMAIN pagusr_table = Slot
    BY DEF InUse, SpaceInv, MemTypes
  <2>2. PICK frames \in AllocFrames(k) :
           pagusr_table' = [pagusr_table EXCEPT ![dir[t]] = Mapped(@, first, frames)]
    BY <1>2
  <2>3. Break(t) # 0
    <3>1. PageAbove(0 * PAGE_SIZE) = 0 /\ 0 * PAGE_SIZE = 0
      BY PageAbovePage, Layout
    <3> QED
      BY <1>2, <3>1, Layout
  <2>4. dir[t] = HeapDir /\ first = PageAbove(HeapBreak)
    BY <1>2, <2>3, WhoseBreak
  <2>5. DOMAIN frames \subseteq Nat
    BY <2>2 DEF AllocFrames
  <2>6. first \in Int
    BY <2>4, HeapBreakOK
  <2> HIDE DEF first, k
  <2>7. CASE n = HeapDir
    <3>1. p \in Page /\ p \in Int /\ p < first
      BY <2>4, <2>7, HeldBelow
    <3>2. p - first \notin DOMAIN frames
      BY <2>5, <2>6, <3>1
    <3>3. pagusr_table'[n] = Mapped(pagusr_table[n], first, frames)
      BY <2>1, <2>2, <2>4, <2>7
    <3> QED
      BY <3>1, <3>2, <3>3 DEF Mapped
  <2>8. CASE n # HeapDir
    BY <2>1, <2>2, <2>4, <2>8
  <2> QED
    BY <2>7, <2>8
<1> QED
  BY <1>1, <1>2 DEF Grow

\* The pages that a shrinking sbrk releases start at the new break or above.
LEMMA ReleasedAbove ==
    ASSUME SpaceInv, NEW t \in Task, CanRun(t), NEW end \in Nat, dir[t] = HeapDir,
           NEW p \in ReleasedPages(t, end)
    PROVE  /\ p \in Int /\ p >= PAG_LOG_INIT_HEAP
           /\ ~(p * PAGE_SIZE < ShrunkBreak(end))
<1> DEFINE e == end \div PAGE_SIZE
           new == IF e < PAG_LOG_INIT_HEAP THEN PAG_LOG_INIT_HEAP ELSE e
           old == HeapBreak \div PAGE_SIZE
<1>1. /\ e \in Int /\ old \in Int
      /\ Aligned(end) <=> end = e * PAGE_SIZE
      /\ \A q \in Int : q <= e <=> q * PAGE_SIZE <= end
  BY DivisionRounds, AlignedAddress, HeapBreakOK
<1>2. p \in new + 1 .. old \/ (Aligned(end) /\ p = new)
  BY WhoseBreak DEF ReleasedPages
<1> HIDE DEF e, old
<1>3. p \in Int /\ p >= new /\ (p = new => Aligned(end)) /\ new \in Int
  BY <1>1, <1>2, Layout
<1>4. p * PAGE_SIZE \in Int /\ e * PAGE_SIZE \in Int
  BY <1>1, <1>3, Layout
<1>5. CASE e < PAG_LOG_INIT_HEAP
  <2>1. ShrunkBreak(end) = PAG_LOG_INIT_HEAP * PAGE_SIZE
    BY <1>5 DEF ShrunkBreak, e
  <2>2. p >= PAG_LOG_INIT_HEAP
    BY <1>3, <1>5
  <2>3. PAG_LOG_INIT_HEAP * PAGE_SIZE <= p * PAGE_SIZE
    BY <1>3, <2>2, Layout
  <2> QED
    BY <1>3, <1>4, <2>1, <2>2, <2>3, Layout
<1>6. CASE ~(e < PAG_LOG_INIT_HEAP)
  <2>1. ShrunkBreak(end) = end
    BY <1>6 DEF ShrunkBreak, e
  <2>2. p >= PAG_LOG_INIT_HEAP /\ p >= e /\ (p = e => Aligned(end))
    BY <1>1, <1>3, <1>6, Layout
  <2>3. CASE p = e
    BY <1>1, <1>3, <1>4, <2>1, <2>2, <2>3
  <2>4. CASE p # e
    <3>1. ~(p <= e)
      BY <1>1, <1>3, <2>2, <2>4
    <3>2. ~(p * PAGE_SIZE <= end)
      BY <1>1, <1>3, <3>1
    <3> QED
      BY <1>3, <1>4, <2>1, <2>2, <3>2
  <2> QED
    BY <2>3, <2>4
<1> QED
  BY <1>5, <1>6

LEMMA StaysShrink ==
    ASSUME SpaceInv, NEW t \in Task, NEW decrement \in Decrements, Shrink(t, decrement)
    PROVE  Stays
<1> DEFINE end == Break(t) - decrement
           S == ReleasedPages(t, end)
<1>1. /\ CanRun(t) /\ end >= 0
      /\ pagusr_table' = [pagusr_table EXCEPT ![dir[t]] = Unmapped(@, S)]
      /\ SetBreak(t, ShrunkBreak(end))
  BY DEF Shrink
<1>2. Break(t) \in Nat /\ decrement \in Nat /\ decrement > 0
  BY BreakOK, MemAssumption DEF SpaceInv
<1>3. end \in Nat /\ Break(t) # 0
  BY <1>1, <1>2
<1>4. dir[t] = HeapDir
  BY <1>1, <1>3, WhoseBreak
<1> HIDE DEF end
<1> SUFFICES ASSUME NEW n \in InUse, NEW p \in Held(n), p \in Held(n)'
             PROVE  pagusr_table'[n][p] = pagusr_table[n][p]
  BY DEF Stays
<1>5. n \in Slot /\ DOMAIN pagusr_table = Slot /\ p \in Page
      /\ DOMAIN programbreak_table = Slot
  BY DEF InUse, SpaceInv, MemTypes, CountInv, Held
<1>6. CASE n = HeapDir
  <2>1. programbreak_table'[n] = ShrunkBreak(end)
    BY <1>1, <1>4, <1>5, <1>6 DEF SetBreak
  <2>2. p \notin S
    BY <1>1, <1>3, <1>4, <2>1, ReleasedAbove, Layout DEF Held
  <2>3. pagusr_table'[n] = Unmapped(pagusr_table[n], S)
    BY <1>1, <1>4, <1>5, <1>6
  <2> QED
    BY <1>5, <2>2, <2>3 DEF Unmapped
<1>7. CASE n # HeapDir
  BY <1>1, <1>4, <1>5, <1>7
<1> QED
  BY <1>6, <1>7

LEMMA StaysStep == ASSUME SpaceInv, [Next]_vars PROVE [Stays]_vars
<1>1. CASE Sbrk
  BY <1>1, StaysGrow, StaysShrink, TablesKept
     DEF Sbrk, AskBreak, SbrkOutOfBounds, Halt, memVars
<1>2. CASE Clone \/ BadFork \/ (\E t \in Task : UserFault(t)) \/ (\E t \in Task : NoPCB(t))
  BY <1>2, TablesKept
     DEF Clone, sys_clone, BadFork, ForkOutOfBounds, UserFault, NoPCB, Halt, memVars
<1> QED
  BY <1>1, <1>2, StaysFork, StaysExit DEF Next

\* fork maps its temporary pages above the parent's heap, exit frees only with
\* the last thread, and sbrk touches nothing below the lower of the two breaks:
\* for any page size, heap and number of threads.
THEOREM ProcessesKeepTheirPages == Spec => PagesStay
<1>1. SpaceInv /\ [Next]_vars => [Stays]_vars
  BY StaysStep
<1> QED
  BY <1>1, SpaceInvariance, PTL DEF Spec, PagesStay, Stays
=============================================================================
