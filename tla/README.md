# ZeOS in TLA+

ZeOS is a small teaching kernel for the x86: one CPU, round-robin processes and
threads, counting semaphores, a blocking `read` of the keyboard, paging with one
page table per address space, and a handful of system calls. This directory
holds TLA+ models of it, the TLC runs that check them on small instances, and
TLAPS proofs for every value of the constants.

    tlc -config KernelAll.cfg ZeosKernel      # one run (see "Runs")
    tlapm ZeosKernelProofs.tla                # the proofs about the kernel's lists
    tlapm ZeosSemProofs.tla                   # ... about its semaphores
    tlapm MemProofs.tla                       # ... and about its memory

## 1. Inventory

| Component | State | Operations | Files |
|---|---|---|---|
| Scheduler and lists | `task[]` (PID, state, list node, kernel stack), `freequeue`, `readyqueue`, `left_ticks`, `current()` (from `%esp`) | `schedule`, `needs_sched_rr`, `update_process_state_rr`, `sched_next_rr`, `task_switch`, `clk_routine` | sched.c, list.c, Kernel.S, interrupt.c |
| Semaphores | `sem_array[20]` (counter, blocked, owner_pid), `semdestroyed` of each PCB | `sys_sem_init/wait/signal/destroy`, clean-up in `sys_exit` | sys.c |
| Keyboard input | `keyboardqueue`, `keyboard_readers_count[]`, the locals of the reads in progress | `keyboard_routine`, `sys_read`, `sys_read_keyboard` | interrupt.c, sys.c |
| Circular buffer | `keybuffer[666]`, two pointers, a counter | push, pop, front, empty, full, count | circbuff.c |
| Process management | `global_PID`, the free PCBs | `sys_fork`, `sys_clone`, `sys_exit` | sys.c |
| Memory management | `phys_mem[]`, `dir_pages[]`, `pagusr_table[]`, `dir_counter[]`, `programbreak_table[]` | `alloc_frame`, `free_frame`, `set_ss_pag`, `del_ss_pag`, `allocate_DIR`, `free_user_pages`, `sys_sbrk` | mm.c, sys.c, sched.c |
| Statistics | `p_stats` of each PCB, `zeos_ticks` (the clock they are measured with) | `enter_system`, `exit_system`, `sys_get_stats` | sys.c, interrupt.c |
| Entry code | registers, user stack of a stub, `errno` | SYSENTER handler, thirteen user stubs, call table | entry.S, entry_wrapper.S, sys_call_table.S, libc.c |
| Boot | the image, its header, the loaded memory; descriptor tables, MSRs | `build`, `read_it` and `read_track` of the boot sector, `main`, `init_*` | build.c, bootsect.S, system.c, hardware.c |
| Console and utilities | screen, cursor, the write in progress | `printc`, `printc_xy`, `sys_write`, `itoa`, `perror` | io.c, devices.c, utils.c, sys.c, libc.c |
| User program, course libraries | | any call | user.c, libzeos.a, libauxjp.a |

How they interact. A running process enters the kernel with SYSENTER, a device
with an interrupt gate; both mask interrupts, and `iret`, `sysexit` (after
`sti`) or the idle loop unmask them. So kernel code is never interrupted: the
concurrency is in what happens between a `task_switch` in the middle of a
handler and the moment the switched-out task runs again. The components share
the PCB lists: a PCB has one list node, and the scheduler, the semaphores, the
keyboard and process management move it around by `list_del` and `list_add`.
The keyboard interrupt and the readers share the buffer, the readers' queue and
`keyboard_readers_count`. `sys_exit` destroys the semaphores of its process.
Every handler is wrapped in `enter_system` and `exit_system`, and
`sched_next_rr` accounts on both sides of its task switch. The clock interrupt
also writes on the screen, through the cursor that `write` uses.

What is hard in it, and what each component must guarantee:

* *Scheduler*: a PCB is on at most one list; the running one on none; its
  `state`, its list and what is left on its kernel stack agree
  (`update_process_state_rr` decides from `state` whether to unlink); idle never
  blocks; nobody starves although wake-ups jump the queue.
* *Semaphores*: FIFO, no token lost or invented; a destroy refuses exactly the
  waiters of that moment, though they learn it later through a flag in the PCB;
  `sem_init` empties a list blindly; a process exits owning semaphores.
* *Keyboard*: reads longer than the buffer go in rounds across switches; the
  wake-up tests an equality; a second reader; a full buffer.
* *Processes*: PIDs are given once, PCBs are recycled, failure after a PCB was
  taken.
* *Memory*: frames and directory slots are given back exactly once; threads
  share a directory; the break of a new process; page boundaries in `sbrk`;
  roll-back when frames run out; a TLB that is emptied by hand.
* *Statistics*: a span of time is charged once although the task that opened it
  is switched out before it closes it; `get_stats` finds a process by a PID that
  may also stand in PCBs that are not in use.
* *Entry code*: `sysexit` destroys `ecx` and `edx`, each stub saves and restores
  by hand, and the routines disagree on the sign of their error codes.
* *Boot*: the loader stops at the ends of tracks and of 64 KB segments, which do
  not divide each other, and must bring in the user program behind the system
  without overwriting itself.
* *Console*: the clock moves the cursor between the writes of programs; `write`
  copies in blocks.

Every hazard is listed in `PROJECT.json` with the line where it bites and the
properties that cover it.

## 2. Modules

| Module | What it models |
|---|---|
| `ListOps` | the operations of list.c that the kernel uses, on sequences |
| `ZeosSched` | task array, lists, task switch, clock interrupt (EXTENDS ListOps) |
| `ZeosSemaphore` | `sem_array` and its system calls (EXTENDS ZeosSched) |
| `ZeosKeyboard` | keyboard interrupt and `read` (EXTENDS ZeosSched) |
| `ZeosProcess` | fork, clone, exit (EXTENDS ZeosSemaphore) |
| `ZeosKernel` | their composition, fairness, the properties |
| `CountingSemaphores` | what the semaphores promise, without lists, PCBs or flags |
| `ZeosSemRefinement` | the refinement mapping from `ZeosKernel` to it |
| `ZeosStats` | the statistics, over the steps of `ZeosKernel` |
| `ZeosMem` | frames, page tables, TLB, directories, program breaks; fork, clone, exit and sbrk as they change them |
| `ListPointers` | list.c on `next` and `prev` pointers, each list next to the sequence it stands for |
| `Circbuff`, `CharFifo` | the ring of circbuff.c and the FIFO it implements |
| `SyscallStubs` | user stubs, SYSENTER handler, call table, `errno` |
| `BootImage` | image builder, loader, copy of the user program |
| `Console` | screen, `write`, `perror` |
| `ZeosParts` | the five modules before this one, run one at a time |
| `ZeosClaims`, `ZeosStatsClaims`, `ZeosMemClaims` | statements of the manual or of a comment that the kernel contradicts |
| `ZeosKernelProofs` | facts about lists; proofs about the kernel's lists and states |
| `ZeosProcessProofs` | proofs about processes, the quantum and the readers of the keyboard |
| `ZeosSemProofs` | the kernel implements the abstract semaphores |
| `ZeosStatsProofs` | proofs about the statistics |
| `MemProofs` | proofs about memory management |
| `ListProofs` | proofs about the pointers of list.c |
| `DeviceProofs` | proofs about the ring and the console |
| `BootProofs` | proofs about the image and the loader |

### Correspondence with the code

* **Lists** are sequences of tasks, `queue[head]`; `Sem`, `freequeue`,
  `readyqueue`, `keyboardqueue` are the heads. Every `list_del` of the kernel
  applies to the first element of a list, so it is `Tail`, except the one of
  `update_process_state_rr`, which takes the task from wherever it is linked
  (`list_unlink`) unless its state is ST_RUN. `list_add` is the
  front, `list_add_tail` the end. That the stores of `__list_add` and `__list_del`
  do this to the pointers is what `ListPointers` is about. A double insertion,
  which would splice two lists in memory, shows in the model as a task on two
  lists, and `LinkedOnce` forbids it.
* **Steps.** A handler is one step up to the point where it calls
  `sched_next_rr`; `current'` is the task switched to. What the old task still
  has to do is `kont[t]`, and it is done, interrupts still masked, by
  `SemWaitResume`, `ReadLoopResume` or `ReadReturn` when `t` is dispatched.
  While `kont[current]` is not `"user"` no interrupt and no system call is
  enabled. `sys_exit` is divided into one step per semaphore, for the
  refinement; nothing can come between them.
* **`sched_next_rr`** exits through its two branches: with an empty ready queue
  it switches to idle at once, and leaves `state` and `left_ticks` as they are;
  otherwise it unlinks the first task *unless its state is ST_RUN*, and gives it
  a quantum.
* **Return values** are in `eax`, with the code's signs: `sys_read` and
  `sys_get_stats` return positive error codes, the others negative ones.
* **`semdestroyed`**, `keyboard_readers_count`, and the locals `i` and `count`
  of a read in progress are kept per task. `i` is never initialised (sys.c:353);
  the build of the Makefile, with -O2, starts it at 0, and so does the model.
  Characters are counted in `ZeosKeyboard` and have values and order in `Circbuff`.
  A reader that finds leftover characters when it starts takes them, but
  `keyboard_readers_count` keeps its whole count: if it then blocks, it is woken later
  than it need be, never too early, and what is too much stays in the buffer.
* **Integers.** The semaphore counter is signed and wraps (`ToInt`,
  `Increment`); `left_ticks` is unsigned and wraps (`TickMax`).
* **Fork** in `ZeosProcess` takes an input, `enoughPages`: whether `alloc_frame` succeeds often
  enough. `copy_data` of the PCB copies `semdestroyed` and `state`. A failing
  fork leaves the PCB on no list.
* **Programs** are any sequence of calls with valid and invalid arguments. A
  thread made by `clone` behaves as a process here (it shares memory, which is
  not modelled).
* **Memory.** `ZeosMem` stands alone: any live task makes a call, one step each,
  as interrupts are masked. `AllocFrames(n)` is what `n` calls of `alloc_frame`
  return: the lowest free frames among every second one. A page table is a
  function from pages to frames; `NotPresent` is an entry that is 0, whose frame
  number `get_frame` reads as 0. Which free PCB a child gets does not matter
  here; that it is gone after a failed fork does. Where the code writes out of a
  page table or touches an absent page, the machine faults or loses its kernel
  mappings sooner or later; the model stops there (`halted`). This happens with
  legal calls: a fork, or a shrinking sbrk, by a process that was itself created
  by fork, because the break of its directory was never set. `free_pages`
  counts from an uninitialised variable, but nothing uses the result.
  `stale` is the set of pages of the running address space whose translation in
  the TLB may differ from the page table; `set_cr3` empties it.
* **Statistics.** Each step of the kernel is taken together with its accounting:
  which of `enter_system`, the end of a quantum (`needs_sched_rr`), the two sides of
  `sched_next_rr` (`SwitchedOut`, `SwitchedIn`) and `exit_system` it passes through,
  for the task that leaves and for the one that comes (`resume` says where the
  latter goes on). A child of fork or clone starts at `ret_from_fork` (sys.c:134),
  whose return leads to the end of the SYSENTER handler: it skips the second half of
  `sched_next_rr` and runs `exit_system`, so that all the time from boot to its first
  dispatch is charged to it as system time (`newstats` starts with an elapsed time of
  0). Idle alone enters its loop without `exit_system`. `get_stats` makes its checks
  in the code's order (buffer, PID, unknown PID) between `enter_system` and
  `exit_system`, as every call does. The clock may advance between any two of the up
  to eight reads of `get_ticks` in a step. `user_time` is a history variable: how
  much time has passed while a task was in user code. The width of the counters is
  left out.
* **Stubs** are records of what each pushes, loads, pops and tests, read off
  entry_wrapper.S; the step functions of `SyscallStubs` interpret them on the
  registers and the user stack. The kernel's routine is its outcome, an error code
  with the sign that the routine gives it or a result. `errno` is one variable
  for all threads of a program.
* **Boot.** Bytes are pairs of a file and an offset; disk and memory are
  counted in sectors. `build` writes its header over the first bytes of the
  system, which system.lds reserves, and the model keeps the header apart. The
  int 0x13 of any read may fail; `ioError` remembers that one has. When `main`
  copies the user program, paging is on and only the 28 pages that `set_user_pages`
  has given to the first process are mapped from its address on (`USER_BYTES`, 112
  KB): a larger program ends in a page fault in the middle of the copy (stage
  `"fault"`).
* **Console.** A character is a string, a cell a pair; `con.row` is a history
  variable of the specification: what `printc` has put on the cursor's row.
  `WriteBlock` copies a block from the user, and each step of
  `sys_write_console` prints one of its characters; the clock cannot come
  between them, since interrupts are masked.
* Definitions called `..._fault` stand before the operator they vary, with a
  plausible bug in it: replacing the operator by its variant breaks a property
  (`PROJECT.json`, `mutants`). Nothing else uses them.

## 3. Runs

| Run | Checks | Instance |
|---|---|---|
| `KernelAll` | type, lists, states, idle, quantum, order of the ready queue | idle + 3 processes, 1 semaphore, counter of 2 bits, one-slot buffer, reads of 2, failing forks |
| `KernelSem` | refinement of the abstract semaphores, destroyed waiters, lists of free semaphores, unique PIDs, live owners, no PCB lost | 2 semaphores, initial values 0, 1, 3 (3 becomes negative), no reads |
| `KernelLive` | one reader copies at a time and is woken at the right key, no PCB lost; liveness: every ready process runs, a single reader with a typist finishes | fair ticks, two-slot buffer, reads of 1, 3 and 5, up to three readers |
| `Stats` | no time charged twice, user time is the time spent in user code, `get_stats` answers for the right process | idle + 2 processes, two values of time after boot, one-slot buffer, reads of 1 |
| `Parts` | ring and FIFO; pointers and sequences; registers and errors of the stubs; image and loader; screen, write, perror | ring of three; two lists, four nodes; all stubs and errors; scaled-down floppy (below); screen of 3 by 2 |
| `Memory` | privacy of frames, directory counters, heap pages, TLB, roll-back, that no process loses a page or has it replaced by another's call | 4 PCBs, 6 allocatable frames, one page each of code and data, pages of two bytes, sbrk inside, across and below page and heap boundaries, forks until the directories run out |
| `ClaimIdle`, `ClaimRead`, `ClaimWake`, `ClaimFork`, `ClaimHeap`, `ClaimTransitions` | statements that the code contradicts; each run ends in a counterexample | as small as the case allows |

**Bounds and why they are enough.** Four PCBs are idle and three processes: two
waiters in one list and a third to run, signal, destroy or preempt them, and an
exhausted free list. `MaxPid` bounds the calls of fork and clone: in `KernelSem`
(5) three children are made one after the other, so a PCB is used again after an
exit, with what its former owner left in it; `KernelAll` and `KernelLive` (4) use
every PCB once. A quantum of one or two ticks makes every interleaving of ends of
quantum possible, and the tick in idle with zero ticks left occurs. A one- or
two-slot buffer with longer reads makes readers go in several rounds; reads of 5
need three. With `IntMax` = 1 the counter overflows after two signals.
`SemValues` contains a value above `IntMax`. `MaxReaders` bounds how many
programs read at once: it is at least the number of processes in the kernel's
runs, so it bounds nothing there; that `SingleReadReturns` is about one read at a
time is a hypothesis of the property. `KernelAll`, `KernelSem` and `KernelLive`
keep deadlock checking on: the clock can always tick when interrupts are on.

In `Stats` the clock stops at `MaxTime`, and a behaviour ends when a task has
`MaxTrans` transitions: time passes twice, in any of the gaps between the reads of up to
eight per step, which is enough for a span to be opened, cut by a switch, and
closed by another task. In `Parts` each part ends when its program does: a
booted image, a finished write. Its floppy has sectors of four bytes, tracks of
three sectors and segments of five, so track and segment ends fall in every
order, the loader's own segment can be reached, and the system and user files
end within a sector, at its end, and beyond the limit of the header. With
`USER_BYTES` = 24 the user programs of 1 and 20 bytes fit in their pages, and the
larger ones do not. Texts are
longer than a block and a row and contain a newline. `errno` is printed with one
and two digits. The stubs need no bound: their state is finite.

In `Memory` (and `ClaimHeap`) the machine may stop: after a fault, or when the
last process has exited. Two address spaces and threads coexist, and as two
directories are taken at boot a second child already finds none; such forks,
which are not counted in `dir_counter`, are bounded by `MaxUncounted` = 1, since
without a bound the counter of the shared directory decreases for ever. With 6
frames a fork or sbrk fails after taking none, some or all but one of the frames
it needs, and frames are reused after exits.

**What the counterexamples show.**
`ClaimIdle`: a key that completes a read while the CPU idles makes
`keyboard_routine` queue *idle* as a ready process (interrupt.c:145), and idle
then takes quanta from user processes. `ClaimRead`: a reader that finds another
one waiting returns 0 without any character (sys.c:347). `ClaimWake`: the
readers' queue is examined only when a character can be stored
(interrupt.c:124), so a reader that becomes the first while the buffer is full
is never woken. `ClaimFork`: a fork that fails for lack of frames keeps
the PCB (sys.c:104). `ClaimHeap`: a child of a process with a heap
exits without freeing its copy of it, because fork does not set the child's
break (sys.c:90). `ClaimTransitions`: `needs_sched_rr` counts a transition for the
process that is about to lose the CPU (sched.c:150), and `sched_next_rr` counts
it again when that process comes back, so preemption counts twice.
`ClaimFork` and `ClaimTransitions` contradict comments (of sys.c:104 and
stats.h:12), the others the manual, Zeos.pdf.

**Exceptions that properties name.** `TLBFresh` excepts the first page of the
heap: sbrk(1), sbrk(-2), sbrk(1) shrinks the heap below its start, leaves that
page mapped, and maps another frame over it without emptying the TLB (sys.c:401,
420). `RegistersKept` excepts the stubs of clone and sbrk, and that of a fork
that fails: they do not give their caller `ebx`, or `ecx` and `edx`, back. It
also says which number out of range the handler lets through: MAX_SYSCALL, one
past the table (entry.S:124). `ImageInPlace` is about images of up to SYSSIZE
paragraphs and about loads without a disk error, which the loader ignores; and it
says that a user program larger than the pages mapped for it faults while `main`
copies it (system.c:179). build.c checks neither size. `UserTimeMeasured` leaves idle
out, which is charged as user time with all that precedes its first interrupt. No
text of the repository contradicts these.

**Fairness.** `WF(Continuation)`: dispatched kernel code runs on. `SF(Clock)`: the
timer ticks for ever; a tick that arrives while interrupts are masked is latched
by the interrupt controller and delivered as soon as user code runs, so ticks cannot
be missed for ever although they are not continuously enabled. `SF(Keyboard)` is
an assumption about the user: it is in `TypingSpec`, of `ClaimWake`, and in the
hypothesis of `SingleReadReturns`. No program is obliged to make or not to make a
call, and time in `Stats` is not obliged to pass.

## 4. Proofs

Every theorem holds for all values of the constants under the named assumptions
(`SchedAssumption`, `SemAssumption` and so on, in the modules that declare the
constants), which only give the constants their ranges.

**The kernel** (for every number of tasks, semaphores and buffer slots, every
quantum and width of counter). `ZeosKernelProofs` proves `TypeOK`, `LinkedOnce`,
`CurrentUnlinked`, `ListedAsStated`, `IdleNeverBlocks`, `NoPCBLost` and
`WaitersConsistent`. They are not inductive one by one: that the next task is
unlinked depends on its state, that its state is right on its list, that the list
is a list on every earlier unlinking, and that idle can be switched to on all of
them. `IInv` conjoins them with the ranges of the other variables and with
`ReadersLack` (a reader in its loop still lacks characters, which keeps `read_i`
from passing `count`). It is stated over *values* of the lists, states and
continuations (`Between`, `SwitchPre`), since `sched_next_rr` is called in the
middle of a handler: `SwitchOK` shows that it turns `SwitchPre` into `Between`;
`QueueCurrent`, `MakeReady`, `ReleaseAll`, `WakeReader` and `LeakPCB` that each
handler reaches `SwitchPre` or `Between`; then one lemma per action of `Next`,
and `NextIInv`. The module begins with the facts on sequences of distinct
elements: what adding at either end, removing the first and emptying one list
into another do to the set of linked tasks.

The other proof modules use `Invariance` (`Spec => []IInv`) and add what they need:

* `ZeosProcessProofs`. `QuantumInRange` follows each way through
  `sched_next_rr`: the branch to idle keeps `left_ticks`, the other resets it.
  `DestroyedIsPending`: `FlagsKept` and `FlagsSwitched` show that a raised flag
  stays with a task that is ready in `sys_sem_wait`, `FlagsDestroy` that destroying
  raises it for such tasks only. `UniquePids` and `OwnerAlive` are proved together
  with `ExitRuns` (nothing runs between the steps of an exit) as `PidInv`: steps
  are classified by `StepKinds` into those that take no PID, those that make a
  process, and the steps of an exit.
* The same module, for the order of the ready queue: `ReadyInTurn` is an action
  property that needs nothing beyond `IInv`. Every handler only adds at the end
  (`TurnQueued`) and a switch takes the head (`TurnSwitched`), so what is left of
  the old queue stays in front of the new one; `PrefixOfGrown` and
  `PrefixOfTails` are the facts on sequences. The reader that `keyboard_routine`
  links at the front is no exception, because the same interrupt dispatches it
  (`TurnKeyboard`). This is the safety that `ReadyRuns` rests on: nobody is
  overtaken.
* The same module, for the keyboard: `OneReaderCopies` and `WokenInTime` are
  inductive over `IInv` together with `EnoughAwaited`: a reader never awaits fewer
  characters than it still lacks. That the equality of `keyboard_routine` is not
  jumped over needs all three: one reader waits at the front, each key adds one
  character, and the key that makes the equality true is the one that dispatches
  it. `DispatchedUnlinked` and `SwitchKeepsKeyboard` isolate what a task switch may do
  to the readers.
* `ZeosSemProofs`. `KernelImplementsSemaphores`: `Spec => ImplementsSemaphores`.
  Under `RefInv`, which is `IInv`, `DestroyedIsPending` and `UniquePids`, every
  step of the kernel is an operation of `CountingSemaphores` on the mapped state or
  leaves it unchanged: waking maps to granting, the flags of released waiters
  to refusals, and each semaphore that an exit destroys to one `Destroy`.
* `ZeosStatsProofs`. Every step of `StatsNext` takes a step of the kernel, or
  none, beside the accounting (`KernelSteps`), so `KernelInv`, which is `IInv`,
  `PidInv`, `QuantumInRange` and `DeadPids` (a free PCB keeps no PID unless a
  fork has lost one), holds in `StatsSpec` too, and `StatsOfTheLiving` follows:
  at most one PCB has the PID that is asked for, and it is alive.
  `TimeChargedOnce` is inductive with the ranges of the counters and `now`, as
  `ClockedBy(p_stats, T)`: at time T nobody has been charged with more than has
  passed. A handler is a chain of accounts at times that do not go back, for
  the task that leaves and for the one that comes, and each link carries
  `ClockedBy` from its time to the next: `EnteredOK`, `ReportedOK`, `SwitchedOutOK`,
  `SwitchedInOK` and `ExitedOK` for the stages, `AccountOK` for the chain;
  `Later` fills the gaps.
* `UserTimeMeasured` is proved along the same chain. Only `enter_system` charges
  user time (`KeepsUser` for the other stages), and it charges exactly the time since
  user code was entered, because a process in user code is accounted for until now:
  everyone but idle comes there through `exit_system`. This is `UserInv`. What it
  takes from the kernel is `StepOK`: who is running, who is new, and that no live
  task is overwritten.

**Lists.** `ListProofs` proves `Represents` inductive: after any legal
insertions, deletions and initialisations, following `next` from a head, or
`prev` backwards, gives the sequence, for any lists and nodes. This is what allows
the kernel's modules to take lists as sequences.

**Memory.** `MemProofs` proves all that the run `Memory` checks, for every number
of tasks, frames and pages, every size of a page and every increment.
`SharersCounted` is inductive with the ranges of the tables and with the fact that
no kernel frame is ever free (`CountInv`), from which `FailureIsUndone` follows:
the frames that a failing call gives back are exactly those it took. That the first
free directory and the next free PCB exist is shown by the well-foundedness of <
(`LeastExists`).

`TypeOK`, `PrivateFrames`, `HeapBacked` and `TLBFresh` need each other, and
`SpaceInv` is their strengthening:

* Only the directory that `init_task1` takes (`HeapDir`) ever has a break: the
  child's is never set, and a child that forks or shrinks its heap writes out of
  its page table and halts the model (`Breaks`). So only its tasks fork and
  move a break.
* `FramesRight` says over the directories in use *or free to be given away*
  (`Kept`) that code pages are shared, that mapped frames are taken, and that no
  private frame is mapped twice. It cannot say so of the others: a fork that runs
  out of frames leaves behind a directory, counted but unused, whose entries
  belong to others by now. `FramesStep` is the one lemma by which all calls keep
  it: an entry is kept, removed, copied from the shared code, or a frame just
  taken.
* `HeapDirState` says which pages of that directory are mapped: all up to the
  break and, but for the first page of the heap, none above it. After its last
  counted task has exited, data and stack are gone.
* The break stays below the end of the page table because the frames run out
  first (`HeapFull`, by the pigeonhole principle): there are fewer of them than
  user pages and no two pages of the directory share one, so that `sbrk` does not
  test for the end does no harm. The arithmetic of pages and addresses is in the
  lemmas about `PageAbove`.

`PagesStay` follows from `SpaceInv` call by call: the temporary pages through which
fork copies start at the top of the parent's heap, so nothing below is unmapped
when they are removed (`StaysFork`); exit unmaps only when it is the last counted
user (`StaysExit`); and a shrinking `sbrk` releases only pages above the new break
(`ReleasedAbove`).

Uncounted forks weaken it: `SharersCounted`, `HeapBacked` and `TLBFresh` are
about states before the first, as the properties say themselves, and
`TypeOK` and `PrivateFrames` hold after it too. `SpaceInv` was an invariant of
the run `Memory` before it was proved.

**Ring and console.** `DeviceProofs` proves `RingInv` and the refinement of the
FIFO for every size of the buffer: a push maps to `Put`, a read character to
`Get`. `RowIntact` is proved for every size of the screen, cell of the clock and
row to start on, over the type of the screen: whatever `printc_xy` prints, even in
the last column, where `printc` goes on to the next row, the cursor and every other
cell are what they were. `WritesExactly` is proved for every text, size
and length of a block by `PrefixWritten`: what is printed and what is left of the
block make a prefix of the buffer, which a block extends at the place where the
last one stopped.

**Boot.** `BootProofs` proves `LoadedInOrder` for every geometry of the floppy by
`InStep`: the position on the disk, from track, head and sector, is always one more
than the position in memory, from segment and offset, because the boot sector is not
loaded. `ReadLength` stops a read at both ends, so the two
positions advance by the same number. `ImageInPlace`, for programs that fit in their
pages and for those that fault in the copy, adds `BuildInv` (what `build`
has written is always a prefix of the system and then the user program, with their
sizes in the header) and `LoaderInv` (when the loader stops, it has passed the last
paragraph; while the image fits it never reaches its own segment). The assumptions
besides ranges are facts about constants of the sources: a sector is a whole
number of paragraphs (512 and 16), SYSSIZE fits in the 16 bits of the header (0x7F00), and SYSSIZE
paragraphs end below the loader's segment (0x7F00 < 8 * 0x1000; the loader is at
0x9000, the system from 0x1000 on).

So every invariant of the runs that pass is proved for all constants except those
named here, and so are both refinements and the action properties `FailureIsUndone`,
`PagesStay` and `ReadyInTurn`. Only model-checked
are:

* `RegistersKept` and `ErrorsReported`. `SyscallStubs` has no constants and TLC
  visits all of its states, so the run is as strong as a proof.
* `PerrorSaysErrno`, which is about the digits that `itoa` produces in a loop:
  what it computes for every number needs induction over data, which the
  provers cannot do here. `errno` has at most two digits.
* the liveness properties and the refuted claims, since fairness and ENABLED are
  out of the prover's reach.

## 5. Not modelled

* `ZeosMem` composed with the scheduler: that fork runs out of frames is an input
  of the kernel's modules, and a machine that faults in a page table is not in
  them.
* Contents and permissions of pages, segmentation, the TSS; that `sys_fork`
  makes kernel pages present that `init_table_pages` left out (sys.c:86).
* What an `sbrk` out of the page table overwrites: the model stops there.
* Of the boot: the switch to protected mode, A20, the descriptor tables, the
  interrupt controller and the MSRs (hardware.c, parts of bootsect.S and
  interrupt.c), which are constants written in a fixed order; the file that a
  `build` that dies half way leaves behind.
* `printk`, `inb`, `strlen`, `access_ok`, which always answers 1, and the copying
  itself in `copy_to_user`.
* Two threads of one program whose failing calls both write `errno`, or whose
  `perror` share a buffer.
* The width of the statistics' counters, and `blocked_ticks`, which is never
  written.
* user.c, which is an example program, and the test libraries, which are binaries
  without source. Programs are the environment: any sequence of calls.

## 6. Plan

Done: the scheduler, semaphores, keyboard and processes, composed, with their
statistics; memory management with its TLB; the pointers of list.c; the ring; the
system call stubs; image, loader and console; three abstract specifications (the
semaphores, the FIFO, the sequences of list.c); proofs of the safety properties
of the kernel, the statistics, memory, lists, ring, console and boot, and of the
refinements.

What would add most next:

1. `ZeosMem` composed with the process part of the kernel, so that the outcome
   of fork is computed.
2. Contents of pages in `ZeosMem`, and a theorem that a fork gives the child a copy
   of each of the parent's pages. That the parent's own pages stay where they are is
   part of `PagesStay`.
3. An action property of the kernel: that a waiter leaves a semaphore only by a
   signal or its destruction. `ImplementsSemaphores` implies it of the abstract
   waiters, but does not state it.
