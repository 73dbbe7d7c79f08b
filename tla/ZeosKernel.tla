------------------------------ MODULE ZeosKernel ------------------------------
(***************************************************************************)
(* The ZeOS kernel as the programs and the devices drive it: scheduler,    *)
(* semaphores, keyboard input and process management composed.  A step is  *)
(* a system call of the running process, an interrupt that finds the CPU   *)
(* in user code or in the idle loop, or the rest of a system call whose    *)
(* process has been dispatched again.                                      *)
(***************************************************************************)
EXTENDS ZeosKeyboard, ZeosProcess, FiniteSets, SequencesExt

CONSTANTS
    MaxPid,        \* bound: fork and clone are called while global_PID is below
    MaxReaders,    \* bound: processes that programs let read at the same time
    AllocMayFail   \* BOOLEAN: fork may run out of physical pages

ASSUME KernelAssumption ==
    /\ MaxPid \in Nat
    /\ MaxReaders \in Nat
    /\ AllocMayFail \in BOOLEAN

vars == <<schedVars, taskVars, eax, semVars, kbdVars, procVars>>

Readers == {t \in Task : kont[t] \in {"readloop", "readret"}}

----------------------------------------------------------------------------
Clock    == clk_routine /\ UNCHANGED <<semVars, kbdVars, procVars>>
Keyboard == keyboard_routine /\ UNCHANGED <<semVars, procVars>>

SemInitCall ==
    /\ \E n \in SemArg, value \in SemValues : sys_sem_init(n, value)
    /\ UNCHANGED <<kbdVars, procVars>>
SemWaitCall ==
    /\ \E n \in SemArg : sys_sem_wait(n)
    /\ UNCHANGED <<kbdVars, procVars>>
SemSignalCall ==
    /\ \E n \in SemArg : sys_sem_signal(n)
    /\ UNCHANGED <<kbdVars, procVars>>
SemDestroyCall ==
    /\ \E n \in SemArg : sys_sem_destroy(n)
    /\ UNCHANGED <<kbdVars, procVars>>
ReadCall ==
    /\ Cardinality(Readers) < MaxReaders
    /\ \E fd \in {0, 1}, buffer \in ReadBuffer, count \in {-1} \cup ReadCounts :
          sys_read(fd, buffer, count)
    /\ UNCHANGED <<semVars, procVars>>
ForkCall ==
    /\ global_PID < MaxPid
    /\ \E enoughPages \in BOOLEAN :
          /\ enoughPages \/ AllocMayFail
          /\ sys_fork(enoughPages)
    /\ UNCHANGED kbdVars
CloneCall ==
    /\ global_PID < MaxPid
    /\ \E argsOk \in BOOLEAN : sys_clone(argsOk)
    /\ UNCHANGED kbdVars
ExitCall == sys_exit /\ UNCHANGED kbdVars

SystemCall ==
    \/ SemInitCall \/ SemWaitCall \/ SemSignalCall \/ SemDestroyCall
    \/ ReadCall
    \/ ForkCall \/ CloneCall \/ ExitCall

\* The rest of a system call, with interrupts still masked.
SemWaitRest == SemWaitResume /\ UNCHANGED <<kbdVars, procVars>>
ReadRest    == (ReadLoopResume \/ ReadReturn) /\ UNCHANGED <<semVars, procVars>>
ExitRest    == (ExitSem \/ ExitRelease) /\ UNCHANGED kbdVars

Continuation == SemWaitRest \/ ReadRest \/ ExitRest

Init == SchedInit /\ SemInit /\ KeyboardInit /\ ProcessInit

Next == SystemCall \/ Continuation \/ Clock \/ Keyboard

Spec == Init /\ [][Next]_vars

----------------------------------------------------------------------------
(* Fairness.  Kernel code that has been dispatched runs on.  The clock     *)
(* interrupt is strongly fair: a tick that comes while interrupts are      *)
(* masked stays pending in the interrupt controller and is delivered when  *)
(* user code runs again.  No program is obliged to make a system call.     *)
Fairness == WF_vars(Continuation) /\ SF_vars(Clock)

FairSpec == Spec /\ Fairness

\* ... and somebody goes on typing.
TypingSpec == FairSpec /\ SF_vars(Keyboard)

----------------------------------------------------------------------------
TypeOK ==
    /\ queue \in [Queue -> Seq(Task)]
    /\ current \in Task
    /\ state \in [Task -> {ST_RUN, ST_READY, ST_BLOCKED}]
    /\ PID \in [Task -> Int]
    /\ semdestroyed \in [Task -> BOOLEAN]
    /\ kont \in [Task -> Kont]
    /\ left_ticks \in 0 .. TickMax
    /\ eax \in Int
    /\ sem_counter \in [Sem -> -IntMax - 1 .. IntMax]
    /\ owner_pid \in [Sem -> Int]
    /\ circbuffcounter \in 0 .. CIRCBUFF_SIZE
    /\ keyboard_readers_count \in [Task -> Int]
    /\ read_count \in [Task -> Nat]
    /\ read_i \in [Task -> Nat]
    /\ global_PID \in Nat
    /\ exit_i \in 0 .. NumSem

----------------------------------------------------------------------------
(* Lists, states and the CPU.                                              *)
Live   == {t \in Task : kont[t] # "dead"}
Linked(t, q) == t \in Range(queue[q])

\* Every PCB has one list node: it is linked at most once, on one list, so
\* no list_add ever splices two of the kernel's lists together.
LinkedOnce ==
    /\ \A q \in Queue : IsInjective(queue[q])
    /\ \A q1, q2 \in Queue : q1 # q2 => Range(queue[q1]) \cap Range(queue[q2]) = {}

\* The running task is on no list and its PCB says that it runs.
CurrentUnlinked ==
    /\ current \in Live
    /\ state[current] = ST_RUN
    /\ \A q \in Queue : ~Linked(current, q)

\* The state field and the continuation of a linked task fit its list:
\* sched_next_rr unlinks a task only if its state is not ST_RUN.
ListedAsStated ==
    /\ \A t \in Range(queue[readyqueue]) :
          state[t] = ST_READY /\ kont[t] \in {"user", "semwait"}
    /\ \A n \in Sem : \A t \in Range(queue[n]) :
          state[t] = ST_BLOCKED /\ kont[t] = "semwait"
    /\ \A t \in Range(queue[keyboardqueue]) :
          state[t] = ST_BLOCKED /\ kont[t] \in {"readloop", "readret"}
    /\ \A t \in Range(queue[freequeue]) : kont[t] = "dead"

\* The idle task, which has no process to go back to, never lands on the
\* free list or waits for a semaphore or the keyboard, and is fit to be
\* switched to whenever it is not queued.
IdleNeverBlocks ==
    /\ kont[idle_task] = "user"
    /\ \A q \in Queue \ {readyqueue} : ~Linked(idle_task, q)
    /\ Linked(idle_task, readyqueue) \/ state[idle_task] = ST_RUN

\* No PCB is dropped: whatever fork, clone, exit and the wake-ups do, each
\* one but idle is running or on a list.  (A fork that runs out of pages
\* breaks it: see ForkRestoresPCB.)
NoPCBLost ==
    AllocMayFail \/ \A t \in Task \ {idle_task} :
                        t = current \/ \E q \in Queue : Linked(t, q)

\* The quantum that is left is in range, unless the CPU idles with nobody
\* ready: an empty ready queue is the only way to a stale left_ticks.
QuantumInRange ==
    left_ticks \notin 1 .. Quantum =>
        current = idle_task /\ list_empty(queue, readyqueue)

\* The ready queue is served in order of arrival: a step takes at most its
\* first task away, which gets the CPU, and whoever a handler makes ready comes
\* behind all the others.  The reader that keyboard_routine links at the FRONT
\* overtakes nobody that stays in line: the same interrupt dispatches it.
ServedInTurn ==
    LET ready == queue[readyqueue] IN
    \/ IsPrefix(ready, queue'[readyqueue])
    \/ /\ ready # <<>>
       /\ current' = Head(ready)
       /\ IsPrefix(Tail(ready), queue'[readyqueue])

ReadyInTurn == [][ServedInTurn]_vars

----------------------------------------------------------------------------
(* Semaphores and processes.                                               *)

\* A free semaphore has no waiters, so sem_init never throws a list of
\* blocked processes away; one with waiters has nothing to give.
WaitersConsistent ==
    \A n \in Sem : queue[n] # <<>> => owner_pid[n] # -1 /\ sem_counter[n] <= 0

\* The semdestroyed flag is up only for a task that was thrown out of
\* sys_sem_wait and has not run since, so no later wait can see it.
DestroyedIsPending ==
    \A t \in Task : semdestroyed[t] =>
        \/ kont[t] = "dead"
        \/ /\ kont[t] = "semwait"
           /\ t = current \/ Linked(t, readyqueue)

\* PIDs are given once: two live tasks never share one, and none is -1.
UniquePids ==
    /\ \A t \in Live : PID[t] >= 0 /\ PID[t] < global_PID
    /\ \A t, u \in Live : PID[t] = PID[u] => t = u

\* The owner of a semaphore in use is alive, so somebody can destroy it: a
\* process that exits has nothing left by the time its PCB is given back.
OwnerAlive ==
    /\ \A n \in Sem : owner_pid[n] # -1 => \E t \in Live : PID[t] = owner_pid[n]
    /\ kont[current] = "exit" =>
          \A n \in Sem : n < exit_i => owner_pid[n] # PID[current]

----------------------------------------------------------------------------
(* Keyboard input.                                                         *)

\* A process inside read() is blocked on the keyboard or has the CPU: being
\* woken means preempting the running task.  At most one of them is copying
\* characters, and when blocked it is the first of keyboardqueue, so the
\* characters of two readers never interleave.
OneReaderCopies ==
    /\ \A t \in Readers : t = current \/ Linked(t, keyboardqueue)
    /\ \A t \in Task : kont[t] = "readloop" =>
          /\ \A u \in Task : kont[u] = "readloop" => u = t
          /\ queue[keyboardqueue] # <<>> /\ t # current => Head(queue[keyboardqueue]) = t

\* What a task in the loop of sys_read_keyboard has still to copy.
Lacks(t) == read_count[t] - read_i[t]

\* The keyboard wakes the reader in its loop at the right key: while it is
\* blocked the buffer is not full and holds less than it waits for, so the
\* equality that keyboard_routine tests is never jumped over; once it is
\* dispatched the buffer has all that it still lacks, or is full.
WokenInTime ==
    \A t \in Task : kont[t] = "readloop" =>
        IF t = current
        THEN circbuffcounter = CIRCBUFF_SIZE \/ circbuffcounter >= Lacks(t)
        ELSE circbuffcounter < CIRCBUFF_SIZE /\ circbuffcounter < keyboard_readers_count[t]

----------------------------------------------------------------------------
(* Liveness.                                                               *)

\* Round robin starves nobody: a process on the ready queue gets the CPU,
\* although wake-ups from the keyboard jump that queue.
ReadyRuns ==
    \A t \in Task \ {idle_task} : Linked(t, readyqueue) ~> current = t

\* While programs read one at a time and somebody goes on typing, a blocked
\* reader gets all its characters, whatever an earlier read left in the buffer.
SingleReadReturns ==
    [](Cardinality(Readers) <= 1) /\ SF_vars(Keyboard) =>
        \A t \in Task : kont[t] = "readloop" ~> kont[t] = "user"
=============================================================================
