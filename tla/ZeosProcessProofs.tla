--------------------------- MODULE ZeosProcessProofs ---------------------------
(***************************************************************************)
(* Proofs about the quantum, the semdestroyed flags, the PIDs and the      *)
(* owners of semaphores, about the readers of the keyboard, and about the  *)
(* order in which ready tasks are served, on top of the invariant of       *)
(* ZeosKernelProofs.                                                       *)
(***************************************************************************)
EXTENDS ZeosKernelProofs

\* What the invariant says of the running task.
LEMMA Running ==
    ASSUME IInv
    PROVE  /\ current \in Task /\ kont[current] # "dead"
           /\ kont \in [Task -> Kont] /\ kont[idle_task] = "user"
           /\ ListsOK(queue) /\ OnNoList(queue, current)
           /\ queue[readyqueue] \in Seq(Task)
BY QueueHeads DEF IInv, Between, CpuOK, IdleOK, ListsOK

\* What the invariant says of the PCB that a fork or clone takes.
LEMMA FreeHead ==
    ASSUME IInv, queue[freequeue] # <<>>
    PROVE  /\ Head(queue[freequeue]) \in Task
           /\ kont[Head(queue[freequeue])] = "dead"
           /\ ListsOK(list_del(queue, freequeue))
           /\ OnNoList(list_del(queue, freequeue), Head(queue[freequeue]))
           /\ \A x \in Queue \ {freequeue} : list_del(queue, freequeue)[x] = queue[x]
BY DelFirst, QueueHeads DEF IInv, Between, OffReady

\* Every task that was ready is still ready after a switch, or has the CPU.
LEMMA SwitchEffect ==
    ASSUME NEW q, NEW st, NEW left, ListsOK(q), sched_next_rr(q, st, left)
    PROVE  /\ left_ticks' = Quantum \/ (current' = idle_task /\ queue'[readyqueue] = <<>>)
           /\ \A t \in Range(q[readyqueue]) : t = current' \/ t \in Range(queue'[readyqueue])
           /\ q[readyqueue] # <<>> => current' = Head(q[readyqueue])
<1>1. CASE list_empty(q, readyqueue) /\ current' = idle_task /\ queue' = q
           /\ left_ticks' = left
  BY <1>1, RangeOfEmpty DEF list_empty
<1>2. CASE /\ ~list_empty(q, readyqueue)
           /\ current' = list_first(q, readyqueue)
           /\ queue' = Dequeue(q, st)
           /\ left_ticks' = Quantum
  <2>1. q[readyqueue] # <<>>
    BY <1>2 DEF list_empty
  <2>2. Range(list_del(q, readyqueue)[readyqueue])
           = Range(q[readyqueue]) \ {Head(q[readyqueue])}
    BY <2>1, DelFirst, QueueHeads
  <2>3. queue' = q \/ queue' = list_del(q, readyqueue)
    BY <1>2 DEF Dequeue
  <2>4. ASSUME NEW t \in Range(q[readyqueue]), t # current'
        PROVE  t \in Range(queue'[readyqueue])
    BY <1>2, <2>2, <2>3, <2>4 DEF list_first
  <2>5. left_ticks' = Quantum /\ current' = Head(q[readyqueue])
    BY <1>2 DEF list_first
  <2> QED
    BY <2>4, <2>5
<1> QED
  BY <1>1, <1>2 DEF sched_next_rr

\* The lists as the running task's handler passes them to sched_next_rr.
LEMMA QueuedLists ==
    ASSUME IInv, NEW dst \in Queue, NEW r,
           r = list_add_tail(queue, dst, current) \/ r = list_add(queue, dst, current)
    PROVE  /\ ListsOK(r)
           /\ Range(r[dst]) = Range(queue[dst]) \cup {current}
           /\ \A x \in Queue : x # dst => r[x] = queue[x]
           /\ \A t \in Range(queue[readyqueue]) : t \in Range(r[readyqueue])
<1>1. /\ ListsOK(r)
      /\ Range(r[dst]) = Range(queue[dst]) \cup {current}
      /\ \A x \in Queue : x # dst => r[x] = queue[x]
  <2>1. ListsOK(queue) /\ current \in Task /\ OnNoList(queue, current)
    BY Running
  <2>2. CASE r = list_add_tail(queue, dst, current)
    BY <2>1, <2>2, AddTail
  <2>3. CASE r = list_add(queue, dst, current)
    BY <2>1, <2>3, AddFront
  <2> QED
    BY <2>2, <2>3
<1> QED
  BY <1>1, QueueHeads

\* The lists as keyboard_routine passes them when it wakes the first reader.
LEMMA WokenLists ==
    ASSUME IInv, queue[keyboardqueue] # <<>>
    PROVE  LET h == Head(queue[keyboardqueue])
               r == list_add_tail(list_add(list_del(queue, keyboardqueue), readyqueue, h),
                                  readyqueue, current)
           IN  /\ h \in Range(queue[keyboardqueue]) /\ h \in Task /\ h # current
               /\ ListsOK(r)
               /\ r[readyqueue] # <<>> /\ Head(r[readyqueue]) = h
               /\ r[keyboardqueue] = Tail(queue[keyboardqueue])
               /\ \A t \in Range(queue[readyqueue]) : t \in Range(r[readyqueue])
<1> DEFINE h  == Head(queue[keyboardqueue])
           p1 == list_del(queue, keyboardqueue)
           p2 == list_add(p1, readyqueue, h)
           r  == list_add_tail(p2, readyqueue, current)
<1>1. /\ ListsOK(queue) /\ current \in Task /\ OnNoList(queue, current)
      /\ keyboardqueue \in Queue /\ readyqueue \in Queue /\ keyboardqueue # readyqueue
  BY Running, QueueHeads
<1>2. /\ ListsOK(p1) /\ h \in Task /\ h \in Range(queue[keyboardqueue])
      /\ Range(p1[keyboardqueue]) = Range(queue[keyboardqueue]) \ {h}
      /\ \A x \in Queue : x # keyboardqueue => p1[x] = queue[x]
      /\ OnNoList(p1, h)
  BY <1>1, DelFirst
<1>3. p1[keyboardqueue] = Tail(queue[keyboardqueue])
  BY <1>1 DEF list_del, ListsOK
<1> HIDE DEF h, p1
<1>4. /\ ListsOK(p2)
      /\ Range(p2[readyqueue]) = Range(p1[readyqueue]) \cup {h}
      /\ \A x \in Queue : x # readyqueue => p2[x] = p1[x]
      /\ p2[readyqueue] # <<>> /\ Head(p2[readyqueue]) = h
  BY <1>1, <1>2, AddFront
<1> HIDE DEF p2
<1>5. h # current
  BY <1>1, <1>2 DEF OnNoList
<1>6. OnNoList(p2, current)
  <2>1. ASSUME NEW x \in Queue PROVE current \notin Range(p2[x])
    <3>1. current \notin Range(p1[x])
      BY <1>1, <1>2 DEF OnNoList
    <3> QED
      BY <3>1, <1>4, <1>5
  <2> QED
    BY <2>1 DEF OnNoList
<1>7. /\ ListsOK(r)
      /\ Range(r[readyqueue]) = Range(p2[readyqueue]) \cup {current}
      /\ \A x \in Queue : x # readyqueue => r[x] = p2[x]
      /\ r[readyqueue] # <<>> /\ Head(r[readyqueue]) = h
  BY <1>1, <1>4, <1>6, AddTail
<1> HIDE DEF r
<1>8. /\ r[keyboardqueue] = Tail(queue[keyboardqueue])
      /\ \A t \in Range(queue[readyqueue]) : t \in Range(r[readyqueue])
  BY <1>1, <1>2, <1>3, <1>4, <1>7
<1> QED
  BY <1>2, <1>5, <1>7, <1>8 DEF h, p1, p2, r

----------------------------------------------------------------------------
(* The quantum.                                                            *)

LEMMA QuantumSwitched ==
    ASSUME NEW q, NEW st, NEW left, sched_next_rr(q, st, left)
    PROVE  QuantumInRange'
<1>1. Quantum \in 1 .. Quantum
  BY SchedAssumption
<1>2. \/ left_ticks' = Quantum
      \/ current' = idle_task /\ queue' = q /\ list_empty(q, readyqueue)
  BY DEF sched_next_rr
<1> QED
  BY <1>1, <1>2 DEF QuantumInRange, list_empty

LEMMA QuantumKept ==
    ASSUME QuantumInRange, current # idle_task, left_ticks' = left_ticks
    PROVE  QuantumInRange'
BY DEF QuantumInRange

LEMMA QuantumClock == ASSUME IInv, QuantumInRange, Clock PROVE QuantumInRange'
<1> DEFINE left == update_sched_data_rr
<1>1. CASE left # 0 /\ left_ticks' = left /\ UNCHANGED <<queue, current, state>>
  <2>1. left_ticks \in 1 .. Quantum => left \in 1 .. Quantum
    BY <1>1, SchedAssumption DEF update_sched_data_rr
  <2> QED
    BY <1>1, <2>1 DEF QuantumInRange, list_empty
<1>2. CASE ~(left # 0 /\ left_ticks' = left /\ UNCHANGED <<queue, current, state>>)
  BY <1>2, QuantumSwitched DEF Clock, clk_routine
<1> QED
  BY <1>1, <1>2

LEMMA QuantumStep == ASSUME IInv, QuantumInRange, [Next]_vars PROVE QuantumInRange'
<1> USE DEF schedVars
<1>1. CASE Clock
  BY <1>1, QuantumClock
<1>2. CASE Keyboard
  <2>1. CASE UNCHANGED schedVars
    BY <2>1 DEF QuantumInRange, list_empty
  <2>2. CASE ~UNCHANGED schedVars
    BY <1>2, <2>2, QuantumSwitched DEF Keyboard, keyboard_routine
  <2> QED
    BY <2>1, <2>2
<1>3. CASE SystemCall
  <2>1. current # idle_task
    BY <1>3 DEF SystemCall, SemInitCall, SemWaitCall, SemSignalCall, SemDestroyCall,
                ReadCall, ForkCall, CloneCall, ExitCall, sys_sem_init, sys_sem_wait,
                sys_sem_signal, sys_sem_destroy, sys_read, sys_fork, sys_clone, sys_exit,
                InUserCode
  <2>2. CASE left_ticks' = left_ticks
    BY <2>1, <2>2, QuantumKept
  <2>3. CASE left_ticks' # left_ticks
    <3>1. CASE SemWaitCall
      BY <2>3, <3>1, QuantumSwitched DEF SemWaitCall, sys_sem_wait, Fail
    <3>2. CASE ReadCall
      BY <2>3, <3>2, QuantumSwitched
         DEF ReadCall, sys_read, ReadLoop, CopyAll, CopySome, BlockReader
    <3>3. CASE ~SemWaitCall /\ ~ReadCall
      BY <1>3, <2>3, <3>3
         DEF SystemCall, SemInitCall, SemSignalCall, SemDestroyCall, ForkCall, CloneCall,
             ExitCall, sys_sem_init, sys_sem_signal, sys_sem_destroy, sys_fork, sys_clone,
             sys_exit, Fail, DestroySem, NewTask, ForkOutOfMemory
    <3> QED
      BY <3>1, <3>2, <3>3
  <2> QED
    BY <2>2, <2>3
<1>4. CASE Continuation
  <2>1. current # idle_task
    BY <1>4, Running DEF Continuation, SemWaitRest, ReadRest, ExitRest, SemWaitResume,
                         ReadLoopResume, ReadReturn, ExitSem, ExitRelease
  <2>2. CASE left_ticks' = left_ticks
    BY <2>1, <2>2, QuantumKept
  <2>3. CASE left_ticks' # left_ticks
    <3>1. CASE SemWaitRest \/ ReadRest
      BY <2>3, <3>1, QuantumSwitched
         DEF SemWaitRest, SemWaitResume, ReadRest, ReadLoopResume, ReadReturn, ReadLoop,
             CopyAll, CopySome, BlockReader
    <3>2. CASE ExitRest
      BY <2>3, <3>2, QuantumSwitched DEF ExitRest, ExitSem, ExitRelease, DestroySem
    <3> QED
      BY <1>4, <3>1, <3>2 DEF Continuation
  <2> QED
    BY <2>2, <2>3
<1>5. CASE UNCHANGED vars
  BY <1>5 DEF vars, QuantumInRange, list_empty
<1> QED
  BY <1>1, <1>2, <1>3, <1>4, <1>5 DEF Next

LEMMA QuantumInit == Init => QuantumInRange
BY SchedAssumption DEF Init, SchedInit, QuantumInRange

\* The unsigned left_ticks wraps only in the idle loop with nobody ready, and
\* every process is dispatched with a quantum (needs_sched_rr, sched_next_rr).
THEOREM QuantumStaysInRange == Spec => []QuantumInRange
BY Invariance, QuantumInit, QuantumStep, PTL DEF Spec
----------------------------------------------------------------------------
(* The semdestroyed flags.                                                 *)

\* A task that is woken or was ready stays so until it has the CPU.
ReadyGoOn ==
    \A t \in Range(queue[readyqueue]) : t = current' \/ t \in Range(queue'[readyqueue])

\* A handler that leaves the flags alone: its own task has none up.
LEMMA FlagsKept ==
    ASSUME DestroyedIsPending, kont[current] \notin {"semwait", "dead"},
           semdestroyed' = semdestroyed,
           \A t \in Task \ {current} : kont'[t] = kont[t],
           ReadyGoOn
    PROVE  DestroyedIsPending'
<1>1. ASSUME NEW t \in Task, semdestroyed[t], t # current, kont[t] # "dead"
      PROVE  /\ kont'[t] = "semwait"
             /\ t = current' \/ t \in Range(queue'[readyqueue])
  BY <1>1 DEF DestroyedIsPending, Linked, ReadyGoOn
<1>2. ~semdestroyed[current] \/ current \notin Task
  BY DEF DestroyedIsPending
<1> QED
  BY <1>1, <1>2 DEF DestroyedIsPending, Linked

\* A handler that switches after it has queued the running task.
LEMMA FlagsSwitched ==
    ASSUME IInv, DestroyedIsPending, kont[current] \notin {"semwait", "dead"},
           semdestroyed' = semdestroyed,
           \A t \in Task \ {current} : kont'[t] = kont[t],
           NEW q, NEW st, NEW left, ListsOK(q), sched_next_rr(q, st, left),
           \A t \in Range(queue[readyqueue]) : t \in Range(q[readyqueue])
    PROVE  DestroyedIsPending'
<1>1. ReadyGoOn
  BY SwitchEffect DEF ReadyGoOn
<1> QED
  BY <1>1, FlagsKept

LEMMA FlagsDestroy ==
    ASSUME IInv, DestroyedIsPending, NEW n \in Sem, DestroySem(n), kont' = kont
    PROVE  DestroyedIsPending'
<1>1. /\ \A t \in Range(queue[n]) : kont[t] = "semwait"
      /\ current' = current
      /\ Range(queue'[readyqueue]) = Range(queue[readyqueue]) \cup Range(queue[n])
  BY Splice DEF IInv, Between, OffReady, DestroySem
<1>2. \A t \in Task : semdestroyed'[t] = IF t \in Range(queue[n]) THEN TRUE
                                                              ELSE semdestroyed[t]
  BY DEF DestroySem, Waiters
<1>3. ASSUME NEW t \in Task, t \in Range(queue[n])
      PROVE  kont'[t] = "semwait" /\ t \in Range(queue'[readyqueue])
  BY <1>1, <1>3
<1>4. ASSUME NEW t \in Task, semdestroyed[t], kont[t] # "dead"
      PROVE  /\ kont'[t] = "semwait"
             /\ t = current' \/ t \in Range(queue'[readyqueue])
  BY <1>1, <1>4 DEF DestroyedIsPending, Linked
<1>5. ASSUME NEW t \in Task, semdestroyed'[t], kont'[t] # "dead"
      PROVE  /\ kont'[t] = "semwait"
             /\ t = current' \/ t \in Range(queue'[readyqueue])
  <2>1. t \in Range(queue[n]) \/ semdestroyed[t]
    BY <1>2, <1>5
  <2> QED
    BY <2>1, <1>3, <1>4, <1>5
<1> QED
  BY <1>5 DEF DestroyedIsPending, Linked

LEMMA FlagsNewTask ==
    ASSUME IInv, DestroyedIsPending, kont[current] = "user",
           queue[freequeue] # <<>>, NewTask(Head(queue[freequeue]))
    PROVE  DestroyedIsPending'
<1> DEFINE h == Head(queue[freequeue])
<1>1. /\ h \in Task /\ kont[h] = "dead" /\ current \in Task /\ current' = current
      /\ semdestroyed' = [semdestroyed EXCEPT ![h] = semdestroyed[current]]
      /\ kont' = [kont EXCEPT ![h] = "user"]
      /\ semdestroyed \in [Task -> BOOLEAN]
      /\ kont \in [Task -> Kont]
  BY FreeHead, Running DEF NewTask, IInv, DataOK
<1>2. \A t \in Range(queue[readyqueue]) : t \in Range(queue'[readyqueue])
  <2> DEFINE p == list_del(queue, freequeue)
  <2>1. queue' = list_add_tail(p, readyqueue, h)
    BY DEF NewTask
  <2>2. ListsOK(p) /\ OnNoList(p, h) /\ p[readyqueue] = queue[readyqueue]
    BY FreeHead, QueueHeads
  <2>3. h \in Task /\ readyqueue \in Queue
    BY <1>1, QueueHeads
  <2> HIDE DEF p, h
  <2>4. Range(list_add_tail(p, readyqueue, h)[readyqueue])
           = Range(p[readyqueue]) \cup {h}
    BY <2>2, <2>3, AddTail
  <2> QED
    BY <2>1, <2>2, <2>4
<1> HIDE DEF h
<1>3. ~semdestroyed[current]
  BY <1>1 DEF DestroyedIsPending
<1>4. ASSUME NEW t \in Task, semdestroyed'[t]
      PROVE  t # h /\ semdestroyed[t] /\ kont'[t] = kont[t]
  <2>1. t # h
    BY <1>1, <1>3, <1>4
  <2> QED
    BY <1>1, <1>4, <2>1
<1> QED
  BY <1>1, <1>2, <1>4 DEF DestroyedIsPending, Linked

LEMMA FlagsOutOfMemory ==
    ASSUME IInv, DestroyedIsPending, queue[freequeue] # <<>>,
           ForkOutOfMemory(Head(queue[freequeue]))
    PROVE  DestroyedIsPending'
<1> DEFINE h == Head(queue[freequeue])
<1>1. /\ h \in Task /\ kont[h] = "dead" /\ current' = current /\ kont' = kont
      /\ semdestroyed' = [semdestroyed EXCEPT ![h] = semdestroyed[current]]
      /\ semdestroyed \in [Task -> BOOLEAN]
      /\ queue'[readyqueue] = queue[readyqueue]
  BY FreeHead, QueueHeads DEF ForkOutOfMemory, IInv, DataOK
<1> HIDE DEF h
<1>2. ASSUME NEW t \in Task, t # h PROVE semdestroyed'[t] = semdestroyed[t]
  BY <1>1, <1>2
<1> QED
  BY <1>1, <1>2 DEF DestroyedIsPending, Linked

LEMMA FlagsQueued ==
    ASSUME IInv, DestroyedIsPending, kont[current] \notin {"semwait", "dead"},
           semdestroyed' = semdestroyed,
           \A t \in Task \ {current} : kont'[t] = kont[t],
           NEW dst \in Queue, NEW st, NEW left, NEW r,
           r = list_add_tail(queue, dst, current) \/ r = list_add(queue, dst, current),
           sched_next_rr(r, st, left)
    PROVE  DestroyedIsPending'
<1>1. ListsOK(r) /\ \A t \in Range(queue[readyqueue]) : t \in Range(r[readyqueue])
  BY QueuedLists
<1> QED
  BY <1>1, FlagsSwitched

\* A handler that neither touches the lists nor gives up the CPU.
LEMMA FlagsUntouched ==
    ASSUME DestroyedIsPending, kont[current] \notin {"semwait", "dead"},
           semdestroyed' = semdestroyed,
           \A t \in Task \ {current} : kont'[t] = kont[t],
           queue'[readyqueue] = queue[readyqueue]
    PROVE  DestroyedIsPending'
BY FlagsKept DEF ReadyGoOn

LEMMA FlagsClock ==
    ASSUME IInv, DestroyedIsPending, Clock PROVE DestroyedIsPending'
<1>1. /\ kont[current] = "user" /\ kont' = kont /\ semdestroyed' = semdestroyed
      /\ ListsOK(queue)
  BY Running DEF Clock, clk_routine, InterruptsOn, taskVars
<1>2. PICK left : left = update_sched_data_rr
  OBVIOUS
<1>3. CASE queue' = queue
  BY <1>1, <1>3, FlagsUntouched
<1>4. CASE sched_next_rr(list_add_tail(queue, readyqueue, current),
                         [state EXCEPT ![current] = QueuedState(readyqueue)], left)
  BY <1>1, <1>4, FlagsQueued, QueueHeads
<1>5. CASE sched_next_rr(queue, state, left)
  BY <1>1, <1>5, FlagsSwitched
<1> QED
  BY <1>2, <1>3, <1>4, <1>5, EnqueueRunning DEF Clock, clk_routine

LEMMA FlagsKeyboard ==
    ASSUME IInv, DestroyedIsPending, Keyboard PROVE DestroyedIsPending'
<1> DEFINE h == Head(queue[keyboardqueue])
           r == list_add_tail(list_add(list_del(queue, keyboardqueue), readyqueue, h),
                              readyqueue, current)
<1>1. /\ kont[current] = "user" /\ kont' = kont /\ semdestroyed' = semdestroyed
      /\ queue[keyboardqueue] # <<>>
  BY DEF Keyboard, keyboard_routine, InterruptsOn, taskVars, list_empty
<1>2. CASE UNCHANGED schedVars
  BY <1>1, <1>2, FlagsUntouched DEF schedVars
<1>3. ASSUME ~UNCHANGED schedVars
      PROVE  \E st, left : sched_next_rr(r, st, left)
  BY <1>3, EnqueueRunning DEF Keyboard, keyboard_routine, list_first
<1>4. ListsOK(r) /\ \A t \in Range(queue[readyqueue]) : t \in Range(r[readyqueue])
  BY <1>1, WokenLists
<1> HIDE DEF r
<1>5. CASE ~UNCHANGED schedVars
  BY <1>1, <1>3, <1>4, <1>5, FlagsSwitched
<1> QED
  BY <1>2, <1>5

LEMMA FlagsSemWait ==
    ASSUME IInv, DestroyedIsPending, SemWaitCall PROVE DestroyedIsPending'
<1>1. PICK n \in SemArg : sys_sem_wait(n)
  BY DEF SemWaitCall
<1>2. kont[current] = "user" /\ current \in Task /\ kont \in [Task -> Kont]
  BY <1>1, Running DEF sys_sem_wait, InUserCode
<1>3. CASE Fail(EINVAL)
  BY <1>2, <1>3, FlagsUntouched DEF Fail, schedVars, taskVars
<1>4. CASE /\ SemInUse(n)
           /\ kont' = [kont EXCEPT ![current] = "semwait"]
           /\ sched_next_rr(list_add_tail(queue, n, current),
                            [state EXCEPT ![current] = ST_BLOCKED], left_ticks)
           /\ UNCHANGED semdestroyed
  <2>1. n \in Queue
    BY <1>4, QueueHeads DEF SemInUse
  <2> QED
    BY <1>2, <1>4, <2>1, FlagsQueued
<1>5. CASE SemWaitTail(current) /\ UNCHANGED <<schedVars, kont>>
  <2>1. ~semdestroyed[current] /\ semdestroyed \in [Task -> BOOLEAN]
    BY <1>2 DEF DestroyedIsPending, IInv, DataOK
  <2>2. semdestroyed' = semdestroyed
    BY <1>5, <2>1 DEF SemWaitTail
  <2> QED
    BY <1>2, <1>5, <2>2, FlagsUntouched DEF schedVars
<1> QED
  BY <1>1, <1>3, <1>4, <1>5 DEF sys_sem_wait

LEMMA FlagsSemWaitRest ==
    ASSUME IInv, DestroyedIsPending, SemWaitRest PROVE DestroyedIsPending'
<1>1. /\ kont' = [kont EXCEPT ![current] = "user"]
      /\ semdestroyed' = [semdestroyed EXCEPT ![current] = FALSE]
      /\ UNCHANGED <<queue, current>>
      /\ kont \in [Task -> Kont] /\ semdestroyed \in [Task -> BOOLEAN]
  BY DEF SemWaitRest, SemWaitResume, SemWaitTail, schedVars, IInv, DataOK, Between
<1> QED
  BY <1>1 DEF DestroyedIsPending, Linked

LEMMA FlagsSemSignal ==
    ASSUME IInv, DestroyedIsPending, SemSignalCall PROVE DestroyedIsPending'
<1>1. PICK n \in SemArg : sys_sem_signal(n)
  BY DEF SemSignalCall
<1>2. kont[current] = "user" /\ UNCHANGED <<kont, semdestroyed, current>>
  BY <1>1 DEF sys_sem_signal, InUserCode, Fail, taskVars, schedVars
<1>3. CASE UNCHANGED queue
  BY <1>2, <1>3, FlagsUntouched
<1>4. CASE /\ SemInUse(n)
           /\ ~list_empty(queue, n)
           /\ queue' = list_add_tail(list_del(queue, n), readyqueue, list_first(queue, n))
  <2> DEFINE p == list_del(queue, n)
             h == Head(queue[n])
  <2>1. n \in Queue /\ n # readyqueue /\ readyqueue \in Queue
        /\ ListsOK(queue) /\ queue[n] # <<>>
    BY <1>4, Running, QueueHeads DEF SemInUse, list_empty
  <2>2. ListsOK(p) /\ OnNoList(p, h) /\ h \in Task /\ p[readyqueue] = queue[readyqueue]
    BY <2>1, DelFirst
  <2>3. queue' = list_add_tail(p, readyqueue, h)
    BY <1>4 DEF list_first
  <2> HIDE DEF p, h
  <2>4. Range(list_add_tail(p, readyqueue, h)[readyqueue])
           = Range(p[readyqueue]) \cup {h}
    BY <2>1, <2>2, AddTail
  <2>5. ReadyGoOn
    BY <2>2, <2>3, <2>4 DEF ReadyGoOn
  <2> QED
    BY <1>2, <2>5, FlagsKept
<1> QED
  BY <1>1, <1>3, <1>4 DEF sys_sem_signal, Fail, schedVars

LEMMA FlagsSemDestroy ==
    ASSUME IInv, DestroyedIsPending, SemDestroyCall PROVE DestroyedIsPending'
<1>1. PICK n \in SemArg : sys_sem_destroy(n)
  BY DEF SemDestroyCall
<1>2. CASE Fail(EINVAL) \/ Fail(EPERM)
  BY <1>1, <1>2, FlagsUntouched DEF sys_sem_destroy, InUserCode, Fail, schedVars, taskVars
<1>3. CASE n \in Sem /\ DestroySem(n) /\ UNCHANGED kont
  BY <1>3, FlagsDestroy
<1> QED
  BY <1>1, <1>2, <1>3 DEF sys_sem_destroy, SemInUse

LEMMA FlagsReadLoop ==
    ASSUME IInv, DestroyedIsPending, kont[current] \notin {"semwait", "dead"},
           NEW i, NEW count, ReadLoop(current, i, count), UNCHANGED semdestroyed
    PROVE  DestroyedIsPending'
<1>1. current \in Task /\ kont \in [Task -> Kont]
  BY Running
<1>2. CASE CopyAll(current, i, count)
  BY <1>1, <1>2, FlagsUntouched DEF CopyAll, schedVars
<1>3. CASE BlockReader(current, count)
  BY <1>1, <1>3, FlagsQueued, QueueHeads DEF BlockReader
<1> QED
  BY <1>2, <1>3 DEF ReadLoop, CopySome

LEMMA FlagsRead ==
    ASSUME IInv, DestroyedIsPending, ReadCall PROVE DestroyedIsPending'
<1>1. PICK fd \in {0, 1}, buffer \in ReadBuffer, count \in {-1} \cup ReadCounts :
           sys_read(fd, buffer, count)
  BY DEF ReadCall
<1>2. /\ kont[current] = "user" /\ semdestroyed' = semdestroyed
      /\ current \in Task /\ kont \in [Task -> Kont]
  BY <1>1, Running DEF sys_read, InUserCode
<1>3. CASE UNCHANGED <<schedVars, kont>>
  BY <1>2, <1>3, FlagsUntouched DEF schedVars
<1>4. CASE /\ kont' = [kont EXCEPT ![current] = "readret"]
           /\ sched_next_rr(Enqueue(queue, current, keyboardqueue),
                            [state EXCEPT ![current] = QueuedState(keyboardqueue)],
                            left_ticks)
  BY <1>2, <1>4, FlagsQueued, QueueHeads, EnqueueRunning
<1>5. CASE ReadLoop(current, 0, count)
  BY <1>2, <1>5, FlagsReadLoop
<1> QED
  BY <1>1, <1>3, <1>4, <1>5 DEF sys_read

LEMMA FlagsReadRest ==
    ASSUME IInv, DestroyedIsPending, ReadRest PROVE DestroyedIsPending'
<1>1. /\ kont[current] \in {"readloop", "readret"} /\ semdestroyed' = semdestroyed
      /\ kont \in [Task -> Kont]
  BY Running DEF ReadRest, ReadLoopResume, ReadReturn
<1>2. CASE ReadLoopResume
  BY <1>1, <1>2, FlagsReadLoop DEF ReadLoopResume
<1>3. CASE ReadReturn
  BY <1>1, <1>3, FlagsUntouched DEF ReadReturn, schedVars
<1> QED
  BY <1>2, <1>3 DEF ReadRest

LEMMA FlagsFork ==
    ASSUME IInv, DestroyedIsPending, ForkCall \/ CloneCall PROVE DestroyedIsPending'
<1>1. kont[current] = "user"
  BY DEF ForkCall, CloneCall, sys_fork, sys_clone, InUserCode
<1>2. \/ Fail(EAGAIN) \/ Fail(EINVAL)
      \/ /\ queue[freequeue] # <<>>
         /\ \/ NewTask(Head(queue[freequeue]))
            \/ AllocMayFail /\ ForkOutOfMemory(Head(queue[freequeue]))
  BY DEF ForkCall, CloneCall, sys_fork, sys_clone, list_empty, list_first
<1>3. CASE Fail(EAGAIN) \/ Fail(EINVAL)
  BY <1>1, <1>3, FlagsUntouched DEF Fail, schedVars, taskVars
<1> QED
  BY <1>1, <1>2, <1>3, FlagsNewTask, FlagsOutOfMemory

LEMMA FlagsExit ==
    ASSUME IInv, DestroyedIsPending, ExitCall \/ ExitRest PROVE DestroyedIsPending'
<1>1. current \in Task /\ kont \in [Task -> Kont]
  BY Running
<1>2. CASE ExitCall
  BY <1>1, <1>2, FlagsUntouched DEF ExitCall, sys_exit, InUserCode, schedVars
<1>3. CASE ExitSem
  <2>1. /\ kont[current] = "exit" /\ kont' = kont /\ exit_i \in Sem
    BY <1>3, SchedAssumption DEF ExitSem, IInv, DataOK, Sem
  <2>2. CASE UNCHANGED <<schedVars, semdestroyed>>
    BY <2>1, <2>2, FlagsUntouched DEF schedVars
  <2>3. CASE DestroySem(exit_i)
    BY <2>1, <2>3, FlagsDestroy
  <2> QED
    BY <1>3, <2>2, <2>3 DEF ExitSem
<1>4. CASE ExitRelease
  BY <1>1, <1>4, FlagsQueued, QueueHeads DEF ExitRelease
<1> QED
  BY <1>2, <1>3, <1>4 DEF ExitRest

LEMMA FlagsStep ==
    ASSUME IInv, DestroyedIsPending, [Next]_vars PROVE DestroyedIsPending'
<1>1. CASE SemInitCall
  <2>1. PICK n \in SemArg, value \in SemValues : sys_sem_init(n, value)
    BY <1>1 DEF SemInitCall
  <2>2. /\ kont[current] = "user" /\ UNCHANGED <<kont, semdestroyed>>
        /\ queue'[readyqueue] = queue[readyqueue]
    BY <2>1, Running, QueueHeads
       DEF sys_sem_init, InUserCode, Fail, schedVars, taskVars, ListsOK
  <2> QED
    BY <2>2, FlagsUntouched
<1>2. CASE SystemCall /\ ~SemInitCall
  BY <1>2, FlagsSemWait, FlagsSemSignal, FlagsSemDestroy, FlagsRead, FlagsFork, FlagsExit
     DEF SystemCall
<1>3. CASE Continuation
  BY <1>3, FlagsSemWaitRest, FlagsReadRest, FlagsExit DEF Continuation
<1>4. CASE Clock \/ Keyboard
  BY <1>4, FlagsClock, FlagsKeyboard
<1>5. CASE UNCHANGED vars
  BY <1>5 DEF vars, schedVars, taskVars, DestroyedIsPending, Linked
<1> QED
  BY <1>1, <1>2, <1>3, <1>4, <1>5 DEF Next

LEMMA FlagsInit == Init => DestroyedIsPending
BY DEF Init, SchedInit, DestroyedIsPending

\* The flag that sys_sem_destroy raises is seen by the sys_sem_wait it
\* interrupts and by no other, although fork copies it with the PCB.
THEOREM FlagsArePending == Spec => []DestroyedIsPending
BY Invariance, FlagsInit, FlagsStep, PTL DEF Spec
----------------------------------------------------------------------------
(* PIDs and the owners of semaphores.                                      *)

\* The loop of sys_exit gives up the CPU only when it is done.
ExitRuns == \A t \in Task : kont[t] = "exit" => t = current

PidInv == UniquePids /\ OwnerAlive /\ ExitRuns

\* A step after which the same tasks are alive, under the same PIDs, and none
\* is in the loop of sys_exit.
CallGoesOn ==
    /\ UNCHANGED <<PID, global_PID>>
    /\ kont[current] \notin {"dead", "exit"}
    /\ \E k \in Kont \ {"dead", "exit"} : kont' = [kont EXCEPT ![current] = k]

\* One semaphore at most changes hands: to the running task, or to nobody.
OwnersChange ==
    \/ owner_pid' = owner_pid
    \/ \E n \in Sem, p \in {PID[current], -1} :
          owner_pid' = [owner_pid EXCEPT ![n] = p]

ForkTakes(h) ==
    /\ kont[current] = "user"
    /\ NewTask(h) \/ (AllocMayFail /\ ForkOutOfMemory(h))
    /\ UNCHANGED owner_pid

LEMMA GoesOnKinds ==
    ASSUME IInv, UNCHANGED <<PID, global_PID>>, kont[current] \notin {"dead", "exit"},
           \/ kont' = kont
           \/ \E k \in {"user", "semwait", "readloop", "readret"} :
                 kont' = [kont EXCEPT ![current] = k]
    PROVE  CallGoesOn
<1>1. kont \in [Task -> Kont] /\ current \in Task
  BY Running
<1>2. CASE kont' = kont
  <2>1. kont' = [kont EXCEPT ![current] = kont[current]]
    BY <1>1, <1>2
  <2> QED
    BY <1>1, <2>1 DEF CallGoesOn
<1>3. CASE \E k \in {"user", "semwait", "readloop", "readret"} :
              kont' = [kont EXCEPT ![current] = k]
  BY <1>3 DEF CallGoesOn, Kont
<1> QED
  BY <1>2, <1>3

LEMMA SemCallKinds ==
    ASSUME IInv, SemInitCall \/ SemWaitCall \/ SemSignalCall \/ SemDestroyCall
    PROVE  CallGoesOn /\ OwnersChange
<1>1. CASE SemInitCall
  <2>1. kont[current] = "user" /\ UNCHANGED <<PID, global_PID, kont>>
    BY <1>1 DEF SemInitCall, sys_sem_init, Fail, taskVars, procVars, InUserCode
  <2>2. OwnersChange
    BY <1>1 DEF SemInitCall, sys_sem_init, Fail, semVars, OwnersChange
  <2> QED
    BY <2>1, <2>2, GoesOnKinds
<1>2. CASE SemWaitCall
  <2>1. PICK n \in SemArg : sys_sem_wait(n)
    BY <1>2 DEF SemWaitCall
  <2>2. kont[current] = "user" /\ UNCHANGED <<PID, global_PID, owner_pid>>
    BY <1>2, <2>1
       DEF SemWaitCall, sys_sem_wait, Fail, taskVars, semVars, procVars, InUserCode
  <2>3. kont' = kont \/ kont' = [kont EXCEPT ![current] = "semwait"]
    BY <2>1 DEF sys_sem_wait, Fail, taskVars
  <2> QED
    BY <2>2, <2>3, GoesOnKinds DEF OwnersChange
<1>3. CASE SemSignalCall
  <2>1. kont[current] = "user" /\ UNCHANGED <<PID, global_PID, kont, owner_pid>>
    BY <1>3 DEF SemSignalCall, sys_sem_signal, Fail, taskVars, semVars, procVars, InUserCode
  <2> QED
    BY <2>1, GoesOnKinds DEF OwnersChange
<1>4. CASE SemDestroyCall
  <2>1. kont[current] = "user" /\ UNCHANGED <<PID, global_PID, kont>>
    BY <1>4 DEF SemDestroyCall, sys_sem_destroy, DestroySem, Fail, taskVars, procVars,
                InUserCode
  <2>2. OwnersChange
    BY <1>4 DEF SemDestroyCall, sys_sem_destroy, DestroySem, SemInUse, Fail, semVars,
                OwnersChange
  <2> QED
    BY <2>1, <2>2, GoesOnKinds
<1> QED
  BY <1>1, <1>2, <1>3, <1>4

LEMMA ReadKinds ==
    ASSUME IInv, ReadCall \/ ReadRest \/ SemWaitRest
    PROVE  CallGoesOn /\ OwnersChange
<1>1. CASE ReadCall
  <2>1. PICK fd \in {0, 1}, buffer \in ReadBuffer, count \in {-1} \cup ReadCounts :
             sys_read(fd, buffer, count)
    BY <1>1 DEF ReadCall
  <2>2. kont[current] = "user" /\ UNCHANGED <<PID, global_PID, owner_pid>>
    BY <1>1, <2>1 DEF ReadCall, sys_read, semVars, procVars, InUserCode
  <2>3. \/ kont' = kont
        \/ \E k \in {"user", "readloop", "readret"} : kont' = [kont EXCEPT ![current] = k]
    BY <2>1 DEF sys_read, ReadLoop, CopyAll, CopySome, BlockReader
  <2> QED
    BY <2>2, <2>3, GoesOnKinds DEF OwnersChange
<1>2. CASE ReadRest
  <2>1. /\ kont[current] \in {"readloop", "readret"}
        /\ UNCHANGED <<PID, global_PID, owner_pid>>
    BY <1>2 DEF ReadRest, ReadLoopResume, ReadReturn, semVars, procVars
  <2>2. \E k \in {"user", "readloop"} : kont' = [kont EXCEPT ![current] = k]
    BY <1>2 DEF ReadRest, ReadLoopResume, ReadReturn, ReadLoop, CopyAll, CopySome,
                BlockReader
  <2> QED
    BY <2>1, <2>2, GoesOnKinds DEF OwnersChange
<1>3. CASE SemWaitRest
  <2>1. /\ kont[current] = "semwait" /\ kont' = [kont EXCEPT ![current] = "user"]
        /\ UNCHANGED <<PID, global_PID, owner_pid>>
    BY <1>3 DEF SemWaitRest, SemWaitResume, semVars, procVars
  <2> QED
    BY <2>1, GoesOnKinds DEF OwnersChange
<1> QED
  BY <1>1, <1>2, <1>3

LEMMA ForkKinds ==
    ASSUME IInv, ForkCall \/ CloneCall
    PROVE  \/ CallGoesOn /\ OwnersChange
           \/ queue[freequeue] # <<>> /\ ForkTakes(Head(queue[freequeue]))
<1>1. kont[current] = "user"
  BY DEF ForkCall, CloneCall, sys_fork, sys_clone, InUserCode
<1>2. owner_pid' = owner_pid
  BY DEF ForkCall, CloneCall, sys_fork, sys_clone, semVars
<1>3. \/ UNCHANGED <<PID, global_PID, kont>>
      \/ /\ queue[freequeue] # <<>>
         /\ \/ NewTask(Head(queue[freequeue]))
            \/ AllocMayFail /\ ForkOutOfMemory(Head(queue[freequeue]))
  BY DEF ForkCall, CloneCall, sys_fork, sys_clone, Fail, taskVars, list_empty, list_first
<1>4. CASE UNCHANGED <<PID, global_PID, kont>>
  BY <1>1, <1>2, <1>4, GoesOnKinds DEF OwnersChange
<1> QED
  BY <1>1, <1>2, <1>3, <1>4 DEF ForkTakes

\* Every step is of one of these kinds.
LEMMA StepKinds ==
    ASSUME IInv, [Next]_vars
    PROVE  \/ CallGoesOn /\ OwnersChange
           \/ queue[freequeue] # <<>> /\ ForkTakes(Head(queue[freequeue]))
           \/ ExitCall \/ ExitSem \/ ExitRelease
           \/ UNCHANGED vars
<1>1. CASE Clock \/ Keyboard
  <2>1. kont[current] = "user" /\ UNCHANGED <<PID, kont, global_PID, owner_pid>>
    BY <1>1 DEF Clock, clk_routine, Keyboard, keyboard_routine, InterruptsOn, taskVars,
                semVars, procVars
  <2> QED
    BY <2>1, GoesOnKinds DEF OwnersChange
<1>2. CASE SystemCall
  BY <1>2, SemCallKinds, ReadKinds, ForkKinds DEF SystemCall
<1>3. CASE Continuation
  BY <1>3, ReadKinds DEF Continuation, ExitRest
<1> QED
  BY <1>1, <1>2, <1>3 DEF Next

LEMMA PidsGoOn ==
    ASSUME IInv, PidInv, [Next]_vars, CallGoesOn, OwnersChange PROVE PidInv'
<1>1. /\ kont \in [Task -> Kont] /\ current \in Task /\ current \in Live
      /\ owner_pid \in [Sem -> Int]
      /\ UNCHANGED <<PID, global_PID>>
  BY Running DEF CallGoesOn, Live, IInv, DataOK
<1>2. ASSUME NEW t \in Task
      PROVE  /\ kont'[t] = "dead" <=> kont[t] = "dead"
             /\ kont'[t] # "exit"
  BY <1>1 DEF CallGoesOn, PidInv, ExitRuns
<1>3. Live' = Live
  BY <1>2 DEF Live
<1>4. UniquePids'
  BY <1>1, <1>3 DEF PidInv, UniquePids
<1>5. ASSUME NEW n \in Sem, owner_pid'[n] # -1
      PROVE  \E t \in Live : PID[t] = owner_pid'[n]
  <2>1. owner_pid'[n] = owner_pid[n] \/ owner_pid'[n] = PID[current]
    BY <1>1, <1>5 DEF OwnersChange
  <2> QED
    BY <1>1, <1>5, <2>1 DEF PidInv, OwnerAlive
<1>6. kont'[current'] # "exit" \/ current' \notin Task
  BY <1>2
<1>7. current' \in Task
  BY NextIInv DEF IInv, Between, CpuOK
<1>8. ExitRuns'
  BY <1>2 DEF ExitRuns
<1>9. OwnerAlive'
  BY <1>1, <1>3, <1>5, <1>6, <1>7 DEF OwnerAlive
<1> QED
  BY <1>4, <1>8, <1>9 DEF PidInv

\* The new task gets a PID that nobody has; the parent's goes on.
LEMMA PidsFork ==
    ASSUME IInv, PidInv, queue[freequeue] # <<>>, ForkTakes(Head(queue[freequeue]))
    PROVE  PidInv'
<1> DEFINE h == Head(queue[freequeue])
<1>1. /\ h \in Task /\ kont[h] = "dead" /\ h # current /\ current \in Task
      /\ kont \in [Task -> Kont] /\ PID \in [Task -> Int] /\ global_PID \in Nat
      /\ owner_pid' = owner_pid /\ current' = current /\ kont[current] = "user"
  BY FreeHead, Running DEF ForkTakes, NewTask, ForkOutOfMemory, IInv, DataOK
<1>2. \/ /\ PID' = [PID EXCEPT ![h] = global_PID]
         /\ global_PID' = global_PID + 1
         /\ kont' = [kont EXCEPT ![h] = "user"]
      \/ /\ PID' = [PID EXCEPT ![h] = PID[current]]
         /\ UNCHANGED <<global_PID, kont>>
  BY DEF ForkTakes, NewTask, ForkOutOfMemory
<1> HIDE DEF h
<1>3. h \notin Live
  BY <1>1 DEF Live
<1>4. ASSUME NEW t \in Task, kont'[t] = "exit" PROVE FALSE
  BY <1>1, <1>2, <1>4 DEF PidInv, ExitRuns
<1>5. ASSUME NEW t \in Live PROVE t \in Task /\ PID'[t] = PID[t] /\ t \in Live'
  <2>1. t # h /\ t \in Task
    BY <1>3 DEF Live
  <2>2. PID'[t] = PID[t] /\ kont'[t] = kont[t]
    BY <1>1, <1>2, <2>1
  <2> QED
    BY <2>1, <2>2 DEF Live
<1>6. UniquePids'
  <2>1. ASSUME NEW t \in Live' PROVE t \in Live \/ (t = h /\ PID'[h] = global_PID)
    BY <1>1, <1>2 DEF Live
  <2>2. global_PID' = global_PID \/ global_PID' = global_PID + 1
    BY <1>2
  <2>3. (\E t \in Live' : t = h) => global_PID' = global_PID + 1
    BY <1>1, <1>2 DEF Live
  <2>4. ASSUME NEW t \in Live' PROVE PID'[t] >= 0 /\ PID'[t] < global_PID'
    <3>1. CASE t \in Live
      <4>1. PID[t] \in Int /\ PID[t] >= 0 /\ PID[t] < global_PID
        BY <1>1, <3>1 DEF PidInv, UniquePids, Live
      <4> QED
        BY <1>1, <1>5, <2>2, <3>1, <4>1
    <3>2. CASE t \notin Live
      BY <1>1, <2>1, <2>3, <3>2
    <3> QED
      BY <3>1, <3>2
  <2>5. ASSUME NEW t \in Live', NEW u \in Live', PID'[t] = PID'[u] PROVE t = u
    <3>1. \A x \in Live : PID'[x] # global_PID
      BY <1>1, <1>5 DEF PidInv, UniquePids
    <3> QED
      BY <1>5, <2>1, <2>5, <3>1 DEF PidInv, UniquePids
  <2> QED
    BY <2>4, <2>5 DEF UniquePids
<1>7. OwnerAlive'
  <2>1. ASSUME NEW n \in Sem, owner_pid'[n] # -1
        PROVE  \E t \in Live' : PID'[t] = owner_pid'[n]
    BY <1>1, <1>5, <2>1 DEF PidInv, OwnerAlive
  <2>2. kont'[current'] # "exit"
    BY <1>1, <1>4
  <2> QED
    BY <2>1, <2>2 DEF OwnerAlive
<1> QED
  BY <1>4, <1>6, <1>7 DEF PidInv, ExitRuns

LEMMA PidsExit == ASSUME IInv, PidInv, ExitCall PROVE PidInv'
<1>1. /\ kont \in [Task -> Kont] /\ current \in Task /\ kont[current] = "user"
      /\ kont' = [kont EXCEPT ![current] = "exit"] /\ exit_i' = 0
      /\ UNCHANGED <<PID, global_PID, owner_pid, current>>
  BY Running DEF ExitCall, sys_exit, InUserCode, schedVars, semVars
<1>2. Live' = Live
  BY <1>1 DEF Live
<1>3. UniquePids'
  BY <1>1, <1>2 DEF PidInv, UniquePids
<1>4. \A n \in Sem : ~(n < exit_i')
  BY <1>1, SchedAssumption DEF Sem
<1>5. OwnerAlive'
  BY <1>1, <1>2, <1>4 DEF PidInv, OwnerAlive
<1>6. ExitRuns'
  BY <1>1 DEF PidInv, ExitRuns
<1> QED
  BY <1>3, <1>5, <1>6 DEF PidInv

\* A round of the loop in sys_exit: one more semaphore is not the process's.
LEMMA PidsExitSem == ASSUME IInv, PidInv, ExitSem PROVE PidInv'
<1>1. /\ current \in Task /\ kont[current] = "exit" /\ current \in Live
      /\ exit_i \in Sem /\ exit_i' = exit_i + 1
      /\ UNCHANGED <<PID, global_PID, kont, current>>
      /\ owner_pid \in [Sem -> Int] /\ PID[current] \in Int
  <2>1. kont[current] = "exit" /\ exit_i < NumSem /\ exit_i' = exit_i + 1
        /\ UNCHANGED <<PID, global_PID, kont, current>>
    BY DEF ExitSem, DestroySem, schedVars
  <2>2. exit_i \in Sem
    BY <2>1, SchedAssumption DEF IInv, DataOK, Sem
  <2>3. current \in Task /\ current \in Live
    BY Running DEF Live
  <2> QED
    BY <2>1, <2>2, <2>3 DEF IInv, DataOK
<1>2. \/ owner_pid[exit_i] # PID[current] /\ owner_pid' = owner_pid
      \/ owner_pid' = [owner_pid EXCEPT ![exit_i] = -1]
  BY DEF ExitSem, DestroySem, semVars
<1>3. Live' = Live
  BY <1>1 DEF Live
<1>4. UniquePids' /\ ExitRuns'
  BY <1>1, <1>3 DEF PidInv, UniquePids, ExitRuns
<1>5. PID[current] >= 0
  BY <1>1 DEF PidInv, UniquePids
<1>6. ASSUME NEW n \in Sem, owner_pid'[n] # -1
      PROVE  \E t \in Live : PID[t] = owner_pid'[n]
  BY <1>1, <1>2, <1>6 DEF PidInv, OwnerAlive
<1>7. ASSUME NEW n \in Sem, n < exit_i' PROVE owner_pid'[n] # PID[current]
  <2>1. n < exit_i \/ n = exit_i
    BY <1>1, <1>7, SchedAssumption DEF Sem
  <2>2. n < exit_i => owner_pid[n] # PID[current]
    BY <1>1 DEF PidInv, OwnerAlive
  <2>3. owner_pid'[n] = owner_pid[n] \/ owner_pid'[n] = -1
    BY <1>1, <1>2
  <2>4. owner_pid'[exit_i] # PID[current]
    BY <1>1, <1>2, <1>5
  <2> QED
    BY <1>5, <2>1, <2>2, <2>3, <2>4
<1>8. OwnerAlive'
  BY <1>1, <1>3, <1>6, <1>7 DEF OwnerAlive
<1> QED
  BY <1>4, <1>8 DEF PidInv

\* The process that exits takes its PID with it: it owns nothing any more.
LEMMA PidsExitRelease ==
    ASSUME IInv, PidInv, [Next]_vars, ExitRelease PROVE PidInv'
<1>1. /\ kont \in [Task -> Kont] /\ current \in Task /\ kont[current] = "exit"
      /\ PID \in [Task -> Int] /\ owner_pid' = owner_pid /\ global_PID' = global_PID
      /\ PID' = [PID EXCEPT ![current] = -1]
      /\ kont' = [kont EXCEPT ![current] = "dead"]
      /\ exit_i = NumSem
  BY Running DEF ExitRelease, semVars, IInv, DataOK
<1>2. ASSUME NEW t \in Live'
      PROVE  t \in Live /\ t # current /\ PID'[t] = PID[t]
  BY <1>1 DEF Live
<1>3. UniquePids'
  BY <1>1, <1>2 DEF PidInv, UniquePids
<1>4. ASSUME NEW t \in Task, kont'[t] = "exit" PROVE FALSE
  BY <1>1, <1>4 DEF PidInv, ExitRuns
<1>5. ASSUME NEW n \in Sem, owner_pid'[n] # -1
      PROVE  \E t \in Live' : PID'[t] = owner_pid'[n]
  <2>1. owner_pid[n] # PID[current]
    BY <1>1, SchedAssumption DEF PidInv, OwnerAlive, Sem
  <2>2. PICK t \in Live : PID[t] = owner_pid[n]
    BY <1>1, <1>5 DEF PidInv, OwnerAlive
  <2>3. t # current /\ t \in Task
    BY <2>1, <2>2 DEF Live
  <2>4. kont'[t] = kont[t] /\ PID'[t] = PID[t]
    BY <1>1, <2>3
  <2>5. t \in Live'
    BY <2>2, <2>4 DEF Live
  <2> QED
    BY <1>1, <2>2, <2>4, <2>5
<1>6. current' \in Task
  BY NextIInv DEF IInv, Between, CpuOK
<1>7. OwnerAlive'
  BY <1>4, <1>5, <1>6 DEF OwnerAlive
<1> QED
  BY <1>3, <1>4, <1>7 DEF PidInv, ExitRuns

LEMMA PidsStep == ASSUME IInv, PidInv, [Next]_vars PROVE PidInv'
<1>1. CASE UNCHANGED vars
  BY <1>1 DEF vars, schedVars, taskVars, semVars, procVars, PidInv, UniquePids,
              OwnerAlive, ExitRuns, Live
<1> QED
  BY <1>1, StepKinds, PidsGoOn, PidsFork, PidsExit, PidsExitSem, PidsExitRelease

LEMMA PidsInit == Init => PidInv
BY SchedAssumption
   DEF Init, SchedInit, SemInit, ProcessInit, Sem, Task, task1, idle_task, PidInv,
       UniquePids, OwnerAlive, ExitRuns, Live

LEMMA PidInvariance == Spec => []PidInv
BY Invariance, PidsInit, PidsStep, PTL DEF Spec

\* global_PID++ in sys_fork and sys_clone never gives a PID twice, and exit
\* takes it off the PCB.
THEOREM PidsStayUnique == Spec => []UniquePids
BY PidInvariance, PTL DEF PidInv

\* sys_exit leaves no semaphore behind that only the dead process could destroy.
THEOREM OwnersAreAlive == Spec => []OwnerAlive
BY PidInvariance, PTL DEF PidInv
----------------------------------------------------------------------------
(* The readers of the keyboard: their characters do not interleave and     *)
(* they are woken at the right key, whatever the scheduler and the other   *)
(* system calls do in between.                                             *)

\* The reader in its loop lacks something, and waits for at least that much:
\* for more when it found characters in the buffer before it blocked, which
\* keyboard_readers_count does not know.
EnoughAwaited ==
    \A t \in Task : kont[t] = "readloop" =>
        /\ read_i[t] < read_count[t]
        /\ keyboard_readers_count[t] + (IF t = current THEN circbuffcounter ELSE 0)
              >= read_count[t] - read_i[t]

ReadersInv == OneReaderCopies /\ EnoughAwaited /\ WokenInTime

Reading == {"readloop", "readret"}

\* The counts that EnoughAwaited compares are integers.
LEMMA CountTypes ==
    ASSUME IInv
    PROVE  /\ keyboard_readers_count \in [Task -> Int]
           /\ read_count \in [Task -> Nat] /\ read_i \in [Task -> Nat]
           /\ circbuffcounter \in Nat
           /\ current \in Task /\ kont \in [Task -> Kont]
BY Running, KeyboardAssumption DEF IInv, DataOK

\* The task that a step dispatches is taken off keyboardqueue.
LEMMA DispatchedUnlinked ==
    ASSUME IInv' PROVE current' \notin Range(queue'[keyboardqueue])
BY QueueHeads DEF IInv, Between, CpuOK, OnNoList

\* A step of a task that is not reading, which leaves the readers and their
\* list alone: a reader that is not running stays where it is.
LEMMA ReadersKept ==
    ASSUME IInv, IInv', ReadersInv, kont[current] \notin Reading,
           UNCHANGED kbdVars, queue'[keyboardqueue] = queue[keyboardqueue],
           \A t \in Task : kont'[t] = kont[t] \/ kont'[t] \notin Reading
    PROVE  ReadersInv'
<1>1. ASSUME NEW t \in Task, kont'[t] \in Reading
      PROVE  t # current /\ kont[t] = kont'[t] /\ t \in Range(queue[keyboardqueue])
  BY <1>1 DEF ReadersInv, OneReaderCopies, Readers, Linked, Reading
<1>2. OneReaderCopies'
  <2>1. \A t \in Readers' : t \in Range(queue'[keyboardqueue])
    BY <1>1 DEF Readers, Reading
  <2>2. ASSUME NEW t \in Task, kont'[t] = "readloop"
        PROVE  /\ \A u \in Task : kont'[u] = "readloop" => u = t
               /\ queue'[keyboardqueue] # <<>> => Head(queue'[keyboardqueue]) = t
    BY <1>1, <2>2 DEF ReadersInv, OneReaderCopies, Reading
  <2> QED
    BY <2>1, <2>2 DEF OneReaderCopies, Linked
<1>3. ASSUME NEW t \in Task, kont'[t] = "readloop"
      PROVE  /\ read_i'[t] < read_count'[t]
             /\ keyboard_readers_count'[t]
                  + (IF t = current' THEN circbuffcounter' ELSE 0)
                    >= read_count'[t] - read_i'[t]
  <2>1. /\ read_i[t] < read_count[t]
        /\ keyboard_readers_count[t] >= read_count[t] - read_i[t]
    BY <1>1, <1>3, CountTypes DEF ReadersInv, EnoughAwaited, Reading
  <2> QED
    BY <2>1, CountTypes DEF kbdVars
<1>4. ASSUME NEW t \in Task, kont'[t] = "readloop"
      PROVE  /\ t # current'
             /\ circbuffcounter' < CIRCBUFF_SIZE
             /\ circbuffcounter' < keyboard_readers_count'[t]
  <2>1. t # current /\ kont[t] = "readloop" /\ t \in Range(queue'[keyboardqueue])
    BY <1>1, <1>4 DEF Reading
  <2> QED
    BY <2>1, DispatchedUnlinked DEF ReadersInv, WokenInTime, kbdVars
<1>5. WokenInTime'
  BY <1>4 DEF WokenInTime
<1> QED
  BY <1>2, <1>3, <1>5 DEF ReadersInv, EnoughAwaited

LEMMA SwitchKeepsKeyboard ==
    ASSUME NEW q, NEW st, NEW left, ListsOK(q), sched_next_rr(q, st, left)
    PROVE  queue'[keyboardqueue] = q[keyboardqueue]
<1>1. CASE list_empty(q, readyqueue) /\ queue' = q
  BY <1>1
<1>2. CASE ~list_empty(q, readyqueue) /\ queue' = Dequeue(q, st)
  <2>1. list_del(q, readyqueue)[keyboardqueue] = q[keyboardqueue]
    BY <1>2, DelFirst, QueueHeads DEF list_empty
  <2> QED
    BY <1>2, <2>1 DEF Dequeue
<1> QED
  BY <1>1, <1>2 DEF sched_next_rr

\* A switch of the running task to a list other than keyboardqueue.
LEMMA ReadersQueued ==
    ASSUME IInv, IInv', ReadersInv, kont[current] \notin Reading,
           UNCHANGED kbdVars,
           \A t \in Task : kont'[t] = kont[t] \/ kont'[t] \notin Reading,
           NEW dst \in Queue \ {keyboardqueue}, NEW st, NEW left,
           sched_next_rr(list_add_tail(queue, dst, current), st, left)
    PROVE  ReadersInv'
<1> DEFINE r == list_add_tail(queue, dst, current)
<1>1. ListsOK(r) /\ r[keyboardqueue] = queue[keyboardqueue]
  BY QueuedLists, QueueHeads
<1> HIDE DEF r
<1>2. queue'[keyboardqueue] = r[keyboardqueue]
  BY <1>1, SwitchKeepsKeyboard DEF r
<1> QED
  BY <1>1, <1>2, ReadersKept

LEMMA ReadersClock == ASSUME IInv, IInv', ReadersInv, Clock PROVE ReadersInv'
<1>1. /\ kont[current] \notin Reading /\ kont' = kont /\ ListsOK(queue)
  BY Running DEF Clock, clk_routine, InterruptsOn, taskVars, Reading
<1>2. UNCHANGED kbdVars
  BY DEF Clock
<1>3. PICK left : left = update_sched_data_rr
  OBVIOUS
<1>4. CASE queue' = queue
  BY <1>1, <1>2, <1>4, ReadersKept
<1>5. CASE sched_next_rr(list_add_tail(queue, readyqueue, current),
                         [state EXCEPT ![current] = QueuedState(readyqueue)], left)
  BY <1>1, <1>2, <1>5, ReadersQueued, QueueHeads
<1>6. CASE sched_next_rr(queue, state, left)
  BY <1>1, <1>2, <1>6, ReadersKept, SwitchKeepsKeyboard
<1> QED
  BY <1>3, <1>4, <1>5, <1>6, EnqueueRunning DEF Clock, clk_routine

LEMMA ReadersSem ==
    ASSUME IInv, IInv', ReadersInv,
           SemInitCall \/ SemWaitCall \/ SemSignalCall \/ SemDestroyCall \/ SemWaitRest
    PROVE  ReadersInv'
<1>1. UNCHANGED kbdVars
  BY DEF SemInitCall, SemWaitCall, SemSignalCall, SemDestroyCall, SemWaitRest
<1>2. /\ kont \in [Task -> Kont] /\ current \in Task /\ ListsOK(queue)
      /\ keyboardqueue \notin Sem /\ keyboardqueue \in Queue /\ keyboardqueue # readyqueue
  BY Running, QueueHeads
<1>3. CASE SemInitCall
  <2>1. kont[current] = "user" /\ kont' = kont
        /\ queue'[keyboardqueue] = queue[keyboardqueue]
    BY <1>2, <1>3 DEF SemInitCall, sys_sem_init, InUserCode, Fail, schedVars, taskVars,
                      ListsOK
  <2> QED
    BY <1>1, <2>1, ReadersKept DEF Reading
<1>4. CASE SemWaitCall
  <2>1. PICK n \in SemArg : sys_sem_wait(n)
    BY <1>4 DEF SemWaitCall
  <2>2. /\ kont[current] \notin Reading
        /\ \A t \in Task : kont'[t] = kont[t] \/ kont'[t] \notin Reading
    BY <1>2, <2>1 DEF sys_sem_wait, InUserCode, Fail, taskVars, Reading
  <2>3. CASE queue' = queue
    BY <1>1, <2>2, <2>3, ReadersKept
  <2>4. CASE /\ n \in Sem
             /\ sched_next_rr(list_add_tail(queue, n, current),
                              [state EXCEPT ![current] = ST_BLOCKED], left_ticks)
    BY <1>1, <2>2, <2>4, ReadersQueued, QueueHeads
  <2> QED
    BY <2>1, <2>3, <2>4 DEF sys_sem_wait, Fail, SemInUse, schedVars
<1>5. CASE SemSignalCall
  <2>1. PICK n \in SemArg : sys_sem_signal(n)
    BY <1>5 DEF SemSignalCall
  <2>2. kont[current] = "user" /\ kont' = kont
    BY <2>1 DEF sys_sem_signal, InUserCode, Fail, taskVars
  <2>3. queue' = queue
        \/ (n \in Sem /\ queue' = list_add_tail(list_del(queue, n), readyqueue,
                                                list_first(queue, n)))
    BY <2>1 DEF sys_sem_signal, Fail, SemInUse, schedVars
  <2>4. queue'[keyboardqueue] = queue[keyboardqueue]
    BY <1>2, <2>3 DEF list_add_tail, list_del, ListsOK
  <2> QED
    BY <1>1, <2>2, <2>4, ReadersKept DEF Reading
<1>6. CASE SemDestroyCall
  <2>1. PICK n \in SemArg : sys_sem_destroy(n)
    BY <1>6 DEF SemDestroyCall
  <2>2. kont[current] = "user" /\ kont' = kont
    BY <2>1 DEF sys_sem_destroy, InUserCode, Fail, taskVars
  <2>3. queue' = queue \/ (n \in Sem /\ queue' = list_move_all(queue, n, readyqueue))
    BY <2>1 DEF sys_sem_destroy, Fail, DestroySem, SemInUse, schedVars
  <2>4. queue'[keyboardqueue] = queue[keyboardqueue]
    BY <1>2, <2>3, Splice
  <2> QED
    BY <1>1, <2>2, <2>4, ReadersKept DEF Reading
<1>7. CASE SemWaitRest
  <2>1. /\ kont[current] = "semwait" /\ kont' = [kont EXCEPT ![current] = "user"]
        /\ queue' = queue
    BY <1>7 DEF SemWaitRest, SemWaitResume, schedVars
  <2> QED
    BY <1>1, <1>2, <2>1, ReadersKept DEF Reading
<1> QED
  BY <1>3, <1>4, <1>5, <1>6, <1>7

LEMMA ReadersProcess ==
    ASSUME IInv, IInv', ReadersInv, ForkCall \/ CloneCall \/ ExitCall \/ ExitRest
    PROVE  ReadersInv'
<1>1. UNCHANGED kbdVars
  BY DEF ForkCall, CloneCall, ExitCall, ExitRest
<1>2. /\ kont \in [Task -> Kont] /\ current \in Task /\ ListsOK(queue)
      /\ keyboardqueue \notin Sem /\ keyboardqueue \in Queue /\ keyboardqueue # readyqueue
      /\ keyboardqueue # freequeue /\ freequeue \in Queue
  BY Running, QueueHeads
<1>3. kont[current] \notin Reading
  BY DEF ForkCall, CloneCall, ExitCall, ExitRest, sys_fork, sys_clone, sys_exit, ExitSem,
         ExitRelease, InUserCode, Reading
<1>4. \A t \in Task : kont'[t] = kont[t] \/ kont'[t] \notin Reading
  BY <1>2 DEF ForkCall, CloneCall, ExitCall, ExitRest, sys_fork, sys_clone, sys_exit,
         ExitSem, ExitRelease, NewTask, ForkOutOfMemory, Fail, taskVars, Reading
<1>5. CASE ForkCall \/ CloneCall
  <2>1. \/ queue' = queue \/ queue' = list_del(queue, freequeue)
        \/ queue' = list_add_tail(list_del(queue, freequeue), readyqueue,
                                  list_first(queue, freequeue))
    BY <1>5 DEF ForkCall, CloneCall, sys_fork, sys_clone, NewTask, ForkOutOfMemory, Fail,
                schedVars
  <2>2. queue'[keyboardqueue] = queue[keyboardqueue]
    BY <1>2, <2>1 DEF list_add_tail, list_del, ListsOK
  <2> QED
    BY <1>1, <1>3, <1>4, <2>2, ReadersKept
<1>6. CASE ExitCall
  BY <1>1, <1>3, <1>4, <1>6, ReadersKept DEF ExitCall, sys_exit, schedVars
<1>7. CASE ExitSem
  <2>1. exit_i \in Sem
    BY <1>7, SchedAssumption DEF ExitSem, IInv, DataOK, Sem
  <2>2. queue' = queue \/ queue' = list_move_all(queue, exit_i, readyqueue)
    BY <1>7 DEF ExitSem, DestroySem, schedVars
  <2>3. queue'[keyboardqueue] = queue[keyboardqueue]
    BY <1>2, <2>1, <2>2, Splice
  <2> QED
    BY <1>1, <1>3, <1>4, <2>3, ReadersKept
<1>8. CASE ExitRelease
  BY <1>1, <1>2, <1>3, <1>4, <1>8, ReadersQueued DEF ExitRelease
<1> QED
  BY <1>5, <1>6, <1>7, <1>8 DEF ExitRest

\* keyboard_routine wakes the first reader by giving it the CPU at once, with
\* what it waits for in the buffer or with a full one.
LEMMA ReadersWoken ==
    ASSUME IInv, IInv', ReadersInv, Keyboard, ~UNCHANGED schedVars
    PROVE  ReadersInv'
<1> DEFINE h == Head(queue[keyboardqueue])
           c == circbuffcounter + 1
           r == list_add_tail(list_add(list_del(queue, keyboardqueue), readyqueue, h),
                              readyqueue, current)
<1>1. /\ kont[current] = "user" /\ kont' = kont /\ queue[keyboardqueue] # <<>>
      /\ UNCHANGED <<read_i, read_count>>
      /\ circbuffcounter' = c
      /\ keyboard_readers_count' = [keyboard_readers_count EXCEPT
                                      ![h] = keyboard_readers_count[h] - c]
  BY DEF Keyboard, keyboard_routine, InterruptsOn, taskVars, list_empty, list_first
<1>2. PICK st, left : sched_next_rr(r, st, left)
  BY EnqueueRunning DEF Keyboard, keyboard_routine, list_first
<1>3. /\ ListsOK(queue) /\ keyboardqueue \in Queue
      /\ queue[keyboardqueue] \in Seq(Task) /\ IsInjective(queue[keyboardqueue])
  BY Running, QueueHeads DEF ListsOK
<1>4. /\ h \in Range(queue[keyboardqueue]) /\ h \in Task /\ h # current
      /\ ListsOK(r)
      /\ r[readyqueue] # <<>> /\ Head(r[readyqueue]) = h
      /\ r[keyboardqueue] = Tail(queue[keyboardqueue])
  BY <1>1, WokenLists
<1>5. Range(Tail(queue[keyboardqueue])) = Range(queue[keyboardqueue]) \ {h}
  BY <1>1, <1>3, RangeOfTail
<1> HIDE DEF h, r
<1>6. current' = h /\ queue'[keyboardqueue] = r[keyboardqueue]
  BY <1>2, <1>4, SwitchEffect, SwitchKeepsKeyboard
<1>7. ASSUME NEW t \in Task, kont[t] = "readloop"
      PROVE  t = h /\ \A u \in Task : kont[u] = "readloop" => u = t
  BY <1>1, <1>7 DEF ReadersInv, OneReaderCopies, h
<1>8. OneReaderCopies'
  <2>1. ASSUME NEW t \in Readers'
        PROVE  t = current' \/ t \in Range(queue'[keyboardqueue])
    <3>1. t \in Readers /\ t # current
      BY <1>1 DEF Readers
    <3> QED
      BY <1>4, <1>5, <1>6, <3>1 DEF ReadersInv, OneReaderCopies, Linked
  <2> QED
    BY <1>1, <1>6, <1>7, <2>1 DEF OneReaderCopies, Linked
<1>9. EnoughAwaited'
  <2> SUFFICES ASSUME NEW t \in Task, kont[t] = "readloop"
               PROVE  /\ read_i[t] < read_count[t]
                      /\ keyboard_readers_count'[t]
                           + (IF t = current' THEN circbuffcounter' ELSE 0)
                             >= read_count[t] - read_i[t]
    BY <1>1 DEF EnoughAwaited
  <2>1. t = h
    BY <1>7
  <2>2. /\ read_i[h] < read_count[h]
        /\ keyboard_readers_count[h] >= read_count[h] - read_i[h]
    BY <1>4, <2>1, CountTypes DEF ReadersInv, EnoughAwaited
  <2>3. keyboard_readers_count'[h] = keyboard_readers_count[h] - c
    BY <1>1, <1>4, CountTypes
  <2> QED
    BY <1>1, <1>4, <1>6, <2>1, <2>2, <2>3, CountTypes
<1>10. WokenInTime'
  <2> SUFFICES ASSUME NEW t \in Task, kont[t] = "readloop"
               PROVE  /\ t = current'
                      /\ \/ circbuffcounter' = CIRCBUFF_SIZE
                         \/ circbuffcounter' >= read_count'[t] - read_i'[t]
    BY <1>1 DEF WokenInTime, Lacks
  <2>1. t = h /\ current' = h
    BY <1>6, <1>7
  <2>2. c = CIRCBUFF_SIZE \/ c = keyboard_readers_count[h]
    BY DEF Keyboard, keyboard_routine, EnoughFor, list_first, h
  <2>3. keyboard_readers_count[h] >= read_count[h] - read_i[h]
    BY <1>4, <2>1, CountTypes DEF ReadersInv, EnoughAwaited
  <2> QED
    BY <1>1, <2>1, <2>2, <2>3
<1> QED
  BY <1>8, <1>9, <1>10 DEF ReadersInv

LEMMA ReadersKeyboard == ASSUME IInv, IInv', ReadersInv, Keyboard PROVE ReadersInv'
<1>1. CASE UNCHANGED schedVars
  <2>1. /\ kont[current] = "user" /\ UNCHANGED <<queue, current, kont, read_i, read_count>>
    BY <1>1 DEF Keyboard, keyboard_routine, InterruptsOn, taskVars, schedVars
  <2> DEFINE h == Head(queue[keyboardqueue])
  <2>2. \/ /\ ~EnoughFor(keyboard_readers_count[h], circbuffcounter')
           /\ keyboard_readers_count' = keyboard_readers_count
        \/ \E q, st : sched_next_rr(q, st, left_ticks)
                /\ list_add_tail(list_add(list_del(queue, keyboardqueue), readyqueue, h),
                                 readyqueue, current) = q
    BY EnqueueRunning DEF Keyboard, keyboard_routine, list_first
  <2>3. queue[keyboardqueue] # <<>> /\ circbuffcounter' = circbuffcounter + 1
    BY DEF Keyboard, keyboard_routine, list_empty
  <2>4. /\ ~EnoughFor(keyboard_readers_count[h], circbuffcounter')
        /\ keyboard_readers_count' = keyboard_readers_count
    BY <1>1, <2>1, <2>2, <2>3, WokenLists, SwitchEffect
  <2>5. OneReaderCopies'
    BY <2>1 DEF ReadersInv, OneReaderCopies, Readers, Linked
  <2>6. EnoughAwaited'
    BY <2>1, <2>4 DEF ReadersInv, EnoughAwaited
  <2>7. ASSUME NEW t \in Task, kont[t] = "readloop"
        PROVE  /\ t # current
               /\ circbuffcounter' < CIRCBUFF_SIZE
               /\ circbuffcounter' < keyboard_readers_count[t]
    <3>1. t # current /\ t = h
      BY <2>1, <2>3, <2>7 DEF ReadersInv, OneReaderCopies
    <3>2. circbuffcounter < CIRCBUFF_SIZE /\ circbuffcounter < keyboard_readers_count[t]
      BY <2>7, <3>1 DEF ReadersInv, WokenInTime
    <3>3. circbuffcounter' # CIRCBUFF_SIZE /\ circbuffcounter' # keyboard_readers_count[t]
      BY <2>4, <3>1 DEF EnoughFor
    <3> QED
      BY <2>3, <3>1, <3>2, <3>3, CountTypes, KeyboardAssumption
  <2>8. WokenInTime'
    BY <2>1, <2>4, <2>7 DEF WokenInTime
  <2> QED
    BY <2>5, <2>6, <2>8 DEF ReadersInv
<1>2. CASE ~UNCHANGED schedVars
  BY <1>2, ReadersWoken
<1> QED
  BY <1>1, <1>2

\* The loop of sys_read_keyboard: what it takes from the buffer it no longer
\* lacks, and it blocks in front of the others.
LEMMA ReadersLoop ==
    ASSUME IInv, IInv', ReadersInv, NEW i \in Nat, NEW count \in Nat,
           ReadLoop(current, i, count),
           \A t \in Task \ {current} : kont[t] # "readloop",
           \A t \in Task \ {current} : kont[t] \in Reading =>
                                          t \in Range(queue[keyboardqueue]),
           keyboard_readers_count' \in [Task -> Int],
           keyboard_readers_count'[current] + circbuffcounter >= count - i
    PROVE  ReadersInv'
<1>1. CASE CopyAll(current, i, count)
  <2>1. /\ kont' = [kont EXCEPT ![current] = "user"]
        /\ UNCHANGED <<queue, current>>
    BY <1>1 DEF CopyAll, schedVars
  <2>2. \A t \in Task : kont'[t] # "readloop"
    BY <2>1, CountTypes
  <2>3. ASSUME NEW t \in Readers' PROVE t \in Range(queue'[keyboardqueue])
    BY <2>1, <2>3, CountTypes DEF Readers, Reading
  <2> QED
    BY <2>2, <2>3 DEF ReadersInv, OneReaderCopies, EnoughAwaited, WokenInTime, Linked
<1>2. CASE CopySome(current, i, count)
  <2> DEFINE r == list_add(queue, keyboardqueue, current)
  <2>1. /\ count - i > circbuffcounter
        /\ read_i' = [read_i EXCEPT ![current] = i + circbuffcounter]
        /\ read_count' = [read_count EXCEPT ![current] = count]
        /\ circbuffcounter' = 0
        /\ kont' = [kont EXCEPT ![current] = "readloop"]
        /\ \E st, left : sched_next_rr(r, st, left)
    BY <1>2 DEF CopySome, BlockReader
  <2>2. /\ ListsOK(r) /\ r[keyboardqueue] # <<>> /\ Head(r[keyboardqueue]) = current
        /\ Range(r[keyboardqueue]) = Range(queue[keyboardqueue]) \cup {current}
    <3>1. ListsOK(queue) /\ current \in Task /\ OnNoList(queue, current)
      BY Running
    <3>2. keyboardqueue \in Queue
      BY QueueHeads
    <3> QED
      BY <3>1, <3>2, AddFront
  <2> HIDE DEF r
  <2>3. queue'[keyboardqueue] = r[keyboardqueue]
    BY <2>1, <2>2, SwitchKeepsKeyboard
  <2>4. /\ \A t \in Task : kont'[t] = "readloop" => t = current
        /\ \A t \in Task \ {current} : kont'[t] = kont[t]
    BY <2>1, CountTypes
  <2>5. \A t \in Readers' : t \in Range(queue'[keyboardqueue])
    BY <2>2, <2>3, <2>4 DEF Readers, Reading
  <2>6. OneReaderCopies'
    BY <2>2, <2>3, <2>4, <2>5 DEF OneReaderCopies, Linked
  <2>7. /\ read_i'[current] = i + circbuffcounter
        /\ read_count'[current] = count
    BY <2>1, CountTypes
  <2>8. /\ read_i'[current] < read_count'[current]
        /\ keyboard_readers_count'[current] >= read_count'[current] - read_i'[current]
    BY <2>1, <2>7, CountTypes
  <2>9. ASSUME NEW t \in Task, kont'[t] = "readloop"
        PROVE  /\ read_i'[t] < read_count'[t]
               /\ keyboard_readers_count'[t]
                    + (IF t = current' THEN circbuffcounter' ELSE 0)
                      >= read_count'[t] - read_i'[t]
    BY <2>1, <2>4, <2>8, <2>9, CountTypes
  <2>10. EnoughAwaited'
    BY <2>9 DEF EnoughAwaited
  <2>11. current # current'
    BY <2>2, <2>3, DispatchedUnlinked
  <2>12. 0 < keyboard_readers_count'[current] /\ 0 < CIRCBUFF_SIZE
    BY <2>1, <2>7, <2>8, CountTypes, KeyboardAssumption
  <2>13. WokenInTime'
    BY <2>1, <2>4, <2>11, <2>12 DEF WokenInTime
  <2> QED
    BY <2>6, <2>10, <2>13 DEF ReadersInv
<1> QED
  BY <1>1, <1>2 DEF ReadLoop

LEMMA ReadersRest == ASSUME IInv, IInv', ReadersInv, ReadRest PROVE ReadersInv'
<1>1. CASE ReadLoopResume
  <2>1. /\ kont[current] = "readloop"
        /\ ReadLoop(current, read_i[current], read_count[current])
        /\ keyboard_readers_count' = keyboard_readers_count
        /\ read_i[current] \in Nat /\ read_count[current] \in Nat
    BY <1>1, CountTypes DEF ReadLoopResume
  <2>2. \A t \in Task \ {current} :
           /\ kont[t] # "readloop"
           /\ kont[t] \in Reading => t \in Range(queue[keyboardqueue])
    BY <2>1, CountTypes DEF ReadersInv, OneReaderCopies, Readers, Linked, Reading
  <2>3. keyboard_readers_count'[current] + circbuffcounter
           >= read_count[current] - read_i[current]
    BY <2>1, CountTypes DEF ReadersInv, EnoughAwaited
  <2> QED
    BY <2>1, <2>2, <2>3, ReadersLoop, CountTypes
<1>2. CASE ReadReturn
  <2>1. /\ kont[current] = "readret" /\ kont' = [kont EXCEPT ![current] = "user"]
        /\ UNCHANGED <<queue, current, circbuffcounter, keyboard_readers_count>>
        /\ read_i' = [read_i EXCEPT ![current] = 0]
        /\ read_count' = [read_count EXCEPT ![current] = 0]
    BY <1>2 DEF ReadReturn, schedVars
  <2>2. ASSUME NEW t \in Task, kont'[t] \in Reading
        PROVE  /\ t # current /\ kont'[t] = kont[t]
               /\ read_i'[t] = read_i[t] /\ read_count'[t] = read_count[t]
    BY <2>1, <2>2, CountTypes DEF Reading
  <2>3. OneReaderCopies'
    BY <2>1, <2>2 DEF ReadersInv, OneReaderCopies, Readers, Linked, Reading
  <2>4. EnoughAwaited'
    BY <2>1, <2>2 DEF ReadersInv, EnoughAwaited, Reading
  <2>5. WokenInTime'
    BY <2>1, <2>2 DEF ReadersInv, WokenInTime, Reading
  <2> QED
    BY <2>3, <2>4, <2>5 DEF ReadersInv
<1> QED
  BY <1>1, <1>2 DEF ReadRest

\* sys_read queues behind the readers that wait, or starts its own loop.
LEMMA ReadersCall == ASSUME IInv, IInv', ReadersInv, ReadCall PROVE ReadersInv'
<1>1. PICK fd \in {0, 1}, buffer \in ReadBuffer, count \in {-1} \cup ReadCounts :
           sys_read(fd, buffer, count)
  BY DEF ReadCall
<1>2. kont[current] = "user" /\ kont[current] \notin Reading
  BY <1>1 DEF sys_read, InUserCode, Reading
<1>3. CASE UNCHANGED <<schedVars, kont, kbdVars>>
  BY <1>2, <1>3, ReadersKept DEF schedVars
<1>4. ASSUME ReadError(fd, buffer, count) = 0 PROVE count \in Nat
  BY <1>4, KeyboardAssumption DEF ReadError, EBADF, EFAULT, EINVAL
<1>5. CASE /\ ReadError(fd, buffer, count) = 0
           /\ keyboard_readers_count' = [keyboard_readers_count EXCEPT ![current] = count]
           /\ queue[keyboardqueue] # <<>>
           /\ read_i' = [read_i EXCEPT ![current] = 0]
           /\ read_count' = [read_count EXCEPT ![current] = count]
           /\ kont' = [kont EXCEPT ![current] = "readret"]
           /\ \E st, left :
                 sched_next_rr(list_add_tail(queue, keyboardqueue, current), st, left)
           /\ UNCHANGED circbuffcounter
  <2> DEFINE r == list_add_tail(queue, keyboardqueue, current)
  <2>1. /\ ListsOK(r) /\ r[keyboardqueue] # <<>>
        /\ Head(r[keyboardqueue]) = Head(queue[keyboardqueue])
        /\ Range(r[keyboardqueue]) = Range(queue[keyboardqueue]) \cup {current}
    <3>1. ListsOK(queue) /\ current \in Task /\ OnNoList(queue, current)
      BY Running
    <3>2. keyboardqueue \in Queue /\ queue[keyboardqueue] # <<>>
      BY <1>5, QueueHeads
    <3> QED
      BY <3>1, <3>2, AddTail
  <2>2. \E st, left : sched_next_rr(r, st, left)
    BY <1>5
  <2> HIDE DEF r
  <2>3. queue'[keyboardqueue] = r[keyboardqueue]
    BY <2>1, <2>2, SwitchKeepsKeyboard
  <2>4. ASSUME NEW t \in Task, t # current
        PROVE  /\ kont'[t] = kont[t] /\ read_i'[t] = read_i[t]
               /\ read_count'[t] = read_count[t]
               /\ keyboard_readers_count'[t] = keyboard_readers_count[t]
    BY <1>5, <2>4, CountTypes
  <2>5. kont'[current] = "readret"
    BY <1>5, CountTypes
  <2>6. \A t \in Readers' : t \in Range(queue'[keyboardqueue])
    BY <2>1, <2>3, <2>4 DEF Readers, ReadersInv, OneReaderCopies, Linked
  <2>7. ASSUME NEW t \in Task, kont'[t] = "readloop"
        PROVE  /\ t # current /\ kont[t] = "readloop"
               /\ \A u \in Task : kont'[u] = "readloop" => u = t
               /\ Head(queue'[keyboardqueue]) = t
    BY <1>5, <2>1, <2>3, <2>4, <2>5, <2>7 DEF ReadersInv, OneReaderCopies
  <2>8. OneReaderCopies'
    BY <2>6, <2>7 DEF OneReaderCopies, Linked
  <2>9. ASSUME NEW t \in Task, kont'[t] = "readloop"
        PROVE  /\ read_i'[t] < read_count'[t]
               /\ keyboard_readers_count'[t]
                    + (IF t = current' THEN circbuffcounter' ELSE 0)
                      >= read_count'[t] - read_i'[t]
    <3>1. /\ read_i[t] < read_count[t]
          /\ keyboard_readers_count[t] >= read_count[t] - read_i[t]
      BY <2>7, <2>9, CountTypes DEF ReadersInv, EnoughAwaited
    <3> QED
      BY <1>5, <2>4, <2>7, <2>9, <3>1, CountTypes
  <2>10. ASSUME NEW t \in Task, kont'[t] = "readloop"
         PROVE  /\ t # current'
                /\ circbuffcounter' < CIRCBUFF_SIZE
                /\ circbuffcounter' < keyboard_readers_count'[t]
    <3>1. t # current /\ kont[t] = "readloop"
      BY <2>7, <2>10
    <3>2. t \in Range(queue'[keyboardqueue])
      BY <2>1, <2>3, <3>1 DEF ReadersInv, OneReaderCopies, Readers, Linked
    <3>3. circbuffcounter < CIRCBUFF_SIZE /\ circbuffcounter < keyboard_readers_count[t]
      BY <3>1 DEF ReadersInv, WokenInTime
    <3> QED
      BY <1>5, <2>4, <3>1, <3>2, <3>3, DispatchedUnlinked
  <2>11. WokenInTime'
    BY <2>10 DEF WokenInTime
  <2> QED
    BY <2>8, <2>9, <2>11 DEF ReadersInv, EnoughAwaited
<1>6. CASE /\ ReadError(fd, buffer, count) = 0
           /\ keyboard_readers_count' = [keyboard_readers_count EXCEPT ![current] = count]
           /\ queue[keyboardqueue] = <<>>
           /\ ReadLoop(current, 0, count)
  <2>1. \A t \in Task : kont[t] \notin Reading
    BY <1>2, <1>6, RangeOfEmpty DEF ReadersInv, OneReaderCopies, Readers, Linked, Reading
  <2>2. /\ keyboard_readers_count' \in [Task -> Int]
        /\ keyboard_readers_count'[current] = count
        /\ count \in Nat /\ 0 \in Nat
    BY <1>4, <1>6, CountTypes
  <2>3. keyboard_readers_count'[current] + circbuffcounter >= count - 0
    BY <2>2, CountTypes
  <2> QED
    BY <1>6, <2>1, <2>2, <2>3, ReadersLoop DEF Reading
<1> QED
  BY <1>1, <1>3, <1>5, <1>6, EnqueueRunning DEF sys_read, list_empty

LEMMA ReadersStep == ASSUME IInv, IInv', ReadersInv, [Next]_vars PROVE ReadersInv'
<1>1. CASE UNCHANGED vars
  BY <1>1 DEF vars, schedVars, taskVars, kbdVars, ReadersInv, OneReaderCopies,
              EnoughAwaited, WokenInTime, Lacks, Readers, Linked
<1>2. CASE SystemCall
  BY <1>2, ReadersSem, ReadersCall, ReadersProcess DEF SystemCall
<1>3. CASE Continuation
  BY <1>3, ReadersSem, ReadersRest, ReadersProcess DEF Continuation
<1> QED
  BY <1>1, <1>2, <1>3, ReadersClock, ReadersKeyboard DEF Next

LEMMA ReadersInit == Init => ReadersInv
BY DEF Init, SchedInit, KeyboardInit, ReadersInv, OneReaderCopies, EnoughAwaited,
       WokenInTime, Readers

LEMMA ReadersInvariance == Spec => []ReadersInv
BY Invariance, ReadersInit, ReadersStep, PTL DEF Spec

\* keyboard_routine and sys_read_keyboard hand the buffer from reader to
\* reader: one copies at a time, and while it is blocked it is first in line.
THEOREM ReadersTakeTurns == Spec => []OneReaderCopies
BY ReadersInvariance, PTL DEF ReadersInv

\* keyboard_routine lets the reader at the front of keyboardqueue sleep while
\* the buffer holds less than it waits for, and no longer: no key makes the
\* count of the buffer pass keyboard_readers_count, and the reader it wakes
\* finds all that it lacks, or a full buffer.
THEOREM WakeupsAreInTime == Spec => []WokenInTime
BY ReadersInvariance, PTL DEF ReadersInv
----------------------------------------------------------------------------
(* The order of the ready queue.                                           *)

\* A prefix, position by position.
LEMMA PrefixByIndex ==
    ASSUME NEW S, NEW s \in Seq(S), NEW r \in Seq(S)
    PROVE  IsPrefix(s, r) <=> /\ Len(s) <= Len(r)
                              /\ \A i \in 1 .. Len(s) : r[i] = s[i]
<1> DEFINE n == Len(s)
<1>1. n \in Nat /\ Len(r) \in Nat /\ \A i \in 1 .. n : s[i] \in S
  BY LenProperties, ElementOfSeq
<1>2. /\ SubSeq(s, 1, n) \in Seq(S)
      /\ Len(SubSeq(s, 1, n)) = n
      /\ \A i \in 1 .. n : SubSeq(s, 1, n)[i] = s[i]
  BY <1>1, SubSeqProperties
<1>3. CASE n <= Len(r)
  <2>1. \A i \in 1 .. n : r[i] \in S
    BY <1>1, <1>3, ElementOfSeq
  <2>2. /\ SubSeq(r, 1, n) \in Seq(S)
        /\ Len(SubSeq(r, 1, n)) = n
        /\ \A i \in 1 .. n : SubSeq(r, 1, n)[i] = r[i]
    BY <1>1, <2>1, SubSeqProperties
  <2>3. (SubSeq(s, 1, n) = SubSeq(r, 1, n)) <=> \A i \in 1 .. n : s[i] = r[i]
    BY <1>2, <2>2, SeqEqual
  <2> QED
    BY <1>3, <2>3 DEF IsPrefix
<1>4. CASE ~(n <= Len(r))
  BY <1>4 DEF IsPrefix
<1> QED
  BY <1>3, <1>4

\* What is added at the end of a list leaves it a prefix, and so does nothing.
LEMMA PrefixOfGrown ==
    ASSUME NEW S, NEW s \in Seq(S)
    PROVE  /\ IsPrefix(s, s)
           /\ \A t \in S : IsPrefix(s, Append(s, t))
           /\ \A w \in Seq(S) : IsPrefix(s, s \o w)
<1>1. Len(s) \in Nat
  BY LenProperties
<1>2. IsPrefix(s, s)
  BY <1>1, PrefixByIndex
<1>3. ASSUME NEW t \in S PROVE IsPrefix(s, Append(s, t))
  <2>1. /\ Append(s, t) \in Seq(S)
        /\ Len(s) <= Len(Append(s, t))
        /\ \A i \in 1 .. Len(s) : Append(s, t)[i] = s[i]
    BY <1>1, AppendProperties
  <2> QED
    BY <2>1, PrefixByIndex
<1>4. ASSUME NEW w \in Seq(S) PROVE IsPrefix(s, s \o w)
  <2> DEFINE c == s \o w
  <2>1. /\ Len(w) \in Nat
        /\ c \in Seq(S)
        /\ Len(c) = Len(s) + Len(w)
        /\ \A i \in 1 .. Len(s) + Len(w) :
              c[i] = IF i <= Len(s) THEN s[i] ELSE w[i - Len(s)]
    BY ConcatProperties, LenProperties
  <2> HIDE DEF c
  <2>2. Len(s) <= Len(c) /\ \A i \in 1 .. Len(s) : c[i] = s[i]
    BY <1>1, <2>1
  <2>3. IsPrefix(s, c)
    BY <2>1, <2>2, PrefixByIndex
  <2> QED
    BY <2>3 DEF c
<1> QED
  BY <1>2, <1>3, <1>4

\* Once both have lost their first element, the one list leads the other still.
LEMMA PrefixOfTails ==
    ASSUME NEW S, NEW s \in Seq(S), NEW r \in Seq(S), s # <<>>, IsPrefix(s, r)
    PROVE  /\ r # <<>>
           /\ Head(r) = Head(s)
           /\ IsPrefix(Tail(s), Tail(r))
<1>1. /\ Len(s) \in Nat \ {0} /\ Len(r) \in Nat
      /\ Len(s) <= Len(r)
      /\ \A i \in 1 .. Len(s) : r[i] = s[i]
  BY PrefixByIndex, EmptySeq, LenProperties
<1>2. r # <<>>
  BY <1>1, EmptySeq
<1>3. Head(r) = Head(s)
  BY <1>1
<1>4. /\ Tail(s) \in Seq(S) /\ Len(Tail(s)) = Len(s) - 1
      /\ \A i \in 1 .. Len(s) - 1 : Tail(s)[i] = s[i + 1]
      /\ Tail(r) \in Seq(S) /\ Len(Tail(r)) = Len(r) - 1
      /\ \A i \in 1 .. Len(r) - 1 : Tail(r)[i] = r[i + 1]
  BY <1>2, HeadTailProperties
<1>5. ASSUME NEW i \in 1 .. Len(s) - 1 PROVE Tail(r)[i] = Tail(s)[i]
  <2>1. i \in 1 .. Len(r) - 1 /\ i + 1 \in 1 .. Len(s)
    BY <1>1
  <2> QED
    BY <1>1, <1>4, <2>1
<1>6. Len(Tail(s)) <= Len(Tail(r))
  BY <1>1, <1>4
<1>7. IsPrefix(Tail(s), Tail(r))
  BY <1>4, <1>5, <1>6, PrefixByIndex
<1> QED
  BY <1>2, <1>3, <1>7

\* The lists as a handler has changed them: who is ready still comes first.
LeftInTurn(q) == IsPrefix(queue[readyqueue], q[readyqueue])

LEMMA TurnKept ==
    ASSUME IInv, queue'[readyqueue] = queue[readyqueue]
    PROVE  ServedInTurn
BY Running, PrefixOfGrown DEF ServedInTurn

\* A switch after a handler that has only added at the end.
LEMMA TurnSwitched ==
    ASSUME IInv, NEW q, NEW st, NEW left, ListsOK(q), LeftInTurn(q),
           sched_next_rr(q, st, left)
    PROVE  ServedInTurn
<1> DEFINE s == queue[readyqueue]
           r == q[readyqueue]
<1>1. /\ s \in Seq(Task) /\ r \in Seq(Task) /\ IsPrefix(s, r)
  BY Running, QueueHeads DEF ListsOK, LeftInTurn
<1>2. CASE queue' = q
  BY <1>1, <1>2 DEF ServedInTurn
<1>3. CASE r # <<>> /\ queue' = list_del(q, readyqueue) /\ current' = Head(r)
  <2>1. queue'[readyqueue] = Tail(r)
    BY <1>3, QueueHeads DEF list_del, ListsOK
  <2>2. Tail(r) \in Seq(Task)
    BY <1>1, <1>3, HeadTailProperties
  <2>3. CASE s = <<>>
    <3>1. Len(s) = 0 /\ Len(Tail(r)) \in Nat
      BY <1>1, <2>2, <2>3, EmptySeq, LenProperties
    <3>2. \A i \in 1 .. Len(s) : Tail(r)[i] = s[i]
      BY <3>1
    <3>3. IsPrefix(s, Tail(r))
      <4> HIDE DEF s, r
      <4>1. Len(s) <= Len(Tail(r))
        BY <3>1
      <4> QED
        BY <1>1, <2>2, <3>2, <4>1, PrefixByIndex
    <3> QED
      BY <2>1, <3>3 DEF ServedInTurn
  <2>4. CASE s # <<>>
    <3>1. Head(r) = Head(s) /\ IsPrefix(Tail(s), Tail(r))
      BY <1>1, <2>4, PrefixOfTails
    <3> QED
      BY <1>3, <2>1, <2>4, <3>1 DEF ServedInTurn
  <2> QED
    BY <2>3, <2>4
<1> QED
  BY <1>2, <1>3 DEF sched_next_rr, Dequeue, list_empty, list_first

\* A switch after the running task has been queued.
LEMMA TurnQueued ==
    ASSUME IInv, NEW dst \in Queue, NEW st, NEW left, NEW r,
           \/ r = list_add_tail(queue, dst, current)
           \/ r = list_add(queue, dst, current) /\ dst # readyqueue,
           sched_next_rr(r, st, left)
    PROVE  ServedInTurn
<1>1. /\ queue[readyqueue] \in Seq(Task) /\ current \in Task
      /\ queue \in [Queue -> Seq(Task)] /\ readyqueue \in Queue
  BY Running, QueueHeads DEF ListsOK
<1>2. \/ r[readyqueue] = queue[readyqueue]
      \/ r[readyqueue] = Append(queue[readyqueue], current)
  BY <1>1 DEF list_add_tail, list_add
<1>3. LeftInTurn(r)
  BY <1>1, <1>2, PrefixOfGrown DEF LeftInTurn
<1>4. ListsOK(r)
  BY QueuedLists
<1> QED
  BY <1>3, <1>4, TurnSwitched

LEMMA TurnClock == ASSUME IInv, Clock PROVE ServedInTurn
<1>1. PICK left : left = update_sched_data_rr
  OBVIOUS
<1>2. CASE queue' = queue
  BY <1>2, TurnKept
<1>3. CASE sched_next_rr(list_add_tail(queue, readyqueue, current),
                         [state EXCEPT ![current] = QueuedState(readyqueue)], left)
  BY <1>3, TurnQueued, QueueHeads
<1>4. CASE sched_next_rr(queue, state, left)
  <2>1. ListsOK(queue) /\ LeftInTurn(queue)
    BY Running, PrefixOfGrown DEF LeftInTurn
  <2> QED
    BY <1>4, <2>1, TurnSwitched
<1> QED
  BY <1>1, <1>2, <1>3, <1>4, EnqueueRunning DEF Clock, clk_routine

\* The reader jumps the queue and leaves it at once.
LEMMA TurnKeyboard == ASSUME IInv, Keyboard PROVE ServedInTurn
<1> DEFINE s == queue[readyqueue]
           h == Head(queue[keyboardqueue])
           r == list_add_tail(list_add(list_del(queue, keyboardqueue), readyqueue, h),
                              readyqueue, current)
           st == [state EXCEPT ![h] = ST_READY, ![current] = QueuedState(readyqueue)]
<1>1. CASE UNCHANGED schedVars
  BY <1>1, TurnKept DEF schedVars
<1>2. CASE sched_next_rr(r, st, left_ticks)
  <2>1. /\ s \in Seq(Task) /\ current \in Task
        /\ queue \in [Queue -> Seq(Task)] /\ queue[keyboardqueue] # <<>>
        /\ state \in [Task -> {ST_RUN, ST_READY, ST_BLOCKED}]
    BY Running DEF ListsOK, IInv, Between, States, Keyboard, keyboard_routine, list_empty
  <2>2. h \in Task /\ h # current /\ r[readyqueue] # <<>> /\ Head(r[readyqueue]) = h
    BY <2>1, WokenLists
  <2>3. /\ r[readyqueue] = Append(<<h>> \o s, current)
        /\ r \in [Queue -> Seq(Task)]
    BY <2>1, WokenLists, QueueHeads DEF list_add_tail, list_add, list_del, ListsOK
  <2>4. st[h] # ST_RUN
    BY <2>1, <2>2 DEF ST_READY, ST_RUN
  <2>5. queue' = list_del(r, readyqueue)
    BY <1>2, <2>2, <2>4 DEF sched_next_rr, Dequeue, list_empty, list_first
  <2>6. queue'[readyqueue] = Tail(Append(<<h>> \o s, current))
    BY <2>3, <2>5, QueueHeads DEF list_del
  <2>7. Tail(Append(<<h>> \o s, current)) = Append(s, current)
    <3>1. /\ <<h>> \o s \in Seq(Task) /\ <<h>> \o s # <<>>
      BY <2>1, <2>2, RangeOfCons
    <3>2. Tail(Append(<<h>> \o s, current)) = Append(Tail(<<h>> \o s), current)
      BY <2>1, <3>1, HeadTailAppend
    <3>3. Tail(<<h>> \o s) = s
      <4>1. /\ <<h>> \in Seq(Task) /\ Len(<<h>>) = 1
            /\ Len(s) \in Nat
        BY <2>1, <2>2, LenProperties
      <4>2. /\ Len(<<h>> \o s) = Len(s) + 1
            /\ \A i \in 1 .. Len(s) : (<<h>> \o s)[i + 1] = s[i]
        BY <2>1, <4>1, ConcatProperties
      <4>3. /\ Tail(<<h>> \o s) \in Seq(Task)
            /\ Len(Tail(<<h>> \o s)) = Len(s)
            /\ \A i \in 1 .. Len(s) : Tail(<<h>> \o s)[i] = s[i]
        BY <3>1, <4>1, <4>2, HeadTailProperties
      <4> QED
        BY <2>1, <4>3, SeqEqual
    <3> QED
      BY <3>2, <3>3
  <2>8. IsPrefix(s, Append(s, current))
    BY <2>1, PrefixOfGrown
  <2> QED
    BY <2>6, <2>7, <2>8 DEF ServedInTurn
<1> QED
  BY <1>1, <1>2, EnqueueRunning DEF Keyboard, keyboard_routine, list_first

LEMMA TurnDestroy == ASSUME IInv, NEW n \in Sem, DestroySem(n) PROVE ServedInTurn
<1>1. /\ queue[readyqueue] \in Seq(Task) /\ queue[n] \in Seq(Task)
      /\ queue \in [Queue -> Seq(Task)] /\ n # readyqueue /\ readyqueue \in Queue
  BY Running, QueueHeads DEF ListsOK
<1>2. queue'[readyqueue] = queue[readyqueue] \o queue[n]
  BY <1>1 DEF DestroySem, list_move_all
<1> QED
  BY <1>1, <1>2, PrefixOfGrown DEF ServedInTurn

\* The first of another list is made ready (sem_signal, fork, clone).
LEMMA TurnMadeReady ==
    ASSUME IInv, NEW src \in Queue \ {readyqueue}, queue[src] # <<>>,
           queue' = list_add_tail(list_del(queue, src), readyqueue, Head(queue[src]))
    PROVE  ServedInTurn
<1>1. /\ queue[readyqueue] \in Seq(Task) /\ Head(queue[src]) \in Task
      /\ queue \in [Queue -> Seq(Task)] /\ readyqueue \in Queue
  BY Running, DelFirst, QueueHeads DEF ListsOK
<1>2. queue'[readyqueue] = Append(queue[readyqueue], Head(queue[src]))
  BY <1>1 DEF list_add_tail, list_del
<1> QED
  BY <1>1, <1>2, PrefixOfGrown DEF ServedInTurn

LEMMA TurnSem ==
    ASSUME IInv, SemInitCall \/ SemWaitCall \/ SemWaitRest \/ SemSignalCall \/ SemDestroyCall
    PROVE  ServedInTurn
<1>1. CASE queue'[readyqueue] = queue[readyqueue]
  BY <1>1, TurnKept
<1>2. CASE SemInitCall
  <2>1. PICK n \in SemArg, value \in SemValues : sys_sem_init(n, value)
    BY <1>2 DEF SemInitCall
  <2>2. queue'[readyqueue] = queue[readyqueue]
    BY <2>1, Running, QueueHeads DEF sys_sem_init, Fail, schedVars, ListsOK
  <2> QED
    BY <1>1, <2>2
<1>3. CASE SemWaitCall
  <2>1. PICK n \in SemArg : sys_sem_wait(n)
    BY <1>3 DEF SemWaitCall
  <2>2. CASE queue' = queue
    BY <1>1, <2>2
  <2>3. CASE /\ SemInUse(n)
             /\ sched_next_rr(list_add_tail(queue, n, current),
                              [state EXCEPT ![current] = ST_BLOCKED], left_ticks)
    BY <2>3, TurnQueued, QueueHeads DEF SemInUse
  <2> QED
    BY <2>1, <2>2, <2>3 DEF sys_sem_wait, Fail, schedVars
<1>4. CASE SemWaitRest
  BY <1>1, <1>4 DEF SemWaitRest, SemWaitResume, schedVars
<1>5. CASE SemSignalCall
  <2>1. PICK n \in SemArg : sys_sem_signal(n)
    BY <1>5 DEF SemSignalCall
  <2>2. CASE queue' = queue
    BY <1>1, <2>2
  <2>3. CASE /\ SemInUse(n) /\ ~list_empty(queue, n)
             /\ queue' = list_add_tail(list_del(queue, n), readyqueue,
                                       list_first(queue, n))
    BY <2>3, TurnMadeReady, QueueHeads DEF SemInUse, list_empty, list_first
  <2> QED
    BY <2>1, <2>2, <2>3 DEF sys_sem_signal, Fail, schedVars
<1>6. CASE SemDestroyCall
  <2>1. PICK n \in SemArg : sys_sem_destroy(n)
    BY <1>6 DEF SemDestroyCall
  <2>2. CASE queue' = queue
    BY <1>1, <2>2
  <2>3. CASE n \in Sem /\ DestroySem(n)
    BY <2>3, TurnDestroy
  <2> QED
    BY <2>1, <2>2, <2>3 DEF sys_sem_destroy, SemInUse, Fail, schedVars
<1> QED
  BY <1>2, <1>3, <1>4, <1>5, <1>6

LEMMA TurnRead == ASSUME IInv, ReadCall \/ ReadRest PROVE ServedInTurn
<1>1. CASE queue' = queue
  BY <1>1, TurnKept
<1>2. ASSUME NEW i, NEW count, ReadLoop(current, i, count) PROVE ServedInTurn
  <2>1. \/ queue' = queue
        \/ sched_next_rr(list_add(queue, keyboardqueue, current),
                         [state EXCEPT ![current] = ST_BLOCKED], left_ticks)
    BY <1>2 DEF ReadLoop, CopyAll, CopySome, BlockReader, schedVars
  <2> QED
    BY <1>1, <2>1, TurnQueued, QueueHeads
<1>3. CASE ReadCall
  <2>1. PICK fd \in {0, 1}, buffer \in ReadBuffer, count \in {-1} \cup ReadCounts :
             sys_read(fd, buffer, count)
    BY <1>3 DEF ReadCall
  <2>2. \/ queue' = queue
        \/ sched_next_rr(list_add_tail(queue, keyboardqueue, current),
                         [state EXCEPT ![current] = QueuedState(keyboardqueue)],
                         left_ticks)
        \/ ReadLoop(current, 0, count)
    BY <2>1, EnqueueRunning DEF sys_read, schedVars
  <2> QED
    BY <1>1, <1>2, <2>2, TurnQueued, QueueHeads
<1>4. CASE ReadRest
  BY <1>1, <1>2, <1>4 DEF ReadRest, ReadLoopResume, ReadReturn, schedVars
<1> QED
  BY <1>3, <1>4

LEMMA TurnProcess ==
    ASSUME IInv, ForkCall \/ CloneCall \/ ExitCall \/ ExitRest PROVE ServedInTurn
<1>1. CASE queue'[readyqueue] = queue[readyqueue]
  BY <1>1, TurnKept
<1>2. CASE ForkCall \/ CloneCall
  <2>1. \/ queue' = queue
        \/ /\ queue[freequeue] # <<>>
           /\ \/ NewTask(Head(queue[freequeue]))
              \/ ForkOutOfMemory(Head(queue[freequeue]))
    BY <1>2 DEF ForkCall, CloneCall, sys_fork, sys_clone, list_empty, list_first,
                Fail, schedVars
  <2>2. CASE queue[freequeue] # <<>> /\ NewTask(Head(queue[freequeue]))
    BY <2>2, TurnMadeReady, QueueHeads DEF NewTask
  <2>3. CASE queue[freequeue] # <<>> /\ ForkOutOfMemory(Head(queue[freequeue]))
    BY <1>1, <2>3, FreeHead, QueueHeads DEF ForkOutOfMemory
  <2> QED
    BY <1>1, <2>1, <2>2, <2>3
<1>3. CASE ExitCall
  BY <1>1, <1>3 DEF ExitCall, sys_exit, schedVars
<1>4. CASE ExitSem
  <2>1. exit_i \in Sem
    BY <1>4, SchedAssumption DEF ExitSem, IInv, DataOK, Sem
  <2> QED
    BY <1>1, <1>4, <2>1, TurnDestroy DEF ExitSem, schedVars
<1>5. CASE ExitRelease
  BY <1>5, TurnQueued, QueueHeads DEF ExitRelease
<1> QED
  BY <1>2, <1>3, <1>4, <1>5 DEF ExitRest

LEMMA TurnStep == ASSUME IInv, [Next]_vars PROVE [ServedInTurn]_vars
<1>1. CASE SystemCall
  BY <1>1, TurnSem, TurnRead, TurnProcess DEF SystemCall
<1>2. CASE Continuation
  BY <1>2, TurnSem, TurnRead, TurnProcess DEF Continuation
<1> QED
  BY <1>1, <1>2, TurnClock, TurnKeyboard DEF Next

\* list_add_tail, the splice of sys_sem_destroy and the wake-up that links a
\* reader at the front and dispatches it at once: none of them changes the
\* order in which the tasks that are ready get the CPU.
THEOREM ReadyServedInTurn == Spec => ReadyInTurn
BY Invariance, TurnStep, PTL DEF Spec, ReadyInTurn
=============================================================================
