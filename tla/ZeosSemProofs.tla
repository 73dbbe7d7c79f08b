----------------------------- MODULE ZeosSemProofs -----------------------------
(***************************************************************************)
(* The proof that the kernel implements CountingSemaphores, step by step:  *)
(* what a step does to the lists, states and flags of the PCBs is one      *)
(* abstract action, or none at all.                                        *)
(***************************************************************************)
EXTENDS ZeosProcessProofs, ZeosSemRefinement

\* What holds before every step.
RefInv == IInv /\ DestroyedIsPending /\ UniquePids

LEMMA RefFacts ==
    ASSUME RefInv
    PROVE  /\ current \in Task /\ kont \in [Task -> Kont] /\ state \in [Task -> States]
           /\ semdestroyed \in [Task -> BOOLEAN]
           /\ owner_pid \in [Sem -> Int]
           /\ sem_counter \in [Sem -> -IntMax - 1 .. IntMax]
           /\ state[current] = ST_RUN /\ PID[current] >= 0
           /\ queue \in [Queue -> Seq(Task)] /\ ListsOK(queue)
           /\ OnNoList(queue, current)
           /\ \A t \in Range(queue[readyqueue]) : state[t] = ST_READY
           /\ \A n \in Sem : \A t \in Range(queue[n]) :
                 state[t] = ST_BLOCKED /\ kont[t] = "semwait"
BY DEF RefInv, IInv, Between, DataOK, CpuOK, ListsOK, OnReady, OffReady, UniquePids, Live

\* A step that changes none of the semaphores' state.
LEMMA Stutter ==
    ASSUME UNCHANGED semVars, \A s \in Sem : queue'[s] = queue[s],
           \A t \in Task :
              /\ kont'[t] = "semwait" <=> kont[t] = "semwait"
              /\ kont[t] = "semwait" =>
                    /\ semdestroyed'[t] = semdestroyed[t]
                    /\ state'[t] = ST_BLOCKED <=> state[t] = ST_BLOCKED
    PROVE  UNCHANGED Sems!avars
<1>1. Outcome' = Outcome
  BY DEF Outcome
<1>2. [s \in Sem |-> queue[s]]' = [s \in Sem |-> queue[s]]
  OBVIOUS
<1> QED
  BY <1>1, <1>2 DEF Sems!avars, semVars

\* A switch makes nobody wait and ends nobody's wait.
LEMMA SwitchStates ==
    ASSUME NEW q, NEW st, NEW left, ListsOK(q), st \in [Task -> States],
           sched_next_rr(q, st, left),
           q[readyqueue] # <<>> => st[Head(q[readyqueue])] # ST_BLOCKED
    PROVE  /\ \A t \in Task : state'[t] = ST_BLOCKED <=> st[t] = ST_BLOCKED
           /\ \A s \in Sem : queue'[s] = q[s]
<1>1. CASE list_empty(q, readyqueue) /\ queue' = q /\ state' = st
  BY <1>1
<1>2. CASE /\ ~list_empty(q, readyqueue)
           /\ queue' = Dequeue(q, st)
           /\ state' = [st EXCEPT ![list_first(q, readyqueue)] = ST_RUN]
  <2>1. q[readyqueue] # <<>>
    BY <1>2 DEF list_empty
  <2>2. /\ Head(q[readyqueue]) \in Task
        /\ \A s \in Sem : list_del(q, readyqueue)[s] = q[s]
    BY <2>1, DelFirst, QueueHeads
  <2>3. \A s \in Sem : queue'[s] = q[s]
    BY <1>2, <2>2 DEF Dequeue
  <2>4. \A t \in Task : state'[t] = ST_BLOCKED <=> st[t] = ST_BLOCKED
    BY <1>2, <2>1, <2>2 DEF list_first, ST_RUN, ST_BLOCKED
  <2> QED
    BY <2>3, <2>4
<1> QED
  BY <1>1, <1>2 DEF sched_next_rr

LEMMA RefEnqueue ==
    ASSUME RefInv
    PROVE  \A q, dst : Enqueue(q, current, dst) = list_add_tail(q, dst, current)
BY EnqueueRunning DEF RefInv

\* A switch from a task outside sys_sem_wait, which goes to another list.
LEMMA SwitchStutters ==
    ASSUME RefInv, UNCHANGED semVars, UNCHANGED semdestroyed,
           kont[current] # "semwait", kont'[current] # "semwait",
           \A t \in Task \ {current} : kont'[t] = kont[t],
           NEW dst \in {readyqueue, keyboardqueue, freequeue}, NEW r,
           r = list_add_tail(queue, dst, current) \/ r = list_add(queue, dst, current),
           NEW st \in [Task -> States], NEW left,
           \A t \in Task \ {current} : st[t] = state[t],
           dst = readyqueue => st[current] = ST_READY,
           sched_next_rr(r, st, left)
    PROVE  UNCHANGED Sems!avars
<1>1. dst \in Queue /\ \A s \in Sem : s \in Queue /\ s # dst
  BY QueueHeads
<1>2. /\ ListsOK(r)
      /\ Range(r[dst]) = Range(queue[dst]) \cup {current}
      /\ \A x \in Queue : x # dst => r[x] = queue[x]
  BY <1>1, QueuedLists DEF RefInv
<1>3. ASSUME r[readyqueue] # <<>> PROVE st[Head(r[readyqueue])] # ST_BLOCKED
  <2>1. Head(r[readyqueue]) \in Range(r[readyqueue]) /\ Head(r[readyqueue]) \in Task
    BY <1>2, <1>3, DelFirst, QueueHeads
  <2>2. CASE dst = readyqueue /\ Head(r[readyqueue]) = current
    BY <2>2 DEF ST_READY, ST_BLOCKED
  <2>3. CASE Head(r[readyqueue]) # current
    <3>1. Head(r[readyqueue]) \in Range(queue[readyqueue])
      BY <1>2, <2>1, <2>3, QueueHeads
    <3> QED
      BY <2>1, <2>3, <3>1, RefFacts DEF ST_READY, ST_BLOCKED
  <2>4. CASE dst # readyqueue /\ Head(r[readyqueue]) = current
    BY <1>2, <2>1, <2>4, RefFacts, QueueHeads DEF OnNoList
  <2> QED
    BY <2>2, <2>3, <2>4
<1>4. /\ \A t \in Task : state'[t] = ST_BLOCKED <=> st[t] = ST_BLOCKED
      /\ \A s \in Sem : queue'[s] = r[s]
  BY <1>2, <1>3, SwitchStates
<1>5. \A s \in Sem : queue'[s] = queue[s]
  BY <1>1, <1>2, <1>4
<1> QED
  BY <1>4, <1>5, Stutter

LEMMA RefClock == ASSUME RefInv, Clock PROVE UNCHANGED Sems!avars
<1>1. /\ kont[current] = "user" /\ UNCHANGED <<semVars, taskVars>>
  BY DEF Clock, clk_routine, InterruptsOn
<1>2. PICK left : left = update_sched_data_rr
  OBVIOUS
<1>3. CASE UNCHANGED <<queue, state>>
  BY <1>1, <1>3, Stutter DEF taskVars
<1>4. CASE sched_next_rr(list_add_tail(queue, readyqueue, current),
                         [state EXCEPT ![current] = ST_READY], left)
  <2>1. /\ [state EXCEPT ![current] = ST_READY] \in [Task -> States]
        /\ [state EXCEPT ![current] = ST_READY][current] = ST_READY
        /\ \A t \in Task \ {current} : [state EXCEPT ![current] = ST_READY][t] = state[t]
    BY RefFacts DEF States
  <2> QED
    BY <1>1, <1>4, <2>1, SwitchStutters DEF taskVars
<1>5. CASE sched_next_rr(queue, state, left)
  <2>1. queue[readyqueue] # <<>> => state[Head(queue[readyqueue])] # ST_BLOCKED
    BY RefFacts, DelFirst, QueueHeads DEF ST_READY, ST_BLOCKED
  <2>2. /\ \A t \in Task : state'[t] = ST_BLOCKED <=> state[t] = ST_BLOCKED
        /\ \A s \in Sem : queue'[s] = queue[s]
    BY <1>5, <2>1, RefFacts, SwitchStates
  <2> QED
    BY <1>1, <2>2, Stutter DEF taskVars
<1> QED
  BY <1>2, <1>3, <1>4, <1>5, RefEnqueue DEF Clock, clk_routine, QueuedState

LEMMA RefKeyboard == ASSUME RefInv, Keyboard PROVE UNCHANGED Sems!avars
<1> DEFINE h  == Head(queue[keyboardqueue])
           r  == list_add_tail(list_add(list_del(queue, keyboardqueue), readyqueue, h),
                               readyqueue, current)
           st == [state EXCEPT ![h] = ST_READY, ![current] = ST_READY]
<1>1. /\ kont[current] = "user" /\ UNCHANGED <<semVars, taskVars>>
      /\ queue[keyboardqueue] # <<>>
  BY DEF Keyboard, keyboard_routine, InterruptsOn, list_empty
<1>2. CASE UNCHANGED schedVars
  BY <1>1, <1>2, Stutter DEF taskVars, schedVars
<1>3. CASE ~UNCHANGED schedVars
  <2>1. PICK left : sched_next_rr(r, st, left)
    BY <1>3, RefEnqueue DEF Keyboard, keyboard_routine, QueuedState, list_first
  <2>2. /\ h \in Task /\ h \in Range(queue[keyboardqueue])
        /\ ListsOK(r) /\ Head(r[readyqueue]) = h
    BY <1>1, WokenLists DEF RefInv
  <2>3. \A x \in Queue \ {readyqueue, keyboardqueue} : r[x] = queue[x]
    BY RefFacts, QueueHeads DEF list_add_tail, list_add, list_del
  <2>4. kont[h] # "semwait"
    <3>1. \A t \in Range(queue[keyboardqueue]) : kont[t] \in {"readloop", "readret"}
      BY DEF RefInv, IInv, Between, OffReady
    <3> QED
      BY <2>2, <3>1
  <2>5. /\ st \in [Task -> States] /\ st[h] = ST_READY
        /\ \A t \in Task : t # h /\ t # current => st[t] = state[t]
    BY <2>2, RefFacts DEF States
  <2> HIDE DEF h, r, st
  <2>6. /\ \A t \in Task : state'[t] = ST_BLOCKED <=> st[t] = ST_BLOCKED
        /\ \A s \in Sem : queue'[s] = r[s]
    BY <2>1, <2>2, <2>5, SwitchStates DEF ST_READY, ST_BLOCKED
  <2>7. \A s \in Sem : queue'[s] = queue[s]
    BY <2>3, <2>6, QueueHeads
  <2> QED
    BY <1>1, <2>4, <2>5, <2>6, <2>7, Stutter DEF taskVars
<1> QED
  BY <1>2, <1>3

LEMMA RefRead == ASSUME RefInv, ReadCall \/ ReadRest PROVE UNCHANGED Sems!avars
<1>1. /\ kont[current] \in {"user", "readloop", "readret"}
      /\ UNCHANGED <<semVars, semdestroyed>>
  BY DEF ReadCall, sys_read, InUserCode, ReadRest, ReadLoopResume, ReadReturn
<1>2. \/ kont' = kont
      \/ \E k \in {"user", "readloop", "readret"} : kont' = [kont EXCEPT ![current] = k]
  BY DEF ReadCall, sys_read, ReadRest, ReadLoopResume, ReadReturn, ReadLoop, CopyAll,
         CopySome, BlockReader
<1>3. /\ kont'[current] # "semwait"
      /\ \A t \in Task \ {current} : kont'[t] = kont[t]
  BY <1>1, <1>2, RefFacts
<1>4. \/ UNCHANGED schedVars
      \/ \E st, left, r :
            /\ st = [state EXCEPT ![current] = ST_BLOCKED]
            /\ sched_next_rr(r, st, left)
            /\ \/ r = list_add_tail(queue, keyboardqueue, current)
               \/ r = list_add(queue, keyboardqueue, current)
  <2>1. QueuedState(keyboardqueue) = ST_BLOCKED
    BY QueueHeads DEF QueuedState
  <2> QED
    BY <2>1, RefEnqueue
       DEF ReadCall, sys_read, ReadRest, ReadLoopResume, ReadReturn, ReadLoop,
           CopyAll, CopySome, BlockReader
<1>5. CASE UNCHANGED schedVars
  BY <1>1, <1>3, <1>5, Stutter DEF schedVars
<1>6. ASSUME NEW st, NEW left, NEW r,
             st = [state EXCEPT ![current] = ST_BLOCKED],
             sched_next_rr(r, st, left),
             \/ r = list_add_tail(queue, keyboardqueue, current)
             \/ r = list_add(queue, keyboardqueue, current)
      PROVE  UNCHANGED Sems!avars
  <2>1. /\ st \in [Task -> States]
        /\ \A t \in Task \ {current} : st[t] = state[t]
    BY <1>6, RefFacts DEF States
  <2>2. keyboardqueue # readyqueue
    BY QueueHeads
  <2> QED
    BY <1>1, <1>3, <1>6, <2>1, <2>2, SwitchStutters
<1> QED
  BY <1>4, <1>5, <1>6

----------------------------------------------------------------------------
(* The steps that the abstract semaphores see.                             *)

LEMMA RefSemInit ==
    ASSUME RefInv, SemInitCall PROVE [Sems!SemsNext]_(Sems!avars)
<1>1. PICK n \in SemArg, value \in SemValues : sys_sem_init(n, value)
  BY DEF SemInitCall
<1>2. CASE Fail(EINVAL) \/ Fail(EBUSY)
  BY <1>2, Stutter DEF Fail, schedVars, taskVars
<1>3. CASE /\ n \in Sem
           /\ owner_pid[n] = -1
           /\ sem_counter' = [sem_counter EXCEPT ![n] = ToInt(value)]
           /\ queue' = [queue EXCEPT ![n] = <<>>]
           /\ owner_pid' = [owner_pid EXCEPT ![n] = PID[current]]
           /\ UNCHANGED <<current, state, left_ticks, taskVars>>
  <2>1. queue[n] = <<>>
    BY <1>3 DEF RefInv, IInv, WaitersConsistent
  <2>2. [s \in Sem |-> queue[s]]' = [s \in Sem |-> queue[s]]
    BY <1>3, <2>1, RefFacts
  <2>3. Outcome' = Outcome
    BY <1>3 DEF Outcome, taskVars
  <2>4. ToInt(value) \in Sems!AnyCount
    BY <1>1, SemAssumption DEF ToInt, Sems!AnyCount
  <2>5. Sems!Claim(n)
    BY <1>3, <2>1, <2>2, <2>3, <2>4 DEF Sems!Claim, Sems!InUse
  <2> QED
    BY <1>3, <2>5 DEF Sems!SemsNext
<1> QED
  BY <1>1, <1>2, <1>3 DEF sys_sem_init

LEMMA RefSemWait ==
    ASSUME RefInv, SemWaitCall PROVE [Sems!SemsNext]_(Sems!avars)
<1>1. PICK n \in SemArg : sys_sem_wait(n)
  BY DEF SemWaitCall
<1>2. kont[current] = "user"
  BY <1>1 DEF sys_sem_wait, InUserCode
<1>3. CASE Fail(EINVAL)
  BY <1>3, Stutter DEF Fail, schedVars, taskVars
<1>4. CASE /\ SemInUse(n)
           /\ sem_counter[n] <= 0
           /\ kont' = [kont EXCEPT ![current] = "semwait"]
           /\ sched_next_rr(list_add_tail(queue, n, current),
                            [state EXCEPT ![current] = ST_BLOCKED], left_ticks)
           /\ UNCHANGED <<PID, semdestroyed, semVars>>
  <2> DEFINE r  == list_add_tail(queue, n, current)
             st == [state EXCEPT ![current] = ST_BLOCKED]
  <2>1. n \in Sem /\ n \in Queue /\ owner_pid[n] # -1 /\ n # readyqueue
    BY <1>4, QueueHeads DEF SemInUse
  <2>2. ListsOK(r) /\ r[readyqueue] = queue[readyqueue]
    BY <2>1, QueuedLists, QueueHeads DEF RefInv
  <2>3. \A s \in Sem : r[s] = IF s = n THEN Append(queue[s], current) ELSE queue[s]
    BY <2>1, RefFacts, QueueHeads DEF list_add_tail
  <2>4. /\ st \in [Task -> States] /\ st[current] = ST_BLOCKED
        /\ \A t \in Task \ {current} : st[t] = state[t]
    BY RefFacts DEF States
  <2>5. sched_next_rr(r, st, left_ticks)
    BY <1>4
  <2> HIDE DEF r, st
  <2>6. ASSUME r[readyqueue] # <<>> PROVE st[Head(r[readyqueue])] # ST_BLOCKED
    <3>1. Head(r[readyqueue]) \in Range(queue[readyqueue]) /\ Head(r[readyqueue]) \in Task
      BY <2>2, <2>6, DelFirst, QueueHeads
    <3>2. current \notin Range(queue[readyqueue])
      BY RefFacts, QueueHeads DEF OnNoList
    <3> QED
      BY <2>4, <3>1, <3>2, RefFacts DEF ST_READY, ST_BLOCKED
  <2>7. /\ \A t \in Task : state'[t] = ST_BLOCKED <=> st[t] = ST_BLOCKED
        /\ \A s \in Sem : queue'[s] = r[s]
    BY <2>2, <2>4, <2>5, <2>6, SwitchStates
  <2>8. ASSUME NEW t \in Task
        PROVE  Outcome'[t] = Outcome[t]
    <3>1. CASE t = current
      <4>1. state'[t] = ST_BLOCKED /\ kont[t] # "semwait"
        BY <1>2, <2>4, <2>7, <3>1
      <4> QED
        BY <4>1 DEF Outcome
    <3>2. CASE t # current
      <4>1. /\ kont'[t] = kont[t] /\ semdestroyed'[t] = semdestroyed[t]
            /\ state'[t] = ST_BLOCKED <=> state[t] = ST_BLOCKED
        BY <1>4, <2>4, <2>7, <3>2, RefFacts
      <4> QED
        BY <4>1 DEF Outcome
    <3> QED
      BY <3>1, <3>2
  <2>9. Outcome' = Outcome
    BY <2>8 DEF Outcome
  <2>10. Outcome[current] = "none"
    BY <1>2, RefFacts DEF Outcome
  <2>11. [s \in Sem |-> queue[s]]' =
            [[s \in Sem |-> queue[s]] EXCEPT ![n] = Append(@, current)]
    BY <2>1, <2>3, <2>7
  <2>12. PICK p \in Task : p = current
    BY RefFacts
  <2>13. Sems!Wait(n, p)
    BY <1>4, <2>1, <2>9, <2>10, <2>11, <2>12 DEF Sems!Wait, Sems!InUse, semVars
  <2> QED
    BY <2>1, <2>13 DEF Sems!SemsNext
<1>5. CASE /\ SemInUse(n)
           /\ sem_counter[n] > 0
           /\ sem_counter' = [sem_counter EXCEPT ![n] = @ - 1]
           /\ SemWaitTail(current)
           /\ UNCHANGED <<schedVars, PID, kont, owner_pid>>
  <2>1. ~semdestroyed[current]
    BY <1>2, RefFacts DEF RefInv, DestroyedIsPending
  <2>2. semdestroyed' = semdestroyed /\ eax' = 0
    BY <1>5, <2>1, RefFacts DEF SemWaitTail, Return
  <2>3. Outcome' = Outcome /\ queue' = queue
    BY <1>5, <2>2 DEF Outcome, schedVars
  <2>4. Sems!Take(n)
    BY <1>5, <2>2, <2>3 DEF Sems!Take, Sems!InUse, SemInUse
  <2> QED
    BY <1>5, <2>4 DEF Sems!SemsNext, SemInUse
<1> QED
  BY <1>1, <1>3, <1>4, <1>5 DEF sys_sem_wait

LEMMA RefSemWaitRest ==
    ASSUME RefInv, SemWaitRest PROVE [Sems!SemsNext]_(Sems!avars)
<1>1. /\ kont[current] = "semwait" /\ kont' = [kont EXCEPT ![current] = "user"]
      /\ semdestroyed' = [semdestroyed EXCEPT ![current] = FALSE]
      /\ eax' = IF semdestroyed[current] THEN -EINVAL ELSE 0
      /\ UNCHANGED <<queue, state, current, owner_pid, sem_counter>>
  BY DEF SemWaitRest, SemWaitResume, SemWaitTail, Return, schedVars, semVars
<1>2. Outcome[current] = IF semdestroyed[current] THEN "destroyed" ELSE "granted"
  BY <1>1, RefFacts DEF Outcome, ST_RUN, ST_BLOCKED
<1>3. ASSUME NEW t \in Task
      PROVE  Outcome'[t] = IF t = current THEN "none" ELSE Outcome[t]
  <2>1. CASE t = current
    BY <1>1, <2>1, RefFacts DEF Outcome
  <2>2. CASE t # current
    <3>1. kont'[t] = kont[t] /\ semdestroyed'[t] = semdestroyed[t]
      BY <1>1, <2>2, RefFacts
    <3> QED
      BY <1>1, <2>2, <3>1 DEF Outcome
  <2> QED
    BY <2>1, <2>2
<1>4. Outcome' = [Outcome EXCEPT ![current] = "none"]
  BY <1>3 DEF Outcome
<1>5. eax' = IF Outcome[current] = "granted" THEN 0 ELSE -EINVAL
  BY <1>1, <1>2
<1>6. Sems!Told(current)
  BY <1>1, <1>2, <1>4, <1>5 DEF Sems!Told
<1> QED
  BY <1>6, RefFacts DEF Sems!SemsNext

LEMMA RefSemSignal ==
    ASSUME RefInv, SemSignalCall PROVE [Sems!SemsNext]_(Sems!avars)
<1>1. PICK n \in SemArg : sys_sem_signal(n)
  BY DEF SemSignalCall
<1>2. CASE Fail(EINVAL)
  BY <1>2, Stutter DEF Fail, schedVars, taskVars
<1>3. CASE /\ SemInUse(n)
           /\ list_empty(queue, n)
           /\ sem_counter' = [sem_counter EXCEPT ![n] = Increment(@)]
           /\ UNCHANGED <<schedVars, taskVars, owner_pid>>
  <2>1. n \in Sem /\ owner_pid[n] # -1 /\ queue[n] = <<>>
    BY <1>3 DEF SemInUse, list_empty
  <2>2. sem_counter[n] \in Int /\ sem_counter[n] <= IntMax
    BY <2>1, RefFacts, SemAssumption
  <2>3. \/ sem_counter[n] < IntMax /\ Increment(sem_counter[n]) = sem_counter[n] + 1
        \/ sem_counter[n] = IntMax /\ Increment(sem_counter[n]) \in Sems!AnyCount
    BY <2>2, SemAssumption DEF Increment, Sems!AnyCount
  <2>4. Outcome' = Outcome /\ queue' = queue /\ owner_pid' = owner_pid
    BY <1>3 DEF Outcome, schedVars, taskVars
  <2>5. Sems!Keep(n)
    BY <1>3, <2>1, <2>3, <2>4 DEF Sems!Keep, Sems!InUse
  <2> QED
    BY <2>1, <2>5 DEF Sems!SemsNext
<1>4. CASE /\ SemInUse(n)
           /\ ~list_empty(queue, n)
           /\ state' = [state EXCEPT ![list_first(queue, n)] = ST_READY]
           /\ queue' = list_add_tail(list_del(queue, n), readyqueue, list_first(queue, n))
           /\ UNCHANGED <<taskVars, semVars>>
  <2> DEFINE h == Head(queue[n])
  <2>1. n \in Sem /\ n \in Queue /\ owner_pid[n] # -1 /\ queue[n] # <<>> /\ n # readyqueue
    BY <1>4, QueueHeads DEF SemInUse, list_empty
  <2>2. h \in Task /\ h \in Range(queue[n]) /\ h # current /\ h \notin Range(queue[readyqueue])
    <3>1. h \in Task /\ h \in Range(queue[n])
      BY <2>1, RefFacts, DelFirst
    <3>2. current \notin Range(queue[n])
      BY <2>1, RefFacts DEF OnNoList
    <3>3. Range(queue[n]) \cap Range(queue[readyqueue]) = {}
      BY <2>1, RefFacts, QueueHeads DEF ListsOK
    <3> HIDE DEF h
    <3> QED
      BY <3>1, <3>2, <3>3
  <2>3. kont[h] = "semwait" /\ ~semdestroyed[h]
    BY <2>1, <2>2, RefFacts DEF RefInv, DestroyedIsPending, Linked
  <2>4. \A s \in Sem : queue'[s] = IF s = n THEN Tail(queue[s]) ELSE queue[s]
    BY <1>4, <2>1, RefFacts, QueueHeads DEF list_add_tail, list_del
  <2>5. state' = [state EXCEPT ![h] = ST_READY]
    BY <1>4 DEF list_first
  <2> HIDE DEF h
  <2>6. ASSUME NEW t \in Task
        PROVE  Outcome'[t] = IF t = h THEN "granted" ELSE Outcome[t]
    <3>1. kont'[t] = kont[t] /\ semdestroyed'[t] = semdestroyed[t]
      BY <1>4 DEF taskVars
    <3>2. CASE t = h
      <4>1. state'[t] = ST_READY
        BY <2>2, <2>5, <3>2, RefFacts
      <4> QED
        BY <2>3, <3>1, <3>2, <4>1 DEF Outcome, ST_READY, ST_BLOCKED
    <3>3. CASE t # h
      <4>1. state'[t] = state[t]
        BY <2>5, <3>3, RefFacts
      <4> QED
        BY <3>1, <3>3, <4>1 DEF Outcome
    <3> QED
      BY <3>2, <3>3
  <2>7. Outcome' = [Outcome EXCEPT ![h] = "granted"]
    BY <2>6 DEF Outcome
  <2>8. [s \in Sem |-> queue[s]]' = [[s \in Sem |-> queue[s]] EXCEPT ![n] = Tail(@)]
    BY <2>1, <2>4
  <2>9. Sems!Grant(n)
    BY <1>4, <2>1, <2>7, <2>8 DEF Sems!Grant, Sems!InUse, semVars, h
  <2> QED
    BY <2>1, <2>9 DEF Sems!SemsNext
<1> QED
  BY <1>1, <1>2, <1>3, <1>4 DEF sys_sem_signal

\* The loop body that sys_sem_destroy and sys_exit share.
LEMMA RefDestroy ==
    ASSUME RefInv, NEW n \in Sem, owner_pid[n] = PID[current], DestroySem(n),
           UNCHANGED kont
    PROVE  Sems!SemsNext
<1>1. /\ n \in Queue /\ queue[n] \in Seq(Task)
      /\ \A t \in Range(queue[n]) : state[t] = ST_BLOCKED /\ kont[t] = "semwait"
  BY RefFacts, QueueHeads
<1>2. owner_pid[n] # -1
  BY RefFacts
<1>3. \A s \in Sem : queue'[s] = IF s = n THEN <<>> ELSE queue[s]
  <2>1. /\ queue'[n] = <<>>
        /\ \A s \in Queue \ {readyqueue, n} : queue'[s] = queue[s]
    BY RefFacts, Splice DEF DestroySem
  <2> QED
    BY <2>1, QueueHeads
<1>4. ASSUME NEW t \in Task
      PROVE  Outcome'[t] = IF t \in Range(queue[n]) THEN "destroyed" ELSE Outcome[t]
  <2>1. CASE t \in Range(queue[n])
    <3>1. /\ kont'[t] = "semwait" /\ state'[t] = ST_READY /\ semdestroyed'[t]
      BY <1>1, <2>1 DEF DestroySem, Waiters
    <3> QED
      BY <2>1, <3>1 DEF Outcome, ST_READY, ST_BLOCKED
  <2>2. CASE t \notin Range(queue[n])
    <3>1. kont'[t] = kont[t] /\ state'[t] = state[t] /\ semdestroyed'[t] = semdestroyed[t]
      BY <2>2 DEF DestroySem, Waiters
    <3> QED
      BY <2>2, <3>1 DEF Outcome
  <2> QED
    BY <2>1, <2>2
<1>5. ASSUME NEW t
      PROVE  t \in Range(queue[n]) <=> \E i \in 1 .. Len(queue[n]) : queue[n][i] = t
  BY <1>1 DEF Range
<1>6. Outcome' = [t \in Task |-> IF \E i \in 1 .. Len(queue[n]) : queue[n][i] = t
                                 THEN "destroyed" ELSE Outcome[t]]
  BY <1>4, <1>5 DEF Outcome
<1>7. [s \in Sem |-> queue[s]]' = [[s \in Sem |-> queue[s]] EXCEPT ![n] = <<>>]
  BY <1>3
<1>8. Sems!Destroy(n)
  BY <1>2, <1>6, <1>7 DEF Sems!Destroy, Sems!InUse, DestroySem
<1> QED
  BY <1>8 DEF Sems!SemsNext

LEMMA RefSemDestroy ==
    ASSUME RefInv, SemDestroyCall PROVE [Sems!SemsNext]_(Sems!avars)
<1>1. PICK n \in SemArg : sys_sem_destroy(n)
  BY DEF SemDestroyCall
<1>2. CASE Fail(EINVAL) \/ Fail(EPERM)
  BY <1>2, Stutter DEF Fail, schedVars, taskVars
<1>3. CASE n \in Sem /\ owner_pid[n] = PID[current] /\ DestroySem(n) /\ UNCHANGED kont
  BY <1>3, RefDestroy
<1> QED
  BY <1>1, <1>2, <1>3 DEF sys_sem_destroy, SemInUse

LEMMA RefFork ==
    ASSUME RefInv, ForkCall \/ CloneCall PROVE UNCHANGED Sems!avars
<1>1. UNCHANGED semVars /\ kont[current] = "user"
  BY DEF ForkCall, CloneCall, sys_fork, sys_clone, InUserCode
<1>2. CASE Fail(EAGAIN) \/ Fail(EINVAL)
  BY <1>1, <1>2, Stutter DEF Fail, schedVars, taskVars
<1>3. CASE /\ queue[freequeue] # <<>>
           /\ \/ NewTask(Head(queue[freequeue]))
              \/ ForkOutOfMemory(Head(queue[freequeue]))
  <2> DEFINE h == Head(queue[freequeue])
  <2>1. h \in Task /\ kont[h] = "dead"
    BY <1>3, FreeHead DEF RefInv
  <2>2. \A s \in Sem : queue'[s] = queue[s]
    BY <1>3, RefFacts, QueueHeads
       DEF NewTask, ForkOutOfMemory, list_add_tail, list_del
  <2>3. /\ kont' = kont \/ kont' = [kont EXCEPT ![h] = "user"]
        /\ \E f : semdestroyed' = [semdestroyed EXCEPT ![h] = f]
        /\ \E f : state' = [state EXCEPT ![h] = f]
    BY <1>3 DEF NewTask, ForkOutOfMemory
  <2> HIDE DEF h
  <2>4. ASSUME NEW t \in Task, t # h
        PROVE  /\ kont'[t] = kont[t] /\ semdestroyed'[t] = semdestroyed[t]
               /\ state'[t] = state[t]
    BY <2>3, <2>4, RefFacts
  <2>5. kont[h] # "semwait" /\ kont'[h] # "semwait"
    BY <2>1, <2>3, RefFacts
  <2> QED
    BY <1>1, <2>2, <2>4, <2>5, Stutter
<1> QED
  BY <1>2, <1>3 DEF ForkCall, CloneCall, sys_fork, sys_clone, list_empty, list_first

LEMMA RefExit ==
    ASSUME RefInv, ExitCall \/ ExitRest PROVE [Sems!SemsNext]_(Sems!avars)
<1>1. CASE ExitCall
  <2>1. /\ kont[current] = "user" /\ kont' = [kont EXCEPT ![current] = "exit"]
        /\ UNCHANGED <<semVars, queue, state, semdestroyed>>
    BY <1>1 DEF ExitCall, sys_exit, InUserCode, schedVars
  <2> QED
    BY <2>1, RefFacts, Stutter
<1>2. CASE ExitSem
  <2>1. exit_i \in Sem /\ UNCHANGED kont
    BY <1>2, SchedAssumption DEF ExitSem, RefInv, IInv, DataOK, Sem
  <2>2. CASE owner_pid[exit_i] = PID[current] /\ DestroySem(exit_i)
    BY <2>1, <2>2, RefDestroy
  <2>3. CASE UNCHANGED <<schedVars, PID, semdestroyed, semVars>>
    BY <2>1, <2>3, Stutter DEF schedVars
  <2> QED
    BY <1>2, <2>2, <2>3 DEF ExitSem
<1>3. CASE ExitRelease
  <2>1. /\ kont[current] = "exit" /\ kont' = [kont EXCEPT ![current] = "dead"]
        /\ UNCHANGED <<semVars, semdestroyed>>
        /\ sched_next_rr(list_add_tail(queue, freequeue, current), state, left_ticks)
    BY <1>3 DEF ExitRelease
  <2>2. kont'[current] # "semwait" /\ \A t \in Task \ {current} : kont'[t] = kont[t]
    BY <2>1, RefFacts
  <2>3. freequeue # readyqueue /\ state \in [Task -> States]
    BY RefFacts, QueueHeads
  <2> QED
    BY <2>1, <2>2, <2>3, SwitchStutters
<1> QED
  BY <1>1, <1>2, <1>3 DEF ExitRest

----------------------------------------------------------------------------
LEMMA RefStep == ASSUME RefInv, [Next]_vars PROVE [Sems!SemsNext]_(Sems!avars)
<1>1. CASE UNCHANGED vars
  BY <1>1, Stutter DEF vars, schedVars, taskVars, semVars
<1>2. CASE SystemCall
  BY <1>2, RefSemInit, RefSemWait, RefSemSignal, RefSemDestroy, RefRead, RefFork, RefExit
     DEF SystemCall
<1>3. CASE Continuation
  BY <1>3, RefSemWaitRest, RefRead, RefExit DEF Continuation
<1>4. CASE Clock \/ Keyboard
  BY <1>4, RefClock, RefKeyboard
<1> QED
  BY <1>1, <1>2, <1>3, <1>4 DEF Next

LEMMA RefInit == Init => Sems!SemsInit
<1> SUFFICES ASSUME Init PROVE Sems!SemsInit
  OBVIOUS
<1>1. /\ \A s \in Sem : s \in Queue /\ queue[s] = <<>>
      /\ \A t \in Task : kont[t] # "semwait"
  BY QueueHeads DEF Init, SchedInit
<1>2. /\ [s \in Sem |-> queue[s]] = [s \in Sem |-> <<>>]
      /\ Outcome = [t \in Task |-> "none"]
  BY <1>1 DEF Outcome
<1> QED
  BY <1>2 DEF Init, SemInit, Sems!SemsInit

\* The lists, states and semdestroyed flags of the kernel implement counting
\* semaphores with FIFO waiters and a destroy that refuses those who wait, for
\* any number of tasks and semaphores, whatever the scheduler, the keyboard
\* and fork, clone and exit do in between.
THEOREM KernelImplementsSemaphores == Spec => ImplementsSemaphores
<1>1. RefInv /\ [Next]_vars => [Sems!SemsNext]_(Sems!avars)
  BY RefStep
<1> QED
  BY <1>1, RefInit, Invariance, FlagsArePending, PidsStayUnique, PTL
     DEF Spec, ImplementsSemaphores, Sems!SemsSpec, RefInv
=============================================================================
