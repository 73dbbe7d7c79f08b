---------------------------- MODULE ZeosSemaphore ----------------------------
(***************************************************************************)
(* The counting semaphores of sys.c: sem_array and its four system calls.  *)
(* A semaphore belongs to the process that initialised it (by PID, -1 for  *)
(* a free entry); destroying it wakes every waiter with an error, through  *)
(* the semdestroyed flag of the waiter's PCB.                              *)
(***************************************************************************)
EXTENDS ZeosSched

CONSTANTS
    IntMax,     \* largest value of the signed counter (2^31 - 1)
    SemValues   \* unsigned values given to sem_init

ASSUME SemAssumption ==
    /\ IntMax \in Nat
    /\ SemValues \subseteq 0 .. 2 * IntMax + 1

VARIABLES
    sem_counter,  \* sem_array[n].counter, a signed int
    owner_pid     \* sem_array[n].owner_pid

semVars == <<sem_counter, owner_pid>>

\* Semaphore numbers a program may pass, with one invalid number at each end.
SemArg == -1 .. NumSem

\* The fault: owner_pid is not looked at.
SemInUse_fault(n) == n \in Sem
SemInUse(n) == n \in Sem /\ owner_pid[n] # -1

\* Conversion of an unsigned argument to the signed counter, and ++counter.
ToInt(value)  == IF value > IntMax THEN value - 2 * IntMax - 2 ELSE value
Increment(c)  == IF c = IntMax THEN -IntMax - 1 ELSE c + 1

\* A system call that returns an error before it changes anything.
Fail(errno) ==
    /\ Return(-errno)
    /\ UNCHANGED <<schedVars, taskVars, semVars>>

----------------------------------------------------------------------------
sys_sem_init(n, value) ==
    /\ InUserCode
    /\ \/ n \notin Sem /\ Fail(EINVAL)
       \/ SemInUse(n) /\ Fail(EBUSY)
       \/ /\ n \in Sem
          /\ owner_pid[n] = -1
          /\ sem_counter' = [sem_counter EXCEPT ![n] = ToInt(value)]
          /\ queue' = [queue EXCEPT ![n] = <<>>]
          /\ owner_pid' = [owner_pid EXCEPT ![n] = PID[current]]
          /\ Return(0)
          /\ UNCHANGED <<current, state, left_ticks, taskVars>>

\* The tail of sys_sem_wait: a waiter whose semaphore was destroyed returns
\* an error and clears its flag.  The fault: the flag stays up.
SemWaitTail_fault(t) ==
    /\ UNCHANGED semdestroyed
    /\ Return(IF semdestroyed[t] THEN -EINVAL ELSE 0)
SemWaitTail(t) ==
    /\ semdestroyed' = [semdestroyed EXCEPT ![t] = FALSE]
    /\ Return(IF semdestroyed[t] THEN -EINVAL ELSE 0)

sys_sem_wait(n) ==
    /\ InUserCode
    /\ \/ ~SemInUse(n) /\ Fail(EINVAL)
       \/ /\ SemInUse(n)
          /\ sem_counter[n] <= 0
          /\ kont' = [kont EXCEPT ![current] = "semwait"]
          /\ sched_next_rr(list_add_tail(queue, n, current),
                           [state EXCEPT ![current] = ST_BLOCKED],
                           left_ticks)
          /\ Return(NO_RETURN)
          /\ UNCHANGED <<PID, semdestroyed, semVars>>
       \/ /\ SemInUse(n)
          /\ sem_counter[n] > 0
          /\ sem_counter' = [sem_counter EXCEPT ![n] = @ - 1]
          /\ SemWaitTail(current)
          /\ UNCHANGED <<schedVars, PID, kont, owner_pid>>

\* A task that blocked in sys_sem_wait is dispatched again.
SemWaitResume ==
    /\ kont[current] = "semwait"
    /\ kont' = [kont EXCEPT ![current] = "user"]
    /\ SemWaitTail(current)
    /\ UNCHANGED <<schedVars, PID, semVars>>

sys_sem_signal(n) ==
    /\ InUserCode
    /\ \/ ~SemInUse(n) /\ Fail(EINVAL)
       \/ /\ SemInUse(n)
          /\ list_empty(queue, n)
          /\ sem_counter' = [sem_counter EXCEPT ![n] = Increment(@)]
          /\ Return(0)
          /\ UNCHANGED <<schedVars, taskVars, owner_pid>>
       \/ /\ SemInUse(n)
          /\ ~list_empty(queue, n)
          /\ LET thread_task == list_first(queue, n) IN
             /\ state' = [state EXCEPT ![thread_task] = ST_READY]
             /\ queue' = list_add_tail(list_del(queue, n), readyqueue, thread_task)
          /\ Return(0)
          /\ UNCHANGED <<current, left_ticks, taskVars, semVars>>

\* The loop of sys_sem_destroy: every waiter is flagged and made ready, in
\* the order in which they blocked.
Waiters(n) == Range(queue[n])

DestroySem(n) ==
    /\ queue' = list_move_all(queue, n, readyqueue)
    /\ state' = [t \in Task |-> IF t \in Waiters(n) THEN ST_READY ELSE state[t]]
    /\ semdestroyed' = [t \in Task |-> IF t \in Waiters(n) THEN TRUE
                                                          ELSE semdestroyed[t]]
    /\ owner_pid' = [owner_pid EXCEPT ![n] = -1]
    /\ UNCHANGED <<current, left_ticks, PID, sem_counter>>

sys_sem_destroy(n) ==
    /\ InUserCode
    /\ \/ ~SemInUse(n) /\ Fail(EINVAL)
       \/ /\ SemInUse(n)
          /\ owner_pid[n] # PID[current]
          /\ Fail(EPERM)
       \/ /\ SemInUse(n)
          /\ owner_pid[n] = PID[current]
          /\ DestroySem(n)
          /\ Return(0)
          /\ UNCHANGED kont

SemInit ==
    /\ sem_counter = [n \in Sem |-> 0]
    /\ owner_pid = [n \in Sem |-> -1]
=============================================================================
