------------------------------ MODULE ZeosSched ------------------------------
(***************************************************************************)
(* The round-robin scheduler of ZeOS (sched.c, list.c, the clock interrupt *)
(* of interrupt.c): the task array, the lists a PCB can be linked on, and  *)
(* the task switch.  The other kernel modules extend this one.             *)
(*                                                                         *)
(* Interrupts are masked while kernel code runs (SYSENTER and interrupt    *)
(* gates clear IF), so a handler is one step up to the point where it      *)
(* calls task_switch.  What the task that was switched away still has to   *)
(* do when it is dispatched again is its continuation, kont.               *)
(***************************************************************************)
EXTENDS Integers, ListOps, Functions

CONSTANTS
    NR_TASKS,   \* entries of the task array (10 in the code)
    NumSem,     \* entries of sem_array (20)
    Quantum,    \* quantum of every task, in clock ticks (50)
    TickMax     \* largest value of the unsigned left_ticks (2^32 - 1)

ASSUME SchedAssumption ==
    /\ NR_TASKS \in Nat /\ NR_TASKS >= 2
    /\ NumSem \in Nat
    /\ Quantum \in Nat \ {0}
    /\ TickMax \in Nat /\ TickMax > Quantum

Task      == 0 .. NR_TASKS - 1
idle_task == 0
task1     == 1

Sem           == 0 .. NumSem - 1
freequeue     == -1
readyqueue    == -2
keyboardqueue == -3
\* The heads of the kernel's lists: Sem stands for sem_array[n].blocked.
Queue         == Sem \cup {freequeue, readyqueue, keyboardqueue}

ST_RUN     == "run"
ST_READY   == "ready"
ST_BLOCKED == "blocked"

\* Where a task resumes: user code (idle: its loop), after the task_switch of
\* sys_sem_wait, in the loop of sys_read_keyboard, at the early return of
\* sys_read_keyboard, in sys_exit, or nowhere (a PCB that is no task).
Kont == {"user", "semwait", "readloop", "readret", "exit", "dead"}

VARIABLES
    queue,       \* the lists, each a sequence of the tasks linked on it
    current,     \* the task whose kernel stack %esp points into
    state,       \* task_struct.state
    PID,         \* task_struct.PID
    semdestroyed,\* task_struct.semdestroyed
    kont,        \* what is left on the task's kernel stack
    left_ticks,  \* ticks left of the running task's quantum, unsigned
    eax          \* value the last step returned to user mode, if it did

schedVars == <<queue, current, state, left_ticks>>
taskVars  == <<PID, semdestroyed, kont>>

----------------------------------------------------------------------------
(* Values in eax.  PIDs are not negative, error codes are -errno.          *)
EPERM  == 1
EAGAIN == 11
ENOMEM == 12
EBUSY  == 16
EINVAL == 22
NO_RETURN == -1000     \* the step does not complete a system call

Return(value) == eax' = value

----------------------------------------------------------------------------
(* Definitions named ..._fault are what-if variants: the operator after    *)
(* them with a plausible bug in it, which the properties are shown to      *)
(* detect.                                                                 *)

\* update_process_state_rr(t, dst): t is unlinked from where it is, unless
\* its state says that it runs, and queued.
Enqueue(q, t, dst) ==
    list_add_tail(IF state[t] # ST_RUN THEN list_unlink(q, t) ELSE q, dst, t)
\* The fault: ST_READY whatever the list.
QueuedState_fault(dst) == ST_READY
QueuedState(dst)   == IF dst = readyqueue THEN ST_READY ELSE ST_BLOCKED

\* update_process_state_rr(next, NULL) for the first of the ready queue: it
\* is unlinked unless its state says that it runs.  The fault: its state has
\* been set before.
Dequeue_fault(q, st) == q
Dequeue(q, st) ==
    IF st[list_first(q, readyqueue)] # ST_RUN THEN list_del(q, readyqueue)
                                              ELSE q

\* The fault: the new task is dispatched with its old state and with what
\* the previous one left of its quantum.
sched_next_rr_fault(q, st, left) ==
    /\ state' = st
    /\ left_ticks' = left
    /\ \/ /\ list_empty(q, readyqueue)
          /\ current' = idle_task
          /\ queue' = q
       \/ /\ ~list_empty(q, readyqueue)
          /\ current' = list_first(q, readyqueue)
          /\ queue' = Dequeue(q, st)

\* Switch to the first ready task, with a new quantum, or to idle, with
\* what is left of the old one.  q, st and left are the lists, the states
\* and left_ticks as the caller has updated them.
sched_next_rr(q, st, left) ==
    \/ /\ list_empty(q, readyqueue)
       /\ current' = idle_task
       /\ queue' = q
       /\ state' = st
       /\ left_ticks' = left
    \/ /\ ~list_empty(q, readyqueue)
       /\ current' = list_first(q, readyqueue)
       /\ queue' = Dequeue(q, st)
       /\ state' = [st EXCEPT ![list_first(q, readyqueue)] = ST_RUN]
       /\ left_ticks' = Quantum

----------------------------------------------------------------------------
\* The CPU executes with interrupts enabled: user code, or the idle loop.
InterruptsOn == kont[current] = "user"

\* A user process, never the idle loop, can make a system call.
InUserCode == kont[current] = "user" /\ current # idle_task

\* --left_ticks on an unsigned int.
update_sched_data_rr == IF left_ticks = 0 THEN TickMax ELSE left_ticks - 1

\* The clock interrupt: account a tick and, at the end of the quantum, put
\* the running task at the end of the ready queue and switch.
clk_routine ==
    /\ InterruptsOn
    /\ LET left == update_sched_data_rr IN
       \/ /\ left # 0
          /\ left_ticks' = left
          /\ UNCHANGED <<queue, current, state>>
       \/ /\ left = 0
          /\ current # idle_task
          /\ sched_next_rr(Enqueue(queue, current, readyqueue),
                           [state EXCEPT ![current] = QueuedState(readyqueue)],
                           left)
       \/ /\ left = 0
          /\ current = idle_task
          /\ sched_next_rr(queue, state, left)
    /\ Return(NO_RETURN)
    /\ UNCHANGED taskVars

----------------------------------------------------------------------------
\* The scheduler's state when main enters user mode: init_freequeue links
\* every PCB, init_idle and init_task1 take the first two.  The PCBs are
\* zeroed at boot, hence ST_RUN (0) also for idle and for the free ones.
SchedInit ==
    /\ queue = [q \in Queue |->
                  IF q = freequeue THEN [i \in 1 .. NR_TASKS - 2 |-> i + 1]
                                   ELSE <<>>]
    /\ current = task1
    /\ state = [t \in Task |-> ST_RUN]
    /\ PID = [t \in Task |-> IF t = idle_task THEN 0
                             ELSE IF t = task1 THEN 1 ELSE -1]
    /\ semdestroyed = [t \in Task |-> FALSE]
    /\ kont = [t \in Task |-> IF t \in {idle_task, task1} THEN "user"
                                                          ELSE "dead"]
    /\ left_ticks = Quantum
    /\ eax = NO_RETURN
=============================================================================
