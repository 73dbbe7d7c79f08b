----------------------------- MODULE ZeosProcess -----------------------------
(***************************************************************************)
(* Process management of sys.c: sys_fork, sys_clone and sys_exit, as they  *)
(* move PCBs between the free list and the scheduler.  Whether fork gets   *)
(* its physical pages is a parameter here.                                 *)
(***************************************************************************)
EXTENDS ZeosSemaphore

VARIABLES
    global_PID,  \* next PID to give
    exit_i       \* loop variable i of the sys_exit in progress

procVars == <<global_PID, exit_i>>

----------------------------------------------------------------------------
\* The common tail of sys_fork and sys_clone: the new task, a copy of the
\* running one (copy_data of the whole task_union), gets a PID and goes to
\* the end of the ready queue.  ret_from_fork makes it return 0.
NewTask(child) ==
    /\ PID' = [PID EXCEPT ![child] = global_PID]
    /\ global_PID' = global_PID + 1
    /\ semdestroyed' = [semdestroyed EXCEPT ![child] = semdestroyed[current]]
    /\ kont' = [kont EXCEPT ![child] = "user"]
    /\ queue' = list_add_tail(list_del(queue, freequeue), readyqueue, child)
    /\ state' = [state EXCEPT ![child] = ST_READY]
    /\ Return(global_PID)
    /\ UNCHANGED <<current, left_ticks>>

\* fork() without a page for each data and heap page of the parent: the PCB
\* has already been taken off the free list and overwritten with the
\* parent's, and stays so.
ForkOutOfMemory(child) ==
    /\ PID' = [PID EXCEPT ![child] = PID[current]]
    /\ semdestroyed' = [semdestroyed EXCEPT ![child] = semdestroyed[current]]
    /\ queue' = list_del(queue, freequeue)
    /\ state' = [state EXCEPT ![child] = state[current]]
    /\ Return(-ENOMEM)
    /\ UNCHANGED <<current, left_ticks, kont, global_PID>>

sys_fork(enoughPages) ==
    /\ InUserCode
    /\ \/ /\ list_empty(queue, freequeue)
          /\ Fail(EAGAIN)
          /\ UNCHANGED global_PID
       \/ /\ ~list_empty(queue, freequeue)
          /\ enoughPages
          /\ NewTask(list_first(queue, freequeue))
       \/ /\ ~list_empty(queue, freequeue)
          /\ ~enoughPages
          /\ ForkOutOfMemory(list_first(queue, freequeue))
    /\ UNCHANGED <<semVars, exit_i>>

\* clone(function, stack): argsOk says that both addresses are in the user
\* segments that sys_clone accepts.
sys_clone(argsOk) ==
    /\ InUserCode
    /\ \/ /\ list_empty(queue, freequeue)
          /\ Fail(EAGAIN)
          /\ UNCHANGED global_PID
       \/ /\ ~list_empty(queue, freequeue)
          /\ ~argsOk
          /\ Fail(EINVAL)
          /\ UNCHANGED global_PID
       \/ /\ ~list_empty(queue, freequeue)
          /\ argsOk
          /\ NewTask(list_first(queue, freequeue))
    /\ UNCHANGED <<semVars, exit_i>>

----------------------------------------------------------------------------
\* exit(): the loop over sem_array, one semaphore a step (no interrupt can
\* come between), then the PCB goes to the free list and the CPU to the next
\* task.  The fault: the loop starts at the second semaphore.
sys_exit_fault ==
    /\ InUserCode
    /\ kont' = [kont EXCEPT ![current] = "exit"]
    /\ exit_i' = 1
    /\ Return(NO_RETURN)
    /\ UNCHANGED <<schedVars, PID, semdestroyed, semVars, global_PID>>

sys_exit ==
    /\ InUserCode
    /\ kont' = [kont EXCEPT ![current] = "exit"]
    /\ exit_i' = 0
    /\ Return(NO_RETURN)
    /\ UNCHANGED <<schedVars, PID, semdestroyed, semVars, global_PID>>

ExitSem ==
    /\ kont[current] = "exit"
    /\ exit_i < NumSem
    /\ exit_i' = exit_i + 1
    /\ \/ /\ owner_pid[exit_i] = PID[current]
          /\ DestroySem(exit_i)
       \/ /\ owner_pid[exit_i] # PID[current]
          /\ UNCHANGED <<schedVars, PID, semdestroyed, semVars>>
    /\ Return(NO_RETURN)
    /\ UNCHANGED <<kont, global_PID>>

\* The fault: the PCB is not linked on the free list.
ExitRelease_fault ==
    /\ kont[current] = "exit"
    /\ exit_i = NumSem
    /\ exit_i' = 0
    /\ PID' = [PID EXCEPT ![current] = -1]
    /\ kont' = [kont EXCEPT ![current] = "dead"]
    /\ sched_next_rr(queue, state, left_ticks)
    /\ Return(NO_RETURN)
    /\ UNCHANGED <<semdestroyed, semVars, global_PID>>

ExitRelease ==
    /\ kont[current] = "exit"
    /\ exit_i = NumSem
    /\ exit_i' = 0
    /\ PID' = [PID EXCEPT ![current] = -1]
    /\ kont' = [kont EXCEPT ![current] = "dead"]
    /\ sched_next_rr(list_add_tail(queue, freequeue, current), state, left_ticks)
    /\ Return(NO_RETURN)
    /\ UNCHANGED <<semdestroyed, semVars, global_PID>>

\* The fault: the first child gets task1's PID.
ProcessInit_fault ==
    /\ global_PID = 1
    /\ exit_i = 0

ProcessInit ==
    /\ global_PID = 2
    /\ exit_i = 0
=============================================================================
