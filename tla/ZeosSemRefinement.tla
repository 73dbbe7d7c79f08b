-------------------------- MODULE ZeosSemRefinement --------------------------
(***************************************************************************)
(* The kernel implements CountingSemaphores.  How a wait ended is read off *)
(* the PCB: a task that left the semaphore's list inside sys_sem_wait was  *)
(* given a token, unless its semdestroyed flag is up.                      *)
(***************************************************************************)
EXTENDS ZeosKernel

Outcome ==
    [t \in Task |->
       IF kont[t] # "semwait" \/ state[t] = ST_BLOCKED THEN "none"
       ELSE IF semdestroyed[t] THEN "destroyed" ELSE "granted"]

Sems == INSTANCE CountingSemaphores
          WITH Process <- Task, NoOwner <- -1, MaxCount <- IntMax,
               Granted <- 0, Refused <- -EINVAL,
               owner <- owner_pid, tokens <- sem_counter,
               waiting <- [s \in Sem |-> queue[s]], outcome <- Outcome,
               running <- PID[current], answer <- eax

\* Every behaviour of the kernel is one of the abstract semaphores: tokens
\* and waiters are served in order, a destroyed semaphore refuses exactly
\* those who were still waiting (sys_sem_wait, sys_sem_signal,
\* sys_sem_destroy, sys_exit), whoever runs in between.
ImplementsSemaphores == Sems!SemsSpec
=============================================================================
