------------------------------ MODULE ZeosClaims ------------------------------
(***************************************************************************)
(* What the ZeOS manual (Zeos.pdf) and the comments of the code say of the *)
(* kernel, and the kernel does not do.  Each claim is checked in a run of  *)
(* its own, in which TLC finds a counterexample.                           *)
(***************************************************************************)
EXTENDS ZeosKernel

\* Zeos.pdf, 4.4.1: idle "only should use the CPU if there are not any other
\* user process to execute".  keyboard_routine queues the interrupted task
\* as ready without asking whether it is idle (interrupt.c:145; schedule,
\* sched.c:205, does ask), and idle later gets a quantum like any process.
IdleOnlyWhenAlone ==
    current = idle_task => list_empty(queue, readyqueue)

\* Zeos.pdf, 6.1.3: read "must copy the requested bytes", to each process in
\* its turn.  A reader that had to queue behind another returns success
\* without having copied anything (sys.c:347-351).
ReadDeliversAll ==
    [][\A t \in Task :
         kont[t] \in {"readloop", "readret"} /\ kont'[t] = "user" =>
            circbuffcounter - circbuffcounter' = read_count[t] - read_i[t]]_vars

\* Zeos.pdf, 6.1.2: the first process of keyboardqueue must be unblocked when
\* "the buffer is full" or holds enough characters.  keyboard_routine looks at
\* the queue only when it stores a character (interrupt.c:124), so a reader
\* that comes to the front while the buffer is full never leaves it, however
\* long somebody types, and nobody reads the keyboard again.
EveryReaderServed ==
    \A t \in Task : Linked(t, keyboardqueue) ~> current = t

\* sys.c:104: "en cas d'error, fem la marcha atras" (on an error, we roll
\* back).  The roll-back of sys_fork frees the frames but does not put the
\* PCB back on the free list (sys.c:104-108).
ForkRestoresPCB ==
    [][eax' = -ENOMEM => Len(queue'[freequeue]) = Len(queue[freequeue])]_vars
=============================================================================
