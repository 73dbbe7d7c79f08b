---------------------------- MODULE ZeosMemClaims ----------------------------
(***************************************************************************)
(* What the manual says of the heap, and the kernel does not do.           *)
(***************************************************************************)
EXTENDS ZeosMem

\* Zeos.pdf, 6.2: the heap "must be copied when a new process is created and
\* freed when the process is destroyed".  sys_fork copies the heap's pages
\* but never sets the child's entry of programbreak_table, from which
\* free_user_pages (mm.c:261) learns how much heap to free: what the child
\* inherited is lost when it exits.
HeapFreedOnExit ==
    [][\A t \in alive \ alive' : Users(dir[t]) = {t} =>
          \A p \in PrivatePages :
             pagusr_table[dir[t]][p] # NotPresent =>
                pagusr_table[dir[t]][p] \notin phys_mem']_vars
=============================================================================
