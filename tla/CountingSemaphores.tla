-------------------------- MODULE CountingSemaphores --------------------------
(***************************************************************************)
(* What the semaphore system calls promise, without lists, PCBs or flags:  *)
(* a free semaphore is claimed by one process, a P that finds no token     *)
(* waits in FIFO order, a V gives its token to the first waiter or keeps   *)
(* it, and the owner's destroy (or exit) throws every waiter out.  How a   *)
(* wait ended is settled when it ends, not when the waiter runs again.     *)
(* Whatever else the system does leaves all of this alone.                 *)
(***************************************************************************)
EXTENDS Integers, Sequences

CONSTANTS Sem,       \* the semaphores
          Process,   \* the processes
          NoOwner,   \* owner of a free semaphore
          MaxCount,  \* largest number of tokens an implementation must count, in Nat
          Granted,   \* answer to a P that was given a token
          Refused    \* answer to a P whose semaphore was destroyed

VARIABLES owner,     \* owner[s]: PID of the process that claimed s
          tokens,    \* tokens[s]: tokens left
          waiting,   \* waiting[s]: the processes that wait, first come first
          outcome,   \* outcome[p]: how p's wait ended, until p is told
          running,   \* PID of the process that runs; any step may change it
          answer     \* what the last system call returned; only what a P
                     \* returns is specified here

avars == <<owner, tokens, waiting, outcome>>

\* The counter of an implementation that leaves -MaxCount-1 .. MaxCount may
\* hold any of these.
AnyCount == -MaxCount - 1 .. MaxCount

InUse(s) == owner[s] # NoOwner

SemsInit ==
    /\ owner = [s \in Sem |-> NoOwner]
    /\ tokens = [s \in Sem |-> 0]
    /\ waiting = [s \in Sem |-> <<>>]
    /\ outcome = [p \in Process |-> "none"]

Claim(s) ==
    /\ ~InUse(s)
    /\ owner' = [owner EXCEPT ![s] = running]
    /\ \E value \in AnyCount : tokens' = [tokens EXCEPT ![s] = value]
    /\ waiting[s] = <<>>
    /\ UNCHANGED <<waiting, outcome>>

\* P: take a token, or wait behind the others.
Take(s) ==
    /\ InUse(s)
    /\ tokens[s] > 0
    /\ tokens' = [tokens EXCEPT ![s] = @ - 1]
    /\ answer' = Granted
    /\ UNCHANGED <<owner, waiting, outcome>>

Wait(s, p) ==
    /\ InUse(s)
    /\ tokens[s] <= 0
    /\ outcome[p] = "none"
    /\ waiting' = [waiting EXCEPT ![s] = Append(@, p)]
    /\ UNCHANGED <<owner, tokens, outcome>>

\* V: the token goes to the first waiter or to the count.
Grant(s) ==
    /\ InUse(s)
    /\ waiting[s] # <<>>
    /\ waiting' = [waiting EXCEPT ![s] = Tail(@)]
    /\ outcome' = [outcome EXCEPT ![Head(waiting[s])] = "granted"]
    /\ UNCHANGED <<owner, tokens>>

Keep(s) ==
    /\ InUse(s)
    /\ waiting[s] = <<>>
    /\ \/ /\ tokens[s] < MaxCount
          /\ tokens' = [tokens EXCEPT ![s] = @ + 1]
       \/ /\ tokens[s] = MaxCount
          /\ \E value \in AnyCount : tokens' = [tokens EXCEPT ![s] = value]
    /\ UNCHANGED <<owner, waiting, outcome>>

Destroy(s) ==
    /\ InUse(s)
    /\ owner[s] = running
    /\ owner' = [owner EXCEPT ![s] = NoOwner]
    /\ waiting' = [waiting EXCEPT ![s] = <<>>]
    /\ outcome' = [p \in Process |->
                     IF \E i \in 1 .. Len(waiting[s]) : waiting[s][i] = p
                     THEN "destroyed" ELSE outcome[p]]
    /\ UNCHANGED tokens

\* A process whose wait has ended learns how.
Told(p) ==
    /\ outcome[p] # "none"
    /\ answer' = (IF outcome[p] = "granted" THEN Granted ELSE Refused)
    /\ outcome' = [outcome EXCEPT ![p] = "none"]
    /\ UNCHANGED <<owner, tokens, waiting>>

SemsNext ==
    \/ \E s \in Sem : Claim(s) \/ Take(s) \/ Grant(s) \/ Keep(s) \/ Destroy(s)
    \/ \E s \in Sem, p \in Process : Wait(s, p)
    \/ \E p \in Process : Told(p)

SemsSpec == SemsInit /\ [][SemsNext]_avars
=============================================================================
