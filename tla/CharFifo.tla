------------------------------- MODULE CharFifo -------------------------------
(***************************************************************************)
(* What the keyboard buffer promises: a FIFO of at most Capacity           *)
(* characters.                                                             *)
(***************************************************************************)
EXTENDS Integers, Sequences

CONSTANTS Capacity, Char

VARIABLES chars,  \* the characters that have been typed and not read
          got     \* the character last handed to a reader

fifoVars == <<chars, got>>

FifoInit == chars = <<>> /\ got \in Char

Put(k) ==
    /\ Len(chars) < Capacity
    /\ chars' = Append(chars, k)
    /\ UNCHANGED got

Get ==
    /\ chars # <<>>
    /\ got' = Head(chars)
    /\ chars' = Tail(chars)

FifoNext == (\E k \in Char : Put(k)) \/ Get

FifoSpec == FifoInit /\ [][FifoNext]_fifoVars
=============================================================================
