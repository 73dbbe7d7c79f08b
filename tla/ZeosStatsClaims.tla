--------------------------- MODULE ZeosStatsClaims ---------------------------
(***************************************************************************)
(* What a comment says of the statistics and the kernel does not do; TLC   *)
(* finds a counterexample.                                                 *)
(***************************************************************************)
EXTENDS ZeosStats

\* stats.h:12, of total_trans: "Number of times the process has got the CPU:
\* READY->RUN transitions".  A process is counted once more when its quantum
\* ends and it loses the CPU (needs_sched_rr, sched.c:150).
TransitionsCounted ==
    [][\A t \in Task : p_stats'[t].total_trans > p_stats[t].total_trans =>
          current' = t]_<<vars, statsVars>>
=============================================================================
