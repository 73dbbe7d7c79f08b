------------------------------ MODULE ZeosStats ------------------------------
(***************************************************************************)
(* The statistics of the processes: enter_system and exit_system around    *)
(* every handler, the accounting of sched_next_rr around its task switch,  *)
(* and sys_get_stats, composed with the kernel's steps.  Time is what      *)
(* get_ticks reads, and may advance between any two reads of a step.       *)
(***************************************************************************)
EXTENDS ZeosKernel

CONSTANTS MaxTime,   \* bound: time stops there
          MaxTrans   \* bound: a task is charged with so many transitions

ASSUME StatsAssumption == MaxTime \in Nat /\ MaxTrans \in Nat

VARIABLES
    now,      \* the value of get_ticks
    p_stats,  \* task_struct.p_stats, without blocked_ticks, never written
    resume,   \* what a task that is dispatched does first: go on after the
              \* task_switch of sched_next_rr ("account"), go back to its
              \* handler, after the one of the idle branch or, if new, through
              \* ret_from_fork ("plain"), or enter cpu_idle ("cpu_idle")
    user_time \* history: how much time has passed while a task ran user code

statsVars == <<now, p_stats, resume, user_time>>

ESRCH == 3

newstats == [user_ticks |-> 0, system_ticks |-> 0, ready_ticks |-> 0,
             elapsed_total_ticks |-> 0, total_trans |-> 0, remaining_ticks |-> 0]

----------------------------------------------------------------------------
\* current()->p_stats.<field> += get_ticks() - elapsed_total_ticks;
\* elapsed_total_ticks = get_ticks(): the two reads may differ.  The fault:
\* elapsed_total_ticks is left as it was.
Charge_fault(p, t, field, first, second) ==
    [p EXCEPT ![t][field] = @ + first - p[t].elapsed_total_ticks]
Charge(p, t, field, first, second) ==
    [p EXCEPT ![t][field] = @ + first - p[t].elapsed_total_ticks,
              ![t].elapsed_total_ticks = second]

CountTransition(p, t) == [p EXCEPT ![t].total_trans = @ + 1]

\* If holds, the statistics that change makes of p.
When(condition, p, changed) == IF condition THEN changed ELSE p

\* The task that a fork or clone has made, and the PCB that a fork without
\* frames has overwritten with its parent's.
Made == {t \in Task : kont[t] = "dead" /\ kont'[t] = "user"}
Lost == {t \in Task : Linked(t, freequeue) /\ t \notin Range(queue'[freequeue])} \ Made

\* sched_next_rr has found the ready queue empty: it only switches.
IdleBranch == current' = idle_task /\ ~Linked(idle_task, readyqueue)

\* What each stage of a handler makes of the statistics p, with the two reads
\* of get_ticks it charges by.  enter_system is called on the way from user
\* code, exit_system by the task that goes back to it: a new one too, which
\* ret_from_fork takes to the end of the SYSENTER handler, but not idle when it
\* runs for the first time.  The fault: a new task skips it.
enter_system(p, first, second) ==
    When(kont[current] = "user", p, Charge(p, current, "user_ticks", first, second))
exit_system_fault(p, how, first, second) ==
    When(/\ kont'[current'] = "user" /\ how # "cpu_idle"
         /\ p[current'] # newstats, p,
         Charge(p, current', "system_ticks", first, second))
exit_system(p, how, first, second) ==
    When(kont'[current'] = "user" /\ how # "cpu_idle", p,
         Charge(p, current', "system_ticks", first, second))

\* sys_fork's copy of the PCB, and its new statistics.
Copied(p) ==
    [t \in Task |-> IF t \in Made THEN newstats ELSE IF t \in Lost THEN p[current] ELSE p[t]]

\* sys_get_stats has found the PCBs in found: remaining_ticks, alone of the
\* fields, is set there.
Reported(p, found) ==
    [t \in Task |-> IF t \notin found THEN p[t]
                    ELSE [p[t] EXCEPT !.remaining_ticks =
                                          IF t = current THEN left_ticks ELSE 0]]

needs_sched_rr(p, expired) == When(expired, p, CountTransition(p, current))

\* The two sides of the task switch of sched_next_rr.
SwitchedOut(p, away, first, second) ==
    When(away /\ ~IdleBranch, p, Charge(p, current, "system_ticks", first, second))
SwitchedIn(p, how, first, second) ==
    When(how = "account", p,
         CountTransition(Charge(p, current', "ready_ticks", first, second), current'))

\* The statistics over a kernel step: expired says that needs_sched_rr has
\* counted the end of a quantum.  Of the eight reads of get_ticks that a step
\* can make, those from the tick-th on see the new time.
Account(expired, found) ==
    LET toItself == expired /\ current' = current /\ current # idle_task
        away     == current' # current \/ toItself
        how      == IF current' = current THEN IF toItself THEN "account" ELSE "plain"
                                          ELSE resume[current']
    IN /\ \E tick \in 1 .. 9 :
          LET read(i) == IF i < tick THEN now ELSE now + 1
              handled == Reported(Copied(enter_system(p_stats, read(1), read(2))), found)
              counted == needs_sched_rr(handled, expired)
              left    == SwitchedOut(counted, away, read(3), read(4))
              back    == SwitchedIn(left, how, read(5), read(6))
          IN /\ tick # 9 => now < MaxTime
             /\ now' = read(8)
             /\ p_stats' = exit_system(back, how, read(7), read(8))
             /\ user_time' = [t \in Task |->
                    IF t \in Made THEN 0
                    ELSE IF t = current /\ kont[t] = "user" /\ tick = 1
                    THEN user_time[t] + 1 ELSE user_time[t]]
       /\ resume' = [t \in Task |->
              IF t = current' \/ kont'[t] = "dead" \/ t \in Made THEN "plain"
              ELSE IF t # current THEN resume[t]
              ELSE IF IdleBranch THEN "plain" ELSE "account"]

\* A handler that changes nothing of the kernel's state: gettime, getpid,
\* write, a key that is not stored.
OtherHandler == InterruptsOn /\ UNCHANGED vars

----------------------------------------------------------------------------
\* The loop of sys_get_stats over the task array finds the first PCB with
\* the PID; sys_exit has set the PIDs of the dead to -1.
Lookup(pid) == CHOOSE t \in Task : PID[t] = pid /\ \A u \in Task : PID[u] = pid => t <= u

\* Where the buffer of a get_stats() is: NULL, or a valid address (access_ok
\* accepts any other).
StatsBuffer == {"null", "user"}

\* The checks of get_stats(pid, st), in their order, with a positive sign.
GetStatsError(pid, st) ==
    IF st = "null" THEN EFAULT
    ELSE IF pid < 0 THEN EINVAL
    ELSE IF pid \notin Range(PID) THEN ESRCH
    ELSE 0

\* The PCB that get_stats(pid, st) reports, if any.
Found(pid, st) == IF GetStatsError(pid, st) = 0 THEN {Lookup(pid)} ELSE {}

sys_get_stats(pid, st) ==
    /\ InUserCode
    /\ Return(GetStatsError(pid, st))
    /\ UNCHANGED <<schedVars, taskVars, semVars, kbdVars, procVars>>

----------------------------------------------------------------------------
StatsInit ==
    /\ Init
    /\ now = 0
    /\ p_stats = [t \in Task |->
          IF t \in {idle_task, task1} THEN [newstats EXCEPT !.remaining_ticks = Quantum]
                                      ELSE newstats]
    /\ resume = [t \in Task |-> IF t = idle_task THEN "cpu_idle" ELSE "plain"]
    /\ user_time = [t \in Task |-> 0]

Counting == \A t \in Task : p_stats[t].total_trans < MaxTrans

StatsStep == Counting /\ (SystemCall \/ Continuation \/ Keyboard \/ OtherHandler)
                      /\ Account(FALSE, {})
StatsClock == Counting /\ Clock /\ Account(update_sched_data_rr = 0, {})
GetStats  == Counting /\ \E pid \in -1 .. MaxPid, st \in StatsBuffer :
                             sys_get_stats(pid, st) /\ Account(FALSE, Found(pid, st))

StatsNext == StatsStep \/ StatsClock \/ GetStats

StatsSpec == StatsInit /\ [][StatsNext]_<<vars, statsVars>>

----------------------------------------------------------------------------
\* No time is charged twice: what a process is charged with as user, system
\* and ready time, through preemptions, blocking, idling and the switches in
\* between, never exceeds the time of its last account, nor that the clock.
TimeChargedOnce ==
    \A t \in Task :
        LET p == p_stats[t] IN
        /\ p.user_ticks + p.system_ticks + p.ready_ticks <= p.elapsed_total_ticks
        /\ p.elapsed_total_ticks <= now

\* user_ticks is the time that a process has spent in user code, whatever
\* else it went through: on every way back to user code, also that of a
\* child through ret_from_fork, exit_system has settled what came before.
\* (Idle enters its loop without it and is charged with the time from boot.)
UserTimeMeasured ==
    \A t \in Live \ {idle_task} : p_stats[t].user_ticks = user_time[t]

\* Unless a fork has lost a PCB, get_stats never answers with the statistics
\* of a dead process, and tells the caller a quantum it really has left.
StatsOfTheLiving ==
    /\ AllocMayFail \/ \A t \in Task :
                           PID[t] >= 0 => Lookup(PID[t]) = t /\ t \in Live
    /\ InUserCode => left_ticks \in 1 .. Quantum
=============================================================================
