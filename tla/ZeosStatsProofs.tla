---------------------------- MODULE ZeosStatsProofs ----------------------------
(***************************************************************************)
(* Proofs about the statistics: what a process is charged with, and whom   *)
(* get_stats finds.  Every step of StatsNext takes a step of the kernel,   *)
(* or none, beside the accounting, so the kernel's invariants still hold.  *)
(***************************************************************************)
EXTENDS ZeosStats, ZeosProcessProofs

\* A free PCB keeps no PID, unless a fork without frames has left its
\* parent's there.
DeadPids == AllocMayFail \/ \A t \in Task : kont[t] = "dead" => PID[t] = -1

KernelInv == IInv /\ PidInv /\ QuantumInRange /\ DeadPids

LEMMA DeadPidsStep == ASSUME IInv, DeadPids, [Next]_vars PROVE DeadPids'
<1>1. /\ kont \in [Task -> Kont] /\ PID \in [Task -> Int] /\ current \in Task
      /\ AllocMayFail \in BOOLEAN
  BY Running, KernelAssumption DEF IInv, DataOK
<1>2. CASE CallGoesOn
  <2>1. \A t \in Task : kont'[t] = "dead" => kont[t] = "dead"
    BY <1>1, <1>2 DEF CallGoesOn
  <2> QED
    BY <1>2, <2>1 DEF CallGoesOn, DeadPids
<1>3. CASE queue[freequeue] # <<>> /\ ForkTakes(Head(queue[freequeue]))
  <2> DEFINE h == Head(queue[freequeue])
  <2>1. CASE AllocMayFail
    BY <2>1 DEF DeadPids
  <2>2. CASE ~AllocMayFail
    <3>1. /\ PID' = [PID EXCEPT ![h] = global_PID]
          /\ kont' = [kont EXCEPT ![h] = "user"]
      BY <1>3, <2>2 DEF ForkTakes, NewTask
    <3> HIDE DEF h
    <3>2. \A t \in Task : kont'[t] = "dead" => kont[t] = "dead" /\ PID'[t] = PID[t]
      BY <1>1, <3>1
    <3> QED
      BY <3>2 DEF DeadPids
  <2> QED
    BY <2>1, <2>2
<1>4. CASE ExitCall
  BY <1>1, <1>4 DEF ExitCall, sys_exit, DeadPids
<1>5. CASE ExitSem
  BY <1>5 DEF ExitSem, DestroySem, DeadPids
<1>6. CASE ExitRelease
  BY <1>1, <1>6 DEF ExitRelease, DeadPids
<1>7. CASE UNCHANGED vars
  BY <1>7 DEF vars, taskVars, DeadPids
<1> QED
  BY <1>2, <1>3, <1>4, <1>5, <1>6, <1>7, StepKinds

LEMMA KernelInit == Init => KernelInv
<1>1. Init => DeadPids
  BY DEF Init, SchedInit, DeadPids
<1> QED
  BY <1>1, InitIInv, PidsInit, QuantumInit DEF KernelInv

LEMMA KernelStep == ASSUME KernelInv, [Next]_vars PROVE KernelInv'
BY NextIInv, PidsStep, QuantumStep, DeadPidsStep DEF KernelInv

\* get_stats changes nothing of the kernel's state but eax.
LEMMA KernelGetStats == ASSUME KernelInv, GetStats PROVE KernelInv'
<1>1. PICK pid \in -1 .. MaxPid, st \in StatsBuffer : sys_get_stats(pid, st)
  BY DEF GetStats
<1>2. UNCHANGED <<schedVars, taskVars, semVars, kbdVars, procVars>> /\ eax' \in Int
  BY <1>1 DEF sys_get_stats, Return, GetStatsError, EFAULT, EINVAL, ESRCH
<1>3. DataOK' /\ ReadersLack'
  BY <1>2 DEF KernelInv, IInv, DataOK, ReadersLack, taskVars, semVars, kbdVars, procVars
<1>4. IInv'
  BY <1>2, <1>3 DEF KernelInv, IInv, schedVars, taskVars, semVars, WaitersConsistent
<1>5. PidInv'
  BY <1>2 DEF KernelInv, PidInv, UniquePids, OwnerAlive, ExitRuns, Live, schedVars,
              taskVars, semVars, procVars
<1>6. QuantumInRange' /\ DeadPids'
  BY <1>2 DEF KernelInv, QuantumInRange, DeadPids, list_empty, schedVars, taskVars
<1> QED
  BY <1>4, <1>5, <1>6 DEF KernelInv

LEMMA KernelSteps ==
    ASSUME KernelInv, StatsStep \/ StatsClock PROVE [Next]_vars
BY DEF StatsStep, StatsClock, OtherHandler, Next

LEMMA KernelInvariant == StatsSpec => []KernelInv
<1>1. StatsInit => KernelInv
  BY KernelInit DEF StatsInit
<1>2. ASSUME KernelInv, [StatsNext]_<<vars, statsVars>> PROVE KernelInv'
  <2>1. CASE StatsStep \/ StatsClock \/ UNCHANGED vars
    BY <1>2, <2>1, KernelSteps, KernelStep
  <2>2. CASE GetStats
    BY <1>2, <2>2, KernelGetStats
  <2> QED
    BY <1>2, <2>1, <2>2 DEF StatsNext
<1> QED
  BY <1>1, <1>2, PTL DEF StatsSpec

----------------------------------------------------------------------------
(* Whom get_stats finds.                                                   *)

\* A PID that is found is one live task's only.
LEMMA FoundAlive ==
    ASSUME KernelInv, ~AllocMayFail, NEW t \in Task, PID[t] >= 0
    PROVE  Lookup(PID[t]) = t /\ t \in Live
<1>1. \A u \in Task : PID[u] \in Int
  BY DEF KernelInv, IInv, DataOK
<1>2. \A u \in Task : PID[u] >= 0 => u \in Live
  BY DEF KernelInv, DeadPids, Live
<1>3. \A u \in Task : PID[u] = PID[t] => u = t
  BY <1>1, <1>2 DEF KernelInv, PidInv, UniquePids
<1>4. t <= t
  BY DEF Task
<1>5. Lookup(PID[t]) = t
  BY <1>3, <1>4 DEF Lookup
<1> QED
  BY <1>2, <1>5

LEMMA LivingFromInv == ASSUME KernelInv PROVE StatsOfTheLiving
<1>1. AllocMayFail \/ \A t \in Task : PID[t] >= 0 => Lookup(PID[t]) = t /\ t \in Live
  BY FoundAlive
<1>2. InUserCode => left_ticks \in 1 .. Quantum
  BY DEF KernelInv, QuantumInRange, InUserCode
<1> QED
  BY <1>1, <1>2 DEF StatsOfTheLiving

\* sys_get_stats looks for the PID in every PCB of the task array, in the free
\* ones too: it finds the process that has it, and nobody who is dead.
THEOREM StatsAreOfTheLiving == StatsSpec => []StatsOfTheLiving
BY KernelInvariant, LivingFromInv, PTL

----------------------------------------------------------------------------
(* What a process is charged with.                                         *)

Statistics == [user_ticks : Int, system_ticks : Int, ready_ticks : Int,
               elapsed_total_ticks : Int, total_trans : Int, remaining_ticks : Int]

Charged == {"user_ticks", "system_ticks", "ready_ticks"}

\* By the time T nobody has been charged with more than has passed.
InTime(s, T) ==
    /\ s.user_ticks + s.system_ticks + s.ready_ticks <= s.elapsed_total_ticks
    /\ s.elapsed_total_ticks <= T

ClockedBy(p, T) == p \in [Task -> Statistics] /\ \A t \in Task : InTime(p[t], T)

LEMMA Later ==
    ASSUME NEW p, NEW T \in Int, NEW U \in Int, T <= U, ClockedBy(p, T)
    PROVE  ClockedBy(p, U)
BY DEF ClockedBy, InTime, Statistics

\* What Charge makes of a record.
AddTo(s, field, d, U) == [s EXCEPT ![field] = @ + d, !.elapsed_total_ticks = U]

LEMMA ChargedRecord ==
    ASSUME NEW s, NEW T, NEW U, NEW d, NEW field, NEW r,
           s \in Statistics, T \in Int, U \in Int, d \in Int,
           InTime(s, T), s.elapsed_total_ticks + d <= U, field \in Charged,
           r = AddTo(s, field, d, U)
    PROVE  /\ r \in Statistics /\ InTime(r, U) /\ r.elapsed_total_ticks = U
           /\ r.user_ticks = s.user_ticks + (IF field = "user_ticks" THEN d ELSE 0)
<1>1. s = [user_ticks |-> s.user_ticks, system_ticks |-> s.system_ticks,
           ready_ticks |-> s.ready_ticks, elapsed_total_ticks |-> s.elapsed_total_ticks,
           total_trans |-> s.total_trans, remaining_ticks |-> s.remaining_ticks]
  BY DEF Statistics
<1>2. /\ s.user_ticks \in Int /\ s.system_ticks \in Int /\ s.ready_ticks \in Int
      /\ s.elapsed_total_ticks \in Int /\ s.total_trans \in Int
      /\ s.remaining_ticks \in Int
  BY DEF Statistics
<1>3. s.user_ticks + s.system_ticks + s.ready_ticks + d <= U
  <2>1. s.user_ticks + s.system_ticks + s.ready_ticks <= s.elapsed_total_ticks
    BY DEF InTime
  <2> QED
    BY <1>2, <2>1
<1>4. CASE field = "user_ticks"
  <2>1. r = [s EXCEPT !.user_ticks = @ + d, !.elapsed_total_ticks = U]
    BY <1>4 DEF AddTo
  <2>2. r = [user_ticks |-> s.user_ticks + d, system_ticks |-> s.system_ticks,
             ready_ticks |-> s.ready_ticks, elapsed_total_ticks |-> U,
             total_trans |-> s.total_trans, remaining_ticks |-> s.remaining_ticks]
    BY <1>1, <2>1
  <2>3. r \in Statistics
    BY <1>2, <2>2 DEF Statistics
  <2>4. r.user_ticks + r.system_ticks + r.ready_ticks <= U /\ r.elapsed_total_ticks = U
    BY <1>2, <1>3, <2>2
  <2>5. r.user_ticks = s.user_ticks + d
    BY <1>2, <2>2
  <2> QED
    BY <1>4, <2>3, <2>4, <2>5 DEF InTime
<1>5. CASE field = "system_ticks"
  <2>1. r = [s EXCEPT !.system_ticks = @ + d, !.elapsed_total_ticks = U]
    BY <1>5 DEF AddTo
  <2>2. r = [user_ticks |-> s.user_ticks, system_ticks |-> s.system_ticks + d,
             ready_ticks |-> s.ready_ticks, elapsed_total_ticks |-> U,
             total_trans |-> s.total_trans, remaining_ticks |-> s.remaining_ticks]
    BY <1>1, <2>1
  <2>3. r \in Statistics
    BY <1>2, <2>2 DEF Statistics
  <2>4. r.user_ticks + r.system_ticks + r.ready_ticks <= U /\ r.elapsed_total_ticks = U
    BY <1>2, <1>3, <2>2
  <2>5. r.user_ticks = s.user_ticks + 0
    BY <1>2, <2>2
  <2> QED
    BY <1>5, <2>3, <2>4, <2>5 DEF InTime
<1>6. CASE field = "ready_ticks"
  <2>1. r = [s EXCEPT !.ready_ticks = @ + d, !.elapsed_total_ticks = U]
    BY <1>6 DEF AddTo
  <2>2. r = [user_ticks |-> s.user_ticks, system_ticks |-> s.system_ticks,
             ready_ticks |-> s.ready_ticks + d, elapsed_total_ticks |-> U,
             total_trans |-> s.total_trans, remaining_ticks |-> s.remaining_ticks]
    BY <1>1, <2>1
  <2>3. r \in Statistics
    BY <1>2, <2>2 DEF Statistics
  <2>4. r.user_ticks + r.system_ticks + r.ready_ticks <= U /\ r.elapsed_total_ticks = U
    BY <1>2, <1>3, <2>2
  <2>5. r.user_ticks = s.user_ticks + 0
    BY <1>2, <2>2
  <2> QED
    BY <1>6, <2>3, <2>4, <2>5 DEF InTime
<1> QED
  BY <1>4, <1>5, <1>6 DEF Charged

\* The stages of a handler other than enter_system charge no user time.
KeepsUser(p, q) == \A t \in Task : q[t].user_ticks = p[t].user_ticks

\* enter_system charges to t what has passed until `first'.
AddsUser(p, q, t, first) ==
    \A u \in Task : q[u].user_ticks = p[u].user_ticks
        + (IF u = t THEN first - p[t].elapsed_total_ticks ELSE 0)

\* The pair of reads in which a handler charges what has passed.
LEMMA ChargeOK ==
    ASSUME NEW p, NEW t \in Task, NEW field \in Charged,
           NEW T \in Int, NEW first \in Int, NEW second \in Int,
           T <= first, first <= second, ClockedBy(p, T),
           NEW r, r = Charge(p, t, field, first, second)
    PROVE  /\ ClockedBy(r, second)
           /\ r[t].elapsed_total_ticks = second
           /\ field # "user_ticks" => KeepsUser(p, r)
           /\ field = "user_ticks" => AddsUser(p, r, t, first)
<1> DEFINE d == first - p[t].elapsed_total_ticks
<1>1. p[t] \in Statistics /\ InTime(p[t], T) /\ d \in Int
  BY DEF ClockedBy, Statistics
<1>2. /\ r = [u \in Task |-> r[u]]
      /\ \A u \in Task \ {t} : r[u] = p[u]
      /\ r[t] = AddTo(p[t], field, d, second)
  BY DEF Charge, ClockedBy, Charged, AddTo
<1>3. p[t].elapsed_total_ticks + d = first
  BY <1>1 DEF Statistics
<1> HIDE DEF d
<1>4. /\ r[t] \in Statistics /\ InTime(r[t], second) /\ r[t].elapsed_total_ticks = second
      /\ r[t].user_ticks = p[t].user_ticks + (IF field = "user_ticks" THEN d ELSE 0)
  <2>1. r[t] = AddTo(p[t], field, d, second)
    BY <1>2
  <2>2. p[t] \in Statistics /\ InTime(p[t], T) /\ d \in Int
        /\ p[t].elapsed_total_ticks + d <= second
    BY <1>1, <1>3
  <2> QED
    BY <2>1, <2>2, ChargedRecord
<1>5. \A u \in Task : r[u] \in Statistics /\ InTime(r[u], second)
  <2>1. ASSUME NEW u \in Task, u # t PROVE r[u] \in Statistics /\ InTime(r[u], second)
    <3>1. r[u] = p[u] /\ p[u] \in Statistics /\ InTime(p[u], T)
      BY <1>2, <2>1 DEF ClockedBy
    <3>2. T <= second /\ p[u].elapsed_total_ticks \in Int
      BY <3>1 DEF Statistics
    <3> QED
      BY <3>1, <3>2 DEF InTime
  <2> QED
    BY <1>4, <2>1
<1>6. \A u \in Task : p[u].user_ticks \in Int
  BY DEF ClockedBy, Statistics
<1>7. field # "user_ticks" => KeepsUser(p, r)
  BY <1>2, <1>4, <1>6 DEF KeepsUser
<1>8. field = "user_ticks" => AddsUser(p, r, t, first)
  BY <1>2, <1>4, <1>6 DEF AddsUser, d
<1> QED
  BY <1>2, <1>4, <1>5, <1>7, <1>8 DEF ClockedBy, d

LEMMA CountOK ==
    ASSUME NEW p, NEW t \in Task, NEW T \in Int, ClockedBy(p, T)
    PROVE  ClockedBy(CountTransition(p, t), T) /\ KeepsUser(p, CountTransition(p, t))
<1> DEFINE r == CountTransition(p, t)
<1>1. /\ r = [u \in Task |-> r[u]]
      /\ \A u \in Task \ {t} : r[u] = p[u]
      /\ r[t] = [p[t] EXCEPT !.total_trans = @ + 1]
  BY DEF CountTransition, ClockedBy
<1> HIDE DEF r
<1>2. \A u \in Task : /\ r[u] \in Statistics /\ InTime(r[u], T)
                      /\ r[u].user_ticks = p[u].user_ticks
  BY <1>1 DEF ClockedBy, InTime, Statistics
<1> QED
  BY <1>1, <1>2 DEF ClockedBy, KeepsUser, r

\* A new task starts from nothing; a PCB that is overwritten was charged no
\* more than its parent.
LEMMA CopiedOK ==
    ASSUME NEW p, current \in Task, NEW T \in Nat, ClockedBy(p, T)
    PROVE  /\ ClockedBy(Copied(p), T)
           /\ \A t \in Task : t \notin Lost =>
                  Copied(p)[t].user_ticks = IF t \in Made THEN 0 ELSE p[t].user_ticks
<1>1. newstats \in Statistics /\ InTime(newstats, T) /\ newstats.user_ticks = 0
  BY DEF newstats, Statistics, InTime
<1>2. /\ Copied(p) = [t \in Task |-> Copied(p)[t]]
      /\ \A t \in Task : Copied(p)[t] \in {newstats, p[current], p[t]}
      /\ \A t \in Task : t \notin Lost =>
             Copied(p)[t] = IF t \in Made THEN newstats ELSE p[t]
  BY DEF Copied
<1>3. \A t \in Task : Copied(p)[t] \in Statistics /\ InTime(Copied(p)[t], T)
  BY <1>1, <1>2 DEF ClockedBy
<1> QED
  BY <1>1, <1>2, <1>3 DEF ClockedBy

\* get_stats sets a field that is no time.
LEMMA ReportedOK ==
    ASSUME NEW p, NEW T \in Int, ClockedBy(p, T), NEW found, left_ticks \in Int
    PROVE  ClockedBy(Reported(p, found), T) /\ KeepsUser(p, Reported(p, found))
<1> DEFINE r == Reported(p, found)
           left(t) == IF t = current THEN left_ticks ELSE 0
<1>1. /\ r = [t \in Task |-> r[t]]
      /\ \A t \in Task : \/ r[t] = p[t]
                         \/ r[t] = [p[t] EXCEPT !.remaining_ticks = left(t)]
      /\ \A t \in Task : left(t) \in Int /\ p[t] \in Statistics /\ InTime(p[t], T)
  BY DEF Reported, ClockedBy
<1> HIDE DEF r, left
<1>2. \A t \in Task : /\ r[t] \in Statistics /\ InTime(r[t], T)
                      /\ r[t].user_ticks = p[t].user_ticks
  BY <1>1 DEF Statistics, InTime
<1> QED
  BY <1>1, <1>2 DEF ClockedBy, KeepsUser, r

\* No stage of a handler charges more than has passed when it ends, and the
\* first one alone charges user time.
LEMMA EnteredOK ==
    ASSUME NEW p, current \in Task, NEW T \in Int, NEW first \in Int, NEW second \in Int,
           T <= first, first <= second, ClockedBy(p, T)
    PROVE  /\ ClockedBy(enter_system(p, first, second), second)
           /\ \A t \in Task :
                  enter_system(p, first, second)[t].user_ticks = p[t].user_ticks
                      + (IF t = current /\ kont[current] = "user"
                         THEN first - p[t].elapsed_total_ticks ELSE 0)
<1> DEFINE charged == Charge(p, current, "user_ticks", first, second)
<1>1. ClockedBy(p, second)
  BY Later
<1>2. /\ ClockedBy(charged, second)
      /\ AddsUser(p, charged, current, first)
  <2>1. "user_ticks" \in Charged
    BY DEF Charged
  <2>2. charged = Charge(p, current, "user_ticks", first, second)
    OBVIOUS
  <2> HIDE DEF charged
  <2> QED
    BY <2>1, <2>2, ChargeOK
<1> HIDE DEF charged
<1>3. \A t \in Task : p[t].user_ticks \in Int
  BY DEF ClockedBy, Statistics
<1>4. CASE kont[current] = "user"
  <2>1. enter_system(p, first, second) = charged
    BY <1>4 DEF enter_system, When, charged
  <2> QED
    BY <1>2, <1>4, <2>1 DEF AddsUser
<1>5. CASE kont[current] # "user"
  <2>1. enter_system(p, first, second) = p
    BY <1>5 DEF enter_system, When
  <2> QED
    BY <1>1, <1>3, <1>5, <2>1
<1> QED
  BY <1>4, <1>5

LEMMA SwitchedOutOK ==
    ASSUME NEW p, current \in Task, NEW T \in Int, NEW first \in Int, NEW second \in Int,
           T <= first, first <= second, ClockedBy(p, T), NEW away
    PROVE  /\ ClockedBy(SwitchedOut(p, away, first, second), second)
           /\ KeepsUser(p, SwitchedOut(p, away, first, second))
<1> DEFINE charged == Charge(p, current, "system_ticks", first, second)
<1>1. ClockedBy(p, second) /\ KeepsUser(p, p)
  BY Later DEF KeepsUser
<1>2. ClockedBy(charged, second) /\ KeepsUser(p, charged)
  <2>1. "system_ticks" \in Charged /\ "system_ticks" # "user_ticks"
    BY DEF Charged
  <2>2. charged = Charge(p, current, "system_ticks", first, second)
    OBVIOUS
  <2> HIDE DEF charged
  <2> QED
    BY <2>1, <2>2, ChargeOK
<1> HIDE DEF charged
<1>3. SwitchedOut(p, away, first, second) \in {p, charged}
  BY DEF SwitchedOut, When, charged
<1> QED
  BY <1>1, <1>2, <1>3

LEMMA SwitchedInOK ==
    ASSUME NEW p, current' \in Task, NEW T \in Int, NEW first \in Int, NEW second \in Int,
           T <= first, first <= second, ClockedBy(p, T), NEW how
    PROVE  /\ ClockedBy(SwitchedIn(p, how, first, second), second)
           /\ KeepsUser(p, SwitchedIn(p, how, first, second))
<1> DEFINE charged == Charge(p, current', "ready_ticks", first, second)
           counted == CountTransition(charged, current')
<1>1. ClockedBy(p, second) /\ KeepsUser(p, p)
  BY Later DEF KeepsUser
<1>2. ClockedBy(charged, second) /\ KeepsUser(p, charged)
  <2>1. "ready_ticks" \in Charged /\ "ready_ticks" # "user_ticks"
    BY DEF Charged
  <2>2. charged = Charge(p, current', "ready_ticks", first, second)
    OBVIOUS
  <2> HIDE DEF charged
  <2> QED
    BY <2>1, <2>2, ChargeOK
<1> HIDE DEF charged
<1>3. ClockedBy(counted, second) /\ KeepsUser(charged, counted)
  BY <1>2, CountOK
<1> HIDE DEF counted
<1>4. KeepsUser(p, counted)
  BY <1>2, <1>3 DEF KeepsUser
<1>5. SwitchedIn(p, how, first, second) \in {p, counted}
  BY DEF SwitchedIn, When, charged, counted
<1> QED
  BY <1>1, <1>3, <1>4, <1>5

LEMMA ExitedOK ==
    ASSUME NEW p, current' \in Task, NEW T \in Int, NEW first \in Int, NEW second \in Int,
           T <= first, first <= second, ClockedBy(p, T), NEW how,
           NEW r, r = exit_system(p, how, first, second)
    PROVE  /\ ClockedBy(r, second)
           /\ KeepsUser(p, r)
           /\ kont'[current'] = "user" /\ how # "cpu_idle" =>
                  r[current'].elapsed_total_ticks = second
<1> DEFINE charged == Charge(p, current', "system_ticks", first, second)
<1>1. ClockedBy(p, second) /\ KeepsUser(p, p)
  BY Later DEF KeepsUser
<1>2. /\ ClockedBy(charged, second) /\ KeepsUser(p, charged)
      /\ charged[current'].elapsed_total_ticks = second
  <2>1. "system_ticks" \in Charged /\ "system_ticks" # "user_ticks"
    BY DEF Charged
  <2>2. charged = Charge(p, current', "system_ticks", first, second)
    OBVIOUS
  <2> HIDE DEF charged
  <2>3. /\ ClockedBy(charged, second)
        /\ charged[current'].elapsed_total_ticks = second
        /\ "system_ticks" # "user_ticks" => KeepsUser(p, charged)
    BY <2>1, <2>2, ChargeOK
  <2> QED
    BY <2>1, <2>3
<1> HIDE DEF charged
<1>3. r = IF kont'[current'] = "user" /\ how # "cpu_idle" THEN charged ELSE p
  BY DEF exit_system, When, charged
<1> QED
  BY <1>1, <1>2, <1>3

----------------------------------------------------------------------------
\* What the statistics are between two steps.
TimeInv == now \in Nat /\ ClockedBy(p_stats, now)

\* While a process runs user code its time is accounted for until now: only
\* idle, which nobody has dispatched yet, has not been through exit_system.
UserInv ==
    /\ user_time \in [Task -> Int]
    /\ kont[current] = "user" /\ current # idle_task =>
          p_stats[current].elapsed_total_ticks = now
    /\ \A t \in Task : resume[t] = "cpu_idle" => t = idle_task
    /\ UserTimeMeasured

\* What the accounting needs to know of the kernel's step: who is running, and
\* that a live task's PCB is neither free nor lost.
StepOK ==
    /\ current \in Task /\ current' \in Task /\ left_ticks \in Int
    /\ \A t \in Task : kont'[t] # "dead" => t \in Made \/ kont[t] # "dead"
    /\ \A t \in Live : t \notin Made /\ t \notin Lost

LEMMA StepIsOK ==
    ASSUME KernelInv, KernelInv', [Next]_vars \/ UNCHANGED <<schedVars, taskVars>>
    PROVE  StepOK
<1>1. /\ current \in Task /\ current' \in Task
      /\ left_ticks \in Int /\ kont \in [Task -> Kont]
  BY Running DEF KernelInv, IInv, Between, CpuOK, DataOK
<1>2. \A t \in Live : t \notin Made /\ t \notin Lost
  <2>1. \A t \in Live : ~Linked(t, freequeue)
    BY IInvImplies DEF KernelInv, ListedAsStated, Linked, Live
  <2> QED
    BY <2>1 DEF Made, Lost, Live
<1>3. ASSUME NEW t \in Task, kont[t] = "dead", kont'[t] # "dead" PROVE kont'[t] = "user"
  <2>1. CASE UNCHANGED <<schedVars, taskVars>>
    BY <1>3, <2>1 DEF taskVars
  <2>2. CASE [Next]_vars
    <3>1. kont[current] # "dead"
      BY Running DEF KernelInv
    <3>2. CASE CallGoesOn
      BY <1>1, <1>3, <3>1, <3>2 DEF CallGoesOn
    <3>3. CASE queue[freequeue] # <<>> /\ ForkTakes(Head(queue[freequeue]))
      BY <1>1, <1>3, <3>3 DEF ForkTakes, NewTask, ForkOutOfMemory
    <3>4. CASE ExitCall
      BY <1>1, <1>3, <3>1, <3>4 DEF ExitCall, sys_exit
    <3>5. CASE ExitSem
      BY <1>3, <3>5 DEF ExitSem
    <3>6. CASE ExitRelease
      BY <1>1, <1>3, <3>6 DEF ExitRelease
    <3>7. CASE UNCHANGED vars
      BY <1>3, <3>7 DEF vars, taskVars
    <3> QED
      BY <2>2, <3>2, <3>3, <3>4, <3>5, <3>6, <3>7, StepKinds DEF KernelInv
  <2> QED
    BY <2>1, <2>2
<1>4. \A t \in Task : kont'[t] # "dead" => t \in Made \/ kont[t] # "dead"
  BY <1>3 DEF Made
<1> QED
  BY <1>1, <1>2, <1>4 DEF StepOK

LEMMA AccountOK ==
    ASSUME TimeInv, UserInv, StepOK, NEW expired, NEW found, Account(expired, found)
    PROVE  TimeInv' /\ UserInv'
<1> DEFINE toItself == expired /\ current' = current /\ current # idle_task
           away == current' # current \/ toItself
           how  == IF current' = current THEN IF toItself THEN "account" ELSE "plain"
                                         ELSE resume[current']
<1>1. PICK tick \in 1 .. 9 :
        LET read(i) == IF i < tick THEN now ELSE now + 1
            handled == Reported(Copied(enter_system(p_stats, read(1), read(2))), found)
            counted == needs_sched_rr(handled, expired)
            left    == SwitchedOut(counted, away, read(3), read(4))
            back    == SwitchedIn(left, how, read(5), read(6))
        IN /\ now' = read(8)
           /\ p_stats' = exit_system(back, how, read(7), read(8))
           /\ user_time' = [t \in Task |->
                  IF t \in Made THEN 0
                  ELSE IF t = current /\ kont[t] = "user" /\ tick = 1
                  THEN user_time[t] + 1 ELSE user_time[t]]
  BY DEF Account
<1>0. how # "cpu_idle" \/ (how = resume[current'] /\ current' # current)
  OBVIOUS
<1> HIDE DEF how, away, toItself
<1> DEFINE read(i) == IF i < tick THEN now ELSE now + 1
           entered == enter_system(p_stats, read(1), read(2))
           handled == Reported(Copied(entered), found)
           counted == needs_sched_rr(handled, expired)
           left    == SwitchedOut(counted, away, read(3), read(4))
           back    == SwitchedIn(left, how, read(5), read(6))
<1>2. now' = read(8) /\ p_stats' = exit_system(back, how, read(7), read(8))
  BY <1>1
<1>3. /\ \A i \in 1 .. 8 : read(i) \in Nat /\ now <= read(i)
      /\ \A i, j \in 1 .. 8 : i <= j => read(i) <= read(j)
      /\ now \in Int
      /\ read(1) = now + (IF tick = 1 THEN 1 ELSE 0)
  BY <1>1 DEF TimeInv
<1> HIDE DEF read
<1>4. /\ read(1) \in Int /\ read(2) \in Nat /\ read(3) \in Int /\ read(4) \in Int
      /\ read(5) \in Int /\ read(6) \in Int /\ read(7) \in Int /\ read(8) \in Nat
      /\ now <= read(1) /\ read(1) <= read(2) /\ read(2) <= read(3) /\ read(3) <= read(4)
      /\ read(4) <= read(5) /\ read(5) <= read(6) /\ read(6) <= read(7) /\ read(7) <= read(8)
  BY <1>3
<1>5. /\ ClockedBy(entered, read(2))
      /\ \A t \in Task : entered[t].user_ticks = p_stats[t].user_ticks
             + (IF t = current /\ kont[current] = "user"
                THEN read(1) - p_stats[t].elapsed_total_ticks ELSE 0)
  BY <1>3, <1>4, EnteredOK DEF TimeInv, StepOK
<1> HIDE DEF entered
<1>6. /\ ClockedBy(Copied(entered), read(2))
      /\ \A t \in Task : t \notin Lost => Copied(entered)[t].user_ticks =
             IF t \in Made THEN 0 ELSE entered[t].user_ticks
  <2>1. current \in Task /\ read(2) \in Nat /\ ClockedBy(entered, read(2))
    BY <1>4, <1>5 DEF StepOK
  <2> QED
    BY <2>1, CopiedOK
<1>7. ClockedBy(handled, read(2)) /\ KeepsUser(Copied(entered), handled)
  BY <1>4, <1>6, ReportedOK DEF StepOK
<1> HIDE DEF handled
<1>8. ClockedBy(counted, read(2)) /\ KeepsUser(handled, counted)
  <2>1. /\ ClockedBy(CountTransition(handled, current), read(2))
        /\ KeepsUser(handled, CountTransition(handled, current))
    BY <1>4, <1>7, CountOK DEF StepOK
  <2> QED
    BY <1>7, <2>1 DEF needs_sched_rr, When, KeepsUser
<1> HIDE DEF counted
<1>9. ClockedBy(left, read(4)) /\ KeepsUser(counted, left)
  BY <1>4, <1>8, SwitchedOutOK DEF StepOK
<1> HIDE DEF left
<1>10. ClockedBy(back, read(6)) /\ KeepsUser(left, back)
  BY <1>4, <1>9, SwitchedInOK DEF StepOK
<1> HIDE DEF back
<1>11. /\ ClockedBy(p_stats', read(8)) /\ KeepsUser(back, p_stats')
       /\ kont'[current'] = "user" /\ how # "cpu_idle" =>
              p_stats'[current'].elapsed_total_ticks = read(8)
  BY <1>2, <1>4, <1>10, ExitedOK DEF StepOK
<1>12. TimeInv'
  BY <1>2, <1>4, <1>11 DEF TimeInv
<1>13. kont'[current'] = "user" /\ current' # idle_task =>
          p_stats'[current'].elapsed_total_ticks = now'
  <2>1. current' # idle_task => how # "cpu_idle"
    BY <1>0 DEF UserInv, StepOK
  <2> QED
    BY <1>2, <1>11, <2>1
<1>14. \A t \in Task : resume'[t] = "cpu_idle" => t = idle_task
  BY DEF Account, UserInv
<1>15. user_time' \in [Task -> Int]
  BY <1>1 DEF UserInv
<1>16. UserTimeMeasured'
  <2> SUFFICES ASSUME NEW t \in Task, kont'[t] # "dead", t # idle_task
               PROVE  p_stats'[t].user_ticks = user_time'[t]
    BY DEF UserTimeMeasured, Live
  <2>1. p_stats'[t].user_ticks = Copied(entered)[t].user_ticks
    BY <1>7, <1>8, <1>9, <1>10, <1>11 DEF KeepsUser
  <2>2. CASE t \in Made
    <3>1. t \notin Lost
      BY <2>2 DEF Lost
    <3> QED
      BY <1>1, <1>6, <2>1, <2>2, <3>1
  <2>3. CASE t \notin Made
    <3>1. t \in Live /\ t \notin Lost
      BY <2>3 DEF StepOK, Live
    <3>2. /\ p_stats'[t].user_ticks = entered[t].user_ticks
          /\ p_stats[t].user_ticks = user_time[t]
      BY <1>6, <2>1, <2>3, <3>1 DEF UserInv, UserTimeMeasured
    <3>3. p_stats[t].user_ticks \in Int /\ user_time[t] \in Int
      BY DEF UserInv, TimeInv, ClockedBy, Statistics
    <3>4. CASE t = current /\ kont[current] = "user"
      <4>1. p_stats[t].elapsed_total_ticks = now
        BY <3>4 DEF UserInv
      <4>2. entered[t].user_ticks = user_time[t] + (IF tick = 1 THEN 1 ELSE 0)
        BY <1>3, <1>5, <3>2, <3>3, <3>4, <4>1
      <4>3. user_time'[t] = user_time[t] + (IF tick = 1 THEN 1 ELSE 0)
        BY <1>1, <2>3, <3>3, <3>4
      <4> QED
        BY <3>2, <4>2, <4>3
    <3>5. CASE ~(t = current /\ kont[current] = "user")
      <4>1. entered[t].user_ticks = user_time[t]
        BY <1>5, <3>2, <3>3, <3>5
      <4>2. user_time'[t] = user_time[t]
        BY <1>1, <2>3, <3>5
      <4> QED
        BY <3>2, <4>1, <4>2
    <3> QED
      BY <3>4, <3>5
  <2> QED
    BY <2>2, <2>3
<1> QED
  BY <1>12, <1>13, <1>14, <1>15, <1>16 DEF UserInv

LEMMA StatsInitOK == StatsInit => TimeInv /\ UserInv
<1> SUFFICES ASSUME StatsInit PROVE TimeInv /\ UserInv
  OBVIOUS
<1>1. newstats \in Statistics /\ InTime(newstats, 0) /\ newstats.user_ticks = 0
      /\ newstats.elapsed_total_ticks = 0
  BY DEF newstats, Statistics, InTime
<1> DEFINE first == [newstats EXCEPT !.remaining_ticks = Quantum]
<1>2. first \in Statistics /\ InTime(first, 0) /\ first.user_ticks = 0
      /\ first.elapsed_total_ticks = 0
  BY SchedAssumption DEF newstats, Statistics, InTime
<1> HIDE DEF first
<1>3. /\ now = 0 /\ p_stats \in [Task -> {first, newstats}]
      /\ resume = [t \in Task |-> IF t = idle_task THEN "cpu_idle" ELSE "plain"]
      /\ user_time = [t \in Task |-> 0]
  BY DEF StatsInit, first
<1>4. TimeInv
  BY <1>1, <1>2, <1>3 DEF TimeInv, ClockedBy
<1>5. \A t \in Task : p_stats[t].user_ticks = 0 /\ p_stats[t].elapsed_total_ticks = 0
  BY <1>1, <1>2, <1>3
<1>6. current \in Task
  BY InitIInv, Running DEF StatsInit
<1> QED
  BY <1>3, <1>4, <1>5, <1>6 DEF UserInv, UserTimeMeasured, Live

LEMMA TimeInvariant == StatsSpec => [](TimeInv /\ UserInv)
<1>1. ASSUME KernelInv, KernelInv', TimeInv, UserInv, [StatsNext]_<<vars, statsVars>>
      PROVE  TimeInv' /\ UserInv'
  <2>1. CASE StatsStep \/ StatsClock
    <3>1. StepOK
      BY <1>1, <2>1, KernelSteps, StepIsOK
    <3> QED
      BY <1>1, <2>1, <3>1, AccountOK DEF StatsStep, StatsClock
  <2>2. CASE GetStats
    <3>1. PICK pid \in -1 .. MaxPid, st \in StatsBuffer :
               sys_get_stats(pid, st) /\ Account(FALSE, Found(pid, st))
      BY <2>2 DEF GetStats
    <3>2. StepOK
      BY <1>1, <3>1, StepIsOK DEF sys_get_stats
    <3> QED
      BY <1>1, <3>1, <3>2, AccountOK
  <2>3. CASE UNCHANGED <<vars, statsVars>>
    BY <1>1, <2>3 DEF vars, schedVars, taskVars, statsVars, TimeInv, UserInv,
                      UserTimeMeasured, Live
  <2> QED
    BY <1>1, <2>1, <2>2, <2>3 DEF StatsNext
<1> QED
  BY <1>1, StatsInitOK, KernelInvariant, PTL DEF StatsSpec

\* enter_system, exit_system and sched_next_rr charge the time since
\* elapsed_total_ticks and set it: whatever the order in which they run, for
\* two reads of get_ticks or for one, no tick is charged twice.
THEOREM TimeIsChargedOnce == StatsSpec => []TimeChargedOnce
<1>1. TimeInv => TimeChargedOnce
  BY DEF TimeInv, ClockedBy, InTime, TimeChargedOnce
<1> QED
  BY <1>1, TimeInvariant, PTL

\* Whoever comes back to user code, a child that never was there too, comes
\* through exit_system, so that enter_system (sys.c) charges as user time what
\* the process has spent in user code, and all of it.
THEOREM UserTimeIsMeasured == StatsSpec => []UserTimeMeasured
BY TimeInvariant, PTL DEF UserInv
=============================================================================
