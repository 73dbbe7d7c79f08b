---------------------------- MODULE SyscallStubs ----------------------------
(***************************************************************************)
(* The way into the kernel and back: the assembly stubs of                 *)
(* entry_wrapper.S, which libc.c calls, the SYSENTER handler of entry.S    *)
(* with its table, and errno.  A stub is described by what it pushes,      *)
(* loads, pops and tests; one step runs it up to sysenter, one is the      *)
(* kernel's, one runs it to its ret.                                       *)
(***************************************************************************)
EXTENDS Integers, Sequences

VARIABLES
    stub,      \* name of the stub that runs, or "none", or "raw"
    at,        \* "user", "kernel", "epilogue" or "halted"
    regs,      \* eax, ebx, ecx, edx
    ustack,    \* what the stub has pushed since it set up its frame
    outcome,   \* what the kernel's routine decides: [error, value]
    errno

stubVars == <<stub, at, regs, ustack, outcome, errno>>

----------------------------------------------------------------------------
(* A stub: pushes saves, loads its parameters into args, pushes frame, the *)
(* return address and a link; after sysexit it pops those two and then     *)
(* unframe, tests eax ("je": 0 is success, "jge": not negative is, "none": *)
(* no test), negates an error code if told to, and pops restores.          *)

Described(number, saves, args, frame, unframe, test, negates, restores) ==
    [number |-> number, saves |-> saves, args |-> args, frame |-> frame,
     unframe |-> unframe, test |-> test, negates |-> negates,
     restores |-> restores]

CD == <<"ecx", "edx">>
DC == <<"edx", "ecx">>

write_stub   == Described(4, <<"ebx", "ecx", "edx">>, {"ebx", "ecx", "edx"}, CD, DC,
                          "je", FALSE, <<"edx", "ecx", "ebx">>)
read_stub    == Described(3, <<"ebx", "ecx", "edx">>, {"ebx", "ecx", "edx"}, CD, DC,
                          "je", FALSE, <<"edx", "ecx", "ebx">>)
gettime_stub == Described(10, <<>>, {}, CD, DC, "none", FALSE, <<>>)
getpid_stub  == Described(20, <<>>, {}, CD, DC, "none", FALSE, <<>>)
exit_stub    == Described(1, <<>>, {}, CD, DC, "none", FALSE, <<>>)
fork_stub    == Described(2, <<>>, {}, CD, DC, "jge", TRUE, <<>>)

\* The fault: the code of get_stats, which is not negative, is negated.
get_stats_stub_fault ==
                Described(35, <<"ebx", "ecx">>, {"ebx", "ecx"}, CD, DC,
                          "je", TRUE, <<"ecx", "ebx">>)
get_stats_stub ==
                Described(35, <<"ebx", "ecx">>, {"ebx", "ecx"}, CD, DC,
                          "je", FALSE, <<"ecx", "ebx">>)

\* clone and sbrk save ebx between ecx, edx and their pops.
clone_stub   == Described(19, <<"ecx", "edx", "ebx", "ecx">>, {"ebx", "ecx"}, <<>>, DC,
                          "jge", TRUE, <<"ecx", "ebx">>)
sbrk_stub    == Described(13, <<"ecx", "edx", "ebx">>, {"ebx"}, <<>>, DC,
                          "jge", TRUE, <<"ecx">>)

\* The fault: ecx and edx are not saved from sysexit.
sem_init_stub_fault ==
                Described(21, <<"ebx">>, {"ebx", "ecx"}, CD, DC,
                          "je", TRUE, <<"ebx">>)
sem_init_stub ==
                Described(21, <<"ebx", "ecx">>, {"ebx", "ecx"}, CD, DC,
                          "je", TRUE, <<"ecx", "ebx">>)
sem_wait_stub    == Described(22, <<"ebx">>, {"ebx"}, CD, DC, "je", TRUE, <<"ebx">>)
sem_signal_stub  == Described(23, <<"ebx">>, {"ebx"}, CD, DC, "je", TRUE, <<"ebx">>)
sem_destroy_stub == Described(24, <<"ebx">>, {"ebx"}, CD, DC, "je", TRUE, <<"ebx">>)

Stub ==
    [sys_write |-> write_stub, sys_read |-> read_stub, sys_gettime |-> gettime_stub,
     sys_getpid |-> getpid_stub, sys_exit |-> exit_stub, sys_fork |-> fork_stub,
     sys_get_stats |-> get_stats_stub, sys_clone |-> clone_stub, sys_sbrk |-> sbrk_stub,
     sys_sem_init |-> sem_init_stub, sys_sem_wait |-> sem_wait_stub,
     sys_sem_signal |-> sem_signal_stub, sys_sem_destroy |-> sem_destroy_stub]

----------------------------------------------------------------------------
(* The kernel's side.                                                      *)

MAX_SYSCALL == 36

\* The entries of the table that are not sys_ni_syscall.
sys_call_table ==
    [n \in 0 .. MAX_SYSCALL - 1 |->
        CASE n = 1  -> "sys_exit"        [] n = 2  -> "sys_fork"
          [] n = 3  -> "sys_read"        [] n = 4  -> "sys_write"
          [] n = 10 -> "sys_gettime"     [] n = 13 -> "sys_sbrk"
          [] n = 19 -> "sys_clone"       [] n = 20 -> "sys_getpid"
          [] n = 21 -> "sys_sem_init"    [] n = 22 -> "sys_sem_wait"
          [] n = 23 -> "sys_sem_signal"  [] n = 24 -> "sys_sem_destroy"
          [] n = 35 -> "sys_get_stats"   [] OTHER  -> "sys_ni_syscall"]

\* Where the handler goes for the number in eax: its range test lets
\* MAX_SYSCALL itself through, one past the table.
Routine(n) == IF n < 0 \/ n > MAX_SYSCALL THEN "sysenter_err"
              ELSE IF n = MAX_SYSCALL THEN "beyond the table"
              ELSE sys_call_table[n]

\* The error codes of each routine, and what it returns if all goes well:
\* 0, or a value (a PID, a time, an address) that is not negative.
Errors(r) ==
    CASE r \in {"sys_write", "sys_read"}          -> {9, 14, 22}
      [] r = "sys_get_stats"                      -> {3, 14, 22}
      [] r = "sys_fork"                           -> {11, 12}
      [] r = "sys_clone"                          -> {11, 22}
      [] r = "sys_sbrk"                           -> {12}
      [] r = "sys_sem_init"                       -> {16, 22}
      [] r \in {"sys_sem_wait", "sys_sem_signal"} -> {22}
      [] r = "sys_sem_destroy"                    -> {1, 22}
      [] OTHER                                    -> {}

Values(r) == IF r \in {"sys_fork", "sys_clone", "sys_sbrk", "sys_gettime", "sys_getpid"}
             THEN {5} ELSE {0}

Outcomes(r) == [error : Errors(r), value : {0}] \cup [error : {0}, value : Values(r)]

\* sys_write, sys_read and sys_get_stats return error codes with a positive
\* sign, the others with a negative one.
ReturnsPositive == {"sys_write", "sys_read", "sys_get_stats"}

KernelEax(r, o) == IF o.error = 0 THEN o.value
                   ELSE IF r \in ReturnsPositive THEN o.error ELSE -o.error

----------------------------------------------------------------------------
\* Registers hold the caller's values, under their own names, a parameter,
\* or what the kernel or the stub puts there.
CallerRegs == [eax |-> "eax", ebx |-> "ebx", ecx |-> "ecx", edx |-> "edx"]
Size == 7      \* the size that the program passes to write or read

Pushed(stack, r, names) == stack \o [i \in 1 .. Len(names) |-> r[names[i]]]

\* Popping into names in turn: the last pop into a register counts.
Popped(stack, r, names) ==
    [x \in DOMAIN r |->
        LET pops == {k \in 1 .. Len(names) : names[k] = x} IN
        IF pops = {} THEN r[x]
        ELSE stack[Len(stack) + 1 - (CHOOSE k \in pops : \A l \in pops : l <= k)]]
Shrunk(stack, names) == SubSeq(stack, 1, Len(stack) - Len(names))

\* A program calls a stub; it runs up to sysenter.
EnterStub(s) ==
    /\ at = "user"
    /\ LET d == Stub[s]
           loaded == [x \in DOMAIN regs |-> IF x \in d.args THEN "parameter"
                                                            ELSE CallerRegs[x]]
       IN /\ ustack' = Pushed(Pushed(<<>>, CallerRegs, d.saves), loaded, d.frame)
                          \o <<"return address", "link">>
          /\ regs' = [loaded EXCEPT !.eax = d.number]
    /\ stub' = s
    /\ at' = "kernel"
    /\ outcome' \in Outcomes(Routine(Stub[s].number))
    /\ UNCHANGED errno

\* system_call_handler: SAVE_ALL and RESTORE_ALL keep ebx; eax is the
\* result; sysexit needs the return address and the stack in edx and ecx.
\* sys_exit does not come back.
SysExit ==
    /\ at = "kernel"
    /\ stub # "raw"
    /\ Routine(regs.eax) # "sys_exit"
    /\ regs' = [regs EXCEPT !.eax = KernelEax(Routine(@), outcome),
                            !.edx = ustack[Len(ustack) - 1],
                            !.ecx = "stack address"]
    /\ at' = "epilogue"
    /\ UNCHANGED <<stub, ustack, outcome, errno>>

\* The stub's test of eax.
Failed(d, eax) == \/ d.test = "je" /\ eax # 0
                  \/ d.test = "jge" /\ eax < 0

\* What the stub leaves in eax when the call has not failed.
ResultOf(s, eax) == IF s \in {"sys_write", "sys_read"} THEN Size ELSE eax

\* The rest of the stub.  Storing errno takes ebx for its address.
LeaveStub ==
    /\ at = "epilogue"
    /\ LET d == Stub[stub]
           framed == SubSeq(ustack, 1, Len(ustack) - 2)
           r == Popped(framed, regs, d.unframe)
           code == IF d.negates THEN -regs.eax ELSE regs.eax
           rest == Shrunk(framed, d.unframe)
       IN /\ \/ /\ Failed(d, regs.eax)
                /\ errno' = code
                /\ regs' = Popped(rest, [r EXCEPT !.eax = -1, !.ebx = "address of errno"],
                                  d.restores)
             \/ /\ ~Failed(d, regs.eax)
                /\ regs' = Popped(rest, [r EXCEPT !.eax = ResultOf(stub, @)], d.restores)
                /\ UNCHANGED errno
          /\ ustack' = Shrunk(rest, d.restores)
    /\ at' = "user"
    /\ UNCHANGED <<stub, outcome>>

\* A program executes sysenter itself with any number: one that has no
\* routine gets -ENOSYS, the one past the table a jump to wherever.
RawCall(n) ==
    /\ at = "user"
    /\ Routine(n) \in {"sysenter_err", "beyond the table", "sys_ni_syscall"}
    /\ stub' = "raw"
    /\ at' = IF Routine(n) = "beyond the table" THEN "halted" ELSE "user"
    /\ regs' = [CallerRegs EXCEPT !.eax = IF at' = "halted" THEN n ELSE -38,
                                  !.ecx = "stack address", !.edx = "return address"]
    /\ ustack' = <<>>
    /\ outcome' = [error |-> 38, value |-> 0]
    /\ UNCHANGED errno

StubInit ==
    /\ stub = "none"
    /\ at = "user"
    /\ regs = CallerRegs
    /\ ustack = <<>>
    /\ outcome = [error |-> 0, value |-> 0]
    /\ errno = 0

StubNext ==
    \/ \E s \in DOMAIN Stub : EnterStub(s)
    \/ SysExit
    \/ LeaveStub
    \/ \E n \in {-1, 5, MAX_SYSCALL, MAX_SYSCALL + 1} : RawCall(n)

StubSpec == StubInit /\ [][StubNext]_stubVars

----------------------------------------------------------------------------
Returned == at = "user" /\ stub \in DOMAIN Stub

\* The stubs of clone and sbrk pop in another order than they push, and that
\* of fork does not save ebx from the store of errno.
LosesRegisters ==
    stub \in {"sys_clone", "sys_sbrk"} \/ (stub = "sys_fork" /\ outcome.error # 0)

\* Every number in a stub is the one of its routine in the table, and no stub
\* reaches past the table; sysexit destroys ecx and edx, the parameters take
\* ebx, ecx and edx, and errno takes ebx, yet all but three stubs give their
\* caller these registers back; and all leave the stack as they found it.
RegistersKept ==
    /\ stub \in DOMAIN Stub /\ at = "kernel" => Routine(regs.eax) = stub
    /\ Returned => ustack = <<>>
    /\ Returned /\ ~LosesRegisters =>
          regs = [CallerRegs EXCEPT !.eax = regs.eax]
    /\ at = "halted" => regs.eax = MAX_SYSCALL

\* The routines and the stubs agree on signs: a program gets -1 exactly when
\* the kernel reports an error, and errno is then the code, not negative,
\* that the kernel meant; otherwise errno keeps its value.
ErrorsReported ==
    [][at = "epilogue" =>
          IF outcome.error # 0
          THEN regs'.eax = -1 /\ errno' = outcome.error
          ELSE regs'.eax >= 0 /\ errno' = errno]_stubVars
=============================================================================
