------------------------------- MODULE Ptable -------------------------------
(***************************************************************************)
(* The process table of proc.c: slot allocation with compare-and-swap,     *)
(* fork, exit, wait, kill and yield, the per-CPU scheduler loops, and the  *)
(* hand-off of ptable.lock across swtch.                                   *)
(*                                                                         *)
(* A step is the code between two accesses that another CPU can observe.   *)
(* Code that runs under ptable.lock is one step when nothing outside the   *)
(* lock touches what it reads or writes; it is split where allocproc,      *)
(* which takes no lock, can come in between.                               *)
(***************************************************************************)
EXTENDS Integers, FiniteSets

CONSTANTS CPU,       \* the processors
          NoCPU,     \* the owner of a free lock
          NPROC,     \* slots of the process table
          MaxPid,    \* bound: fork is not called once nextpid has reached it
          KillPids   \* bound: the pids that programs pass to kill

ASSUME CPUAssumption == NoCPU \notin CPU
ASSUME NPROCAssumption == NPROC \in Nat \ {0}
ASSUME MaxPidAssumption == MaxPid \in Nat
ASSUME KillPidsAssumption == KillPids \subseteq Nat

Proc == 1 .. NPROC       \* the slots, in table order
None == 0                \* the null struct proc *
initproc == 1            \* userinit takes the first slot of an empty table

VARIABLES
  lock,     \* the CPU that holds ptable.lock, or NoCPU
  proc,     \* c->proc, the process whose kernel thread CPU c executes
  scan,     \* the next slot of c's scheduler loop, 0 outside of the loop
  state, pid, parent, chan, killed, kstack,  \* fields of struct proc
  pending,  \* a signal whose handling is to kill is pending and unblocked
  nextpid,
  pc,       \* where the kernel thread of a slot is
  ctx,      \* "live" on a CPU, "saving" inside sched, "saved" by swtch
  inyield,  \* the thread is inside yield, called from the timer interrupt
  np,       \* local slot pointer of allocproc and fork, and of wait
  lpid      \* local_pid of allocpid; locals not in use have their first value

tableVars  == <<state, pid, parent, chan, killed, kstack, pending>>
threadVars == <<pc, ctx, inyield, np, lpid>>
vars == <<lock, proc, scan, state, pid, parent, chan, killed, kstack, pending,
          nextpid, pc, ctx, inyield, np, lpid>>

States == {"UNUSED", "EMBRYO", "SLEEPING", "RUNNABLE", "RUNNING", "ZOMBIE"}

Labels == {"forkret", "user", "ret", "trapret", "alloc", "readpid", "caspid",
           "kalloc", "copyuvm", "publish", "kill", "exit", "acqwait", "wait",
           "reap", "sleep", "initpanic", "schedpanic"}

\* The variables that say who executes where, and the rest of the table.
ControlType ==
  /\ lock \in CPU \cup {NoCPU}
  /\ proc \in [CPU -> Proc \cup {None}]
  /\ scan \in [CPU -> 0 .. NPROC + 1]
  /\ state \in [Proc -> States]
  /\ pc \in [Proc -> Labels]
  /\ ctx \in [Proc -> {"live", "saving", "saved"}]
  /\ inyield \in [Proc -> BOOLEAN]
  /\ np \in [Proc -> 1 .. NPROC + 1]

TableType ==
  /\ pid \in [Proc -> Nat]
  /\ parent \in [Proc -> Proc \cup {None}]
  /\ chan \in [Proc -> Proc \cup {None}]
  /\ killed \in [Proc -> BOOLEAN]
  /\ kstack \in [Proc -> BOOLEAN]
  /\ pending \in [Proc -> BOOLEAN]
  /\ nextpid \in Nat
  /\ lpid \in [Proc -> Nat]

\* The type invariant: what the fields of struct proc, the CPUs and the threads
\* may hold; the loops of allocproc and scheduler stay within the table.
TypeOK == ControlType /\ TableType

\* The table after userinit: one RUNNABLE process whose context starts at
\* forkret, and every CPU about to enter its scheduler loop.
Init ==
  /\ lock = NoCPU
  /\ proc = [c \in CPU |-> None]
  /\ scan = [c \in CPU |-> 0]
  /\ state = [p \in Proc |-> IF p = initproc THEN "RUNNABLE" ELSE "UNUSED"]
  /\ pid = [p \in Proc |-> IF p = initproc THEN 2 ELSE 0]
  /\ parent = [p \in Proc |-> None]
  /\ chan = [p \in Proc |-> None]
  /\ killed = [p \in Proc |-> FALSE]
  /\ kstack = [p \in Proc |-> p = initproc]
  /\ pending = [p \in Proc |-> FALSE]
  /\ nextpid = 2
  /\ pc = [p \in Proc |-> "forkret"]
  /\ ctx = [p \in Proc |-> "saved"]
  /\ inyield = [p \in Proc |-> FALSE]
  /\ np = [p \in Proc |-> 1]
  /\ lpid = [p \in Proc |-> 0]

-----------------------------------------------------------------------------
(***************************************************************************)
(* Control of a kernel thread.                                             *)
(***************************************************************************)

\* CPU c executes the thread of p at label l, not inside yield.
At(c, p, l) == proc[c] = p /\ ctx[p] = "live" /\ ~inyield[p] /\ pc[p] = l

Goto(p, l) == pc' = [pc EXCEPT ![p] = l]

\* A system call that used np returns.
Return(p) == Goto(p, "ret") /\ np' = [np EXCEPT ![p] = 1]

Acquire(c) == lock = NoCPU /\ lock' = c
Release(c) == lock' = NoCPU

\* A loop over the table stops at the first slot of S.
First(p, S) == p \in S /\ \A q \in S : p <= q

-----------------------------------------------------------------------------
(***************************************************************************)
(* scheduler: one pass over the table under ptable.lock.  States change to *)
(* and from RUNNABLE only under the lock, so slots that are passed over    *)
(* need no step.                                                           *)
(***************************************************************************)

RunnableFrom(c) == {p \in Proc : p >= scan[c] /\ state[p] = "RUNNABLE"}

SchedAcquire(c) ==
  /\ proc[c] = None /\ scan[c] = 0
  /\ Acquire(c)
  /\ scan' = [scan EXCEPT ![c] = 1]
  /\ UNCHANGED <<proc, tableVars, nextpid, threadVars>>

\* Mutant: the loop starts again at the first slot after every process.
SchedRunRestarts(c) ==
  /\ proc[c] = None /\ scan[c] # 0
  /\ \E p \in Proc :
       /\ First(p, RunnableFrom(c))
       /\ proc' = [proc EXCEPT ![c] = p]
       /\ scan' = [scan EXCEPT ![c] = 1]
       /\ state' = [state EXCEPT ![p] = "RUNNING"]
       /\ ctx' = [ctx EXCEPT ![p] = "live"]
  /\ UNCHANGED <<lock, pid, parent, chan, killed, kstack, pending, nextpid,
                 pc, inyield, np, lpid>>

SchedRun(c) ==
  /\ proc[c] = None /\ scan[c] # 0
  /\ \E p \in Proc :
       /\ First(p, RunnableFrom(c))
       /\ proc' = [proc EXCEPT ![c] = p]
       /\ scan' = [scan EXCEPT ![c] = p + 1]
       /\ state' = [state EXCEPT ![p] = "RUNNING"]
       /\ ctx' = [ctx EXCEPT ![p] = "live"]
  /\ UNCHANGED <<lock, pid, parent, chan, killed, kstack, pending, nextpid,
                 pc, inyield, np, lpid>>

SchedRelease(c) ==
  /\ proc[c] = None /\ scan[c] # 0
  /\ RunnableFrom(c) = {}
  /\ scan' = [scan EXCEPT ![c] = 0]
  /\ Release(c)
  /\ UNCHANGED <<proc, tableVars, nextpid, threadVars>>

\* sched: its panics, then swtch to the scheduler of the CPU, which clears
\* c->proc and goes on with its pass, still holding the lock.
Sched(c, p) ==
  /\ proc[c] = p /\ ctx[p] = "saving"
  /\ IF lock # c \/ state[p] = "RUNNING"
       THEN /\ Goto(p, "schedpanic")
            /\ ctx' = [ctx EXCEPT ![p] = "live"]
            /\ UNCHANGED proc
       ELSE /\ proc' = [proc EXCEPT ![c] = None]
            /\ ctx' = [ctx EXCEPT ![p] = "saved"]
            /\ UNCHANGED pc
  /\ UNCHANGED <<lock, scan, tableVars, nextpid, inyield, np, lpid>>

-----------------------------------------------------------------------------
(***************************************************************************)
(* Traps: system calls, the timer, and the check on the way out.           *)
(***************************************************************************)

\* A system call; a killed process exits instead.
Syscall(c, p, l) ==
  /\ At(c, p, "user")
  /\ Goto(p, IF killed[p] THEN "exit" ELSE l)
  /\ UNCHANGED <<lock, proc, scan, tableVars, nextpid, ctx, inyield, lpid>>

SysFork(c, p) ==
  /\ nextpid < MaxPid
  /\ Syscall(c, p, "alloc")
  /\ np' = [np EXCEPT ![p] = 1]
SysKill(c, p) == KillPids # {} /\ Syscall(c, p, "kill") /\ UNCHANGED np
SysExit(c, p) == Syscall(c, p, "exit") /\ UNCHANGED np
SysWait(c, p) == Syscall(c, p, "acqwait") /\ UNCHANGED np

\* The second test of killed in trap, after the system call or the yield.
SyscallRet(c, p) ==
  /\ At(c, p, "ret")
  /\ Goto(p, IF killed[p] THEN "exit" ELSE "trapret")
  /\ UNCHANGED <<lock, proc, scan, tableVars, nextpid, ctx, inyield, np, lpid>>

\* What check_kernel_sigs does here: killed is set, the signal stays pending.
CheckSigs(p) == killed' = [killed EXCEPT ![p] = @ \/ pending[p]]

TrapRet(c, p) ==
  /\ At(c, p, "trapret")
  /\ CheckSigs(p)
  /\ Goto(p, "user")
  /\ UNCHANGED <<lock, proc, scan, state, pid, parent, chan, kstack, pending,
                 nextpid, ctx, inyield, np, lpid>>

\* The labels at which the thread runs with interrupts enabled.
Interruptible == Labels \ {"forkret", "wait", "reap", "sleep", "initpanic",
                           "schedpanic"}

\* An interrupt in kernel mode: trapret checks the signals there too.
KernelIntr(c, p) ==
  /\ \E l \in Interruptible \ {"user"} : At(c, p, l)
  /\ CheckSigs(p)
  /\ UNCHANGED <<lock, proc, scan, state, pid, parent, chan, kstack, pending,
                 nextpid, threadVars>>

\* The timer in user mode finds the process killed.
TimerKilled(c, p) ==
  /\ At(c, p, "user") /\ killed[p]
  /\ Goto(p, "exit")
  /\ UNCHANGED <<lock, proc, scan, tableVars, nextpid, ctx, inyield, np, lpid>>

\* Mutant: yield changes the state without ptable.lock.
YieldUnlocked(c, p) ==
  /\ \E l \in Interruptible : At(c, p, l)
  /\ ~(pc[p] = "user" /\ killed[p])
  /\ state' = [state EXCEPT ![p] = "RUNNABLE"]
  /\ ctx' = [ctx EXCEPT ![p] = "saving"]
  /\ inyield' = [inyield EXCEPT ![p] = TRUE]
  /\ UNCHANGED <<lock, proc, scan, pid, parent, chan, killed, kstack, pending,
                 nextpid, pc, np, lpid>>

\* The timer otherwise: yield, up to the call of sched.
Yield(c, p) ==
  /\ \E l \in Interruptible : At(c, p, l)
  /\ ~(pc[p] = "user" /\ killed[p])
  /\ Acquire(c)
  /\ state' = [state EXCEPT ![p] = "RUNNABLE"]
  /\ ctx' = [ctx EXCEPT ![p] = "saving"]
  /\ inyield' = [inyield EXCEPT ![p] = TRUE]
  /\ UNCHANGED <<proc, scan, pid, parent, chan, killed, kstack, pending,
                 nextpid, pc, np, lpid>>

\* yield after sched has returned, and the rest of the trap.
YieldDone(c, p) ==
  /\ proc[c] = p /\ ctx[p] = "live" /\ inyield[p]
  /\ Release(c)
  /\ inyield' = [inyield EXCEPT ![p] = FALSE]
  /\ IF pc[p] = "user"
       THEN Goto(p, "ret") /\ UNCHANGED killed
       ELSE CheckSigs(p) /\ UNCHANGED pc
  /\ UNCHANGED <<proc, scan, state, pid, parent, chan, kstack, pending,
                 nextpid, ctx, np, lpid>>

\* Mutant: the new process goes to user mode with the lock.
ForkRetKeepsLock(c, p) ==
  /\ At(c, p, "forkret")
  /\ Goto(p, "trapret")
  /\ UNCHANGED <<lock, proc, scan, tableVars, nextpid, ctx, inyield, np, lpid>>

\* A new process releases the lock that the scheduler acquired.
ForkRet(c, p) ==
  /\ At(c, p, "forkret")
  /\ Release(c)
  /\ Goto(p, "trapret")
  /\ UNCHANGED <<proc, scan, tableVars, nextpid, ctx, inyield, np, lpid>>

-----------------------------------------------------------------------------
(***************************************************************************)
(* fork: allocproc and allocpid without a lock, then the publication of    *)
(* the child under ptable.lock.                                            *)
(***************************************************************************)

\* cas(&(p->state), UNUSED, EMBRYO) on the next slot of the loop.
AllocCas(c, p) ==
  /\ At(c, p, "alloc")
  /\ LET i == np[p] IN
       \/ /\ i > NPROC
          /\ Return(p) /\ UNCHANGED state
       \/ /\ i <= NPROC /\ state[i] # "UNUSED"
          /\ np' = [np EXCEPT ![p] = i + 1] /\ UNCHANGED <<state, pc>>
       \/ /\ i <= NPROC /\ state[i] = "UNUSED"
          /\ state' = [state EXCEPT ![i] = "EMBRYO"]
          /\ Goto(p, "readpid") /\ UNCHANGED np
  /\ UNCHANGED <<lock, proc, scan, pid, parent, chan, killed, kstack, pending,
                 nextpid, ctx, inyield, lpid>>

ReadNextPid(c, p) ==
  /\ At(c, p, "readpid")
  /\ lpid' = [lpid EXCEPT ![p] = nextpid]
  /\ Goto(p, "caspid")
  /\ UNCHANGED <<lock, proc, scan, tableVars, nextpid, ctx, inyield, np>>

\* Mutant: the compare-and-swap stores the value it compared with.
CasSamePid(c, p) ==
  /\ At(c, p, "caspid")
  /\ pid' = [pid EXCEPT ![np[p]] = lpid[p] + 1]
  /\ lpid' = [lpid EXCEPT ![p] = 0]
  /\ Goto(p, "kalloc")
  /\ UNCHANGED <<lock, proc, scan, state, parent, chan, killed, kstack,
                 pending, nextpid, ctx, inyield, np>>

\* cas(&nextpid, local_pid, local_pid + 1), and p->pid once it succeeds.
CasNextPid(c, p) ==
  /\ At(c, p, "caspid")
  /\ \/ /\ nextpid = lpid[p]
        /\ nextpid' = lpid[p] + 1
        /\ pid' = [pid EXCEPT ![np[p]] = lpid[p] + 1]
        /\ lpid' = [lpid EXCEPT ![p] = 0]
        /\ Goto(p, "kalloc")
     \/ /\ nextpid # lpid[p]
        /\ Goto(p, "readpid") /\ UNCHANGED <<nextpid, pid, lpid>>
  /\ UNCHANGED <<lock, proc, scan, state, parent, chan, killed, kstack,
                 pending, ctx, inyield, np>>

\* The kernel stack, with a context that starts at forkret; without memory
\* the slot is given back, its pid left in place.
Kalloc(c, p) ==
  /\ At(c, p, "kalloc")
  /\ \/ /\ kstack' = [kstack EXCEPT ![np[p]] = TRUE]
        /\ pc' = [pc EXCEPT ![p] = "copyuvm", ![np[p]] = "forkret"]
        /\ ctx' = [ctx EXCEPT ![np[p]] = "saved"]
        /\ inyield' = [inyield EXCEPT ![np[p]] = FALSE]
        /\ UNCHANGED <<state, np>>
     \/ /\ state' = [state EXCEPT ![np[p]] = "UNUSED"]
        /\ Return(p)
        /\ UNCHANGED <<kstack, ctx, inyield>>
  /\ UNCHANGED <<lock, proc, scan, pid, parent, chan, killed, pending, nextpid,
                 lpid>>

\* Mutant: the failure path of fork forgets kfree.
CopyUvmLeaks(c, p) ==
  /\ At(c, p, "copyuvm")
  /\ \/ /\ parent' = [parent EXCEPT ![np[p]] = p]
        /\ Goto(p, "publish")
        /\ UNCHANGED <<state, np>>
     \/ /\ state' = [state EXCEPT ![np[p]] = "UNUSED"]
        /\ Return(p)
        /\ UNCHANGED parent
  /\ UNCHANGED <<lock, proc, scan, pid, chan, killed, kstack, pending, nextpid,
                 ctx, inyield, lpid>>

CopyUvm(c, p) ==
  /\ At(c, p, "copyuvm")
  /\ \/ /\ parent' = [parent EXCEPT ![np[p]] = p]
        /\ Goto(p, "publish")
        /\ UNCHANGED <<state, kstack, np>>
     \/ /\ kstack' = [kstack EXCEPT ![np[p]] = FALSE]
        /\ state' = [state EXCEPT ![np[p]] = "UNUSED"]
        /\ Return(p)
        /\ UNCHANGED parent
  /\ UNCHANGED <<lock, proc, scan, pid, chan, killed, pending, nextpid, ctx,
                 inyield, lpid>>

ForkPublish(c, p) ==
  /\ At(c, p, "publish")
  /\ lock = NoCPU
  /\ pending' = [pending EXCEPT ![np[p]] = FALSE]
  /\ state' = [state EXCEPT ![np[p]] = "RUNNABLE"]
  /\ Return(p)
  /\ UNCHANGED <<lock, proc, scan, pid, parent, chan, killed, kstack, nextpid,
                 ctx, inyield, lpid>>

-----------------------------------------------------------------------------
(***************************************************************************)
(* kill, exit and wait.                                                    *)
(***************************************************************************)

\* kill marks the first slot that carries the pid, whatever its state.
Kill(c, p) ==
  /\ At(c, p, "kill")
  /\ lock = NoCPU
  /\ \E k \in KillPids :
       LET S == {q \in Proc : pid[q] = k} IN
         \/ S = {} /\ UNCHANGED pending
         \/ \E q \in Proc : First(q, S) /\ pending' = [pending EXCEPT ![q] = TRUE]
  /\ Goto(p, "ret")
  /\ UNCHANGED <<lock, proc, scan, state, pid, parent, chan, killed, kstack,
                 nextpid, ctx, inyield, np, lpid>>

ExitInit(c) ==
  /\ At(c, initproc, "exit")
  /\ Goto(initproc, "initpanic")
  /\ UNCHANGED <<lock, proc, scan, tableVars, nextpid, ctx, inyield, np, lpid>>

\* wakeup1 on every channel of a set.
Wakeup1(C) ==
  [q \in Proc |-> IF state[q] = "SLEEPING" /\ chan[q] \in C THEN "RUNNABLE"
                  ELSE state[q]]

\* Mutant: exit forgets its parent.
ExitWakesInit(p) ==
  {i \in {initproc} : \E q \in Proc : parent[q] = p /\ state[q] = "ZOMBIE"}

\* The channels exit wakes: the parent, and init if it inherits a zombie.
ExitWakes(p) ==
  {parent[p]} \cup
  {i \in {initproc} : \E q \in Proc : parent[q] = p /\ state[q] = "ZOMBIE"}

\* Mutant: the children keep the parent that is gone.
ExitAbandons(c, p) ==
  /\ At(c, p, "exit") /\ p # initproc
  /\ Acquire(c)
  /\ state' = [Wakeup1(ExitWakes(p)) EXCEPT ![p] = "ZOMBIE"]
  /\ ctx' = [ctx EXCEPT ![p] = "saving"]
  /\ UNCHANGED <<proc, scan, pid, parent, chan, killed, kstack, pending,
                 nextpid, pc, inyield, np, lpid>>

Exit(c, p) ==
  /\ At(c, p, "exit") /\ p # initproc
  /\ Acquire(c)
  /\ state' = [Wakeup1(ExitWakes(p)) EXCEPT ![p] = "ZOMBIE"]
  /\ parent' = [q \in Proc |-> IF parent[q] = p THEN initproc ELSE parent[q]]
  /\ ctx' = [ctx EXCEPT ![p] = "saving"]
  /\ UNCHANGED <<proc, scan, pid, chan, killed, kstack, pending, nextpid, pc,
                 inyield, np, lpid>>

Children(p) == {q \in Proc : parent[q] = p}

Zombies(p) == {q \in Children(p) : state[q] = "ZOMBIE"}

\* Mutant: wait does not look at killed.
WaitIgnoresKilled(p) == Children(p) = {}

\* No point waiting.
WaitGivesUp(p) == Children(p) = {} \/ killed[p]

WaitAcquire(c, p) ==
  /\ At(c, p, "acqwait")
  /\ Acquire(c)
  /\ Goto(p, "wait")
  /\ UNCHANGED <<proc, scan, tableVars, nextpid, ctx, inyield, np, lpid>>

\* Mutant: the slot is marked UNUSED before it has been cleared.
WaitReapEarly(c, p) ==
  /\ At(c, p, "wait")
  /\ \E q \in Proc :
       /\ First(q, Zombies(p))
       /\ state' = [state EXCEPT ![q] = "UNUSED"]
       /\ kstack' = [kstack EXCEPT ![q] = FALSE]
       /\ pid' = [pid EXCEPT ![q] = 0]
       /\ parent' = [parent EXCEPT ![q] = None]
       /\ killed' = [killed EXCEPT ![q] = FALSE]
       /\ np' = [np EXCEPT ![p] = q]
  /\ Goto(p, "reap")
  /\ UNCHANGED <<lock, proc, scan, chan, pending, nextpid, ctx, inyield, lpid>>

\* wait has found an exited child: everything of the slot but its state.
WaitReap(c, p) ==
  /\ At(c, p, "wait")
  /\ \E q \in Proc :
       /\ First(q, Zombies(p))
       /\ kstack' = [kstack EXCEPT ![q] = FALSE]
       /\ pid' = [pid EXCEPT ![q] = 0]
       /\ parent' = [parent EXCEPT ![q] = None]
       /\ killed' = [killed EXCEPT ![q] = FALSE]
       /\ np' = [np EXCEPT ![p] = q]
  /\ Goto(p, "reap")
  /\ UNCHANGED <<lock, proc, scan, state, chan, pending, nextpid, ctx, inyield,
                 lpid>>

\* ... and its state last, which lets allocproc have the slot.
WaitFree(c, p) ==
  /\ At(c, p, "reap")
  /\ state' = [state EXCEPT ![np[p]] = "UNUSED"]
  /\ Release(c)
  /\ Return(p)
  /\ UNCHANGED <<proc, scan, pid, parent, chan, killed, kstack, pending,
                 nextpid, ctx, inyield, lpid>>

WaitFail(c, p) ==
  /\ At(c, p, "wait")
  /\ Zombies(p) = {}
  /\ WaitGivesUp(p)
  /\ Release(c)
  /\ Goto(p, "ret")
  /\ UNCHANGED <<proc, scan, tableVars, nextpid, ctx, inyield, np, lpid>>

\* sleep(curproc, &ptable.lock), up to the call of sched.
WaitSleep(c, p) ==
  /\ At(c, p, "wait")
  /\ Zombies(p) = {} /\ ~WaitGivesUp(p)
  /\ chan' = [chan EXCEPT ![p] = p]
  /\ state' = [state EXCEPT ![p] = "SLEEPING"]
  /\ ctx' = [ctx EXCEPT ![p] = "saving"]
  /\ Goto(p, "sleep")
  /\ UNCHANGED <<lock, proc, scan, pid, parent, killed, kstack, pending,
                 nextpid, inyield, np, lpid>>

\* The end of sleep, back in the loop of wait with the lock held.
SleepDone(c, p) ==
  /\ At(c, p, "sleep")
  /\ chan' = [chan EXCEPT ![p] = None]
  /\ Goto(p, "wait")
  /\ UNCHANGED <<lock, proc, scan, state, pid, parent, killed, kstack, pending,
                 nextpid, ctx, inyield, np, lpid>>

-----------------------------------------------------------------------------
Scheduler(c) == SchedAcquire(c) \/ SchedRun(c) \/ SchedRelease(c)

\* The steps of a thread into and out of the scheduler.
SwitchStep(c, p) == Sched(c, p) \/ YieldDone(c, p) \/ ForkRet(c, p)

\* What a thread does until it is back in user mode.
KernelStep(c, p) ==
  \/ SyscallRet(c, p) \/ TrapRet(c, p) \/ TimerKilled(c, p)
  \/ AllocCas(c, p) \/ ReadNextPid(c, p) \/ CasNextPid(c, p) \/ Kalloc(c, p)
  \/ CopyUvm(c, p) \/ ForkPublish(c, p)
  \/ Kill(c, p) \/ Exit(c, p)
  \/ WaitAcquire(c, p) \/ WaitReap(c, p) \/ WaitFree(c, p) \/ WaitFail(c, p)
  \/ WaitSleep(c, p) \/ SleepDone(c, p)

\* What the program asks for.
UserStep(c, p) == SysFork(c, p) \/ SysKill(c, p) \/ SysExit(c, p) \/ SysWait(c, p)

Next ==
  \E c \in CPU :
    \/ Scheduler(c)
    \/ ExitInit(c)
    \/ \E p \in Proc : \/ SwitchStep(c, p) \/ KernelStep(c, p)
                       \/ UserStep(c, p) \/ KernelIntr(c, p) \/ Yield(c, p)

Spec == Init /\ [][Next]_vars

\* A CPU never stops executing; a timer interrupt that comes while interrupts
\* are off stays pending in the local APIC until they are on; and a tick is
\* long enough for a process that keeps being scheduled to make a step.  The
\* steps of p all need proc[c] = p.
Fairness ==
  /\ \A c \in CPU :
       /\ WF_vars(Scheduler(c) \/ \E p \in Proc : proc[c] = p /\ SwitchStep(c, p))
       /\ SF_vars(\E p \in Proc : proc[c] = p /\ Yield(c, p))
  /\ \A p \in Proc : SF_vars(\E c \in CPU : proc[c] = p /\ KernelStep(c, p))

FairSpec == Spec /\ Fairness

-----------------------------------------------------------------------------
(***************************************************************************)
(* What must hold.                                                         *)
(***************************************************************************)
Live == {"SLEEPING", "RUNNABLE", "RUNNING"}

\* No two CPUs ever execute on the same kernel stack: yield, sleep and exit
\* keep ptable.lock from the change of p->state until swtch has left the stack.
KernelStackExclusive ==
  \A c, d \in CPU : proc[c] # None /\ proc[c] = proc[d] => c = d

\* A scheduler never switches to a context that is still being written: a
\* RUNNABLE process is saved, or the CPU that is saving it holds the lock.
RunnableIsSaved ==
  \A p \in Proc : state[p] = "RUNNABLE" =>
    \/ ctx[p] = "saved" /\ \A c \in CPU : proc[c] # p
    \/ ctx[p] = "saving" /\ \E c \in CPU : proc[c] = p /\ lock = c

\* A process marked RUNNING is executed by some CPU, and a thread that has
\* not given up the lock-protected state is marked RUNNING.
RunningIsOnCPU ==
  \A p \in Proc :
    (state[p] = "RUNNING") <=> (\E c \in CPU : proc[c] = p /\ ctx[p] = "live")

\* Where a thread holds ptable.lock: inside sched, after it until the release
\* in yield or forkret, and in wait.
HoldsLock(p) ==
  \/ ctx[p] = "saving" \/ inyield[p]
  \/ pc[p] \in {"forkret", "wait", "reap", "sleep"}

\* sched never panics, and whoever resumes from it holds ptable.lock on the
\* CPU it resumed on, so the release in yield, forkret and wait is legal.
LockHandOff ==
  /\ \A p \in Proc : pc[p] # "schedpanic"
  /\ \A c \in CPU, p \in Proc :
       proc[c] = p => ((lock = c) <=> HoldsLock(p))

\* exit and wait lose no wakeup: a process asleep in wait has children, and
\* none of them, own or inherited by init, has already exited.
NoLostExit ==
  \A p \in Proc : state[p] = "SLEEPING" =>
    chan[p] = p /\ Zombies(p) = {} /\ Children(p) # {}

\* The compare-and-swap loop of allocpid never gives two slots the same pid.
PidsUnique == \A p, q \in Proc : p # q /\ pid[p] = pid[q] => pid[p] = 0

\* A kernel stack is freed once, only when no CPU can be on it, and an unused
\* slot holds none, on the failure paths of allocproc and fork too.
KstackOwned ==
  /\ \A p \in Proc : state[p] = "UNUSED" => ~kstack[p]
  /\ \A p \in Proc : state[p] \in Live => kstack[p]
  /\ \A c \in CPU : proc[c] # None => kstack[proc[c]]

\* A slot that allocproc has claimed belongs to one fork until that fork
\* publishes it or gives it back: no other CPU claims it or frees it.
Forking(p) == pc[p] \in {"readpid", "caspid", "kalloc", "copyuvm", "publish"}
EmbryoOwned ==
  \A p \in Proc : Forking(p) =>
    /\ state[np[p]] = "EMBRYO"
    /\ \A q \in Proc : Forking(q) /\ np[q] = np[p] => q = p

(***************************************************************************)
(* The process tree that programs see.  A child joins it when fork makes it *)
(* RUNNABLE and leaves it when wait has cleared its slot.                  *)
(***************************************************************************)
TreeStat ==
  [p \in Proc |-> IF state[p] \in Live THEN "alive"
                  ELSE IF state[p] = "ZOMBIE" /\ parent[p] # None THEN "zombie"
                  ELSE "free"]
TreePar == [p \in Proc |-> IF TreeStat[p] = "free" THEN None ELSE parent[p]]

Tree == INSTANCE ProcTree WITH stat <- TreeStat, par <- TreePar

\* Whatever the interleaving of the CPUs, fork, exit and wait implement the
\* process tree: no child is lost and none is reaped twice.
ImplementsTree == Tree!Spec

(***************************************************************************)
(* The inductive strengthening of the lock and slot properties.            *)
(***************************************************************************)
\* The state of a slot tells where its thread can be.
ThreadInv ==
  \A p \in Proc :
    /\ pc[p] # "schedpanic"
    /\ (ctx[p] = "live") <=> (state[p] = "RUNNING")
    /\ state[p] \in {"UNUSED", "EMBRYO"} => ctx[p] = "saved"
    /\ state[p] \in {"UNUSED", "EMBRYO", "ZOMBIE"} =>
         ~inyield[p] /\ pc[p] \in {"forkret", "exit"}
    /\ state[p] = "SLEEPING" => ~inyield[p] /\ pc[p] = "sleep"
    /\ state[p] = "RUNNABLE" => inyield[p] \/ pc[p] \in {"forkret", "sleep"}
    /\ inyield[p] => pc[p] \in Interruptible

\* Which CPU executes whom, and which of them holds ptable.lock.
OnCPU == \A p \in Proc : (ctx[p] # "saved") <=> (\E c \in CPU : proc[c] = p)

LockOwner ==
  \A c \in CPU :
    /\ proc[c] # None => scan[c] # 0
    /\ (lock = c) <=> IF proc[c] = None THEN scan[c] # 0 ELSE HoldsLock(proc[c])

CpuInv == OnCPU /\ KernelStackExclusive /\ LockOwner

\* The slots that fork and wait are working on.
SlotInv ==
  /\ EmbryoOwned
  /\ \A p \in Proc : Forking(p) => np[p] \in Proc
  /\ \A p \in Proc : pc[p] \in {"copyuvm", "publish"} => pc[np[p]] = "forkret"
  /\ \A p \in Proc : pc[p] = "reap" =>
       np[p] \in Proc /\ state[np[p]] = "ZOMBIE" /\ ctx[np[p]] = "saved"

ControlInv == TypeOK /\ ThreadInv /\ CpuInv /\ SlotInv

\* No pid is ahead of the counter it was taken from.
PidInv == PidsUnique /\ \A p \in Proc : pid[p] <= nextpid

\* A slot has no parent until fork sets one, and none once wait has cleared it.
FreshParent ==
  /\ \A q \in Proc : state[q] = "UNUSED" => parent[q] = None
  /\ \A p \in Proc :
       pc[p] \in {"readpid", "caspid", "kalloc", "copyuvm", "reap"} =>
         parent[np[p]] = None

\* init never exits and is nobody's child, and nobody is its own child.
RootInv ==
  /\ state[initproc] \in Live /\ parent[initproc] = None
  /\ \A q \in Proc : parent[q] # q

WaitInv == NoLostExit /\ FreshParent /\ RootInv

\* fork has a stack for its slot once kalloc has succeeded, wait has freed the
\* one of the slot it is about to give back.
StackInv ==
  /\ KstackOwned
  /\ \A p \in Proc :
       pc[p] \in {"readpid", "caspid", "kalloc", "reap"} => ~kstack[np[p]]
  /\ \A p \in Proc : pc[p] \in {"copyuvm", "publish"} => kstack[np[p]]

\* Every process but init has a parent, and a child is its forker's.
TreeInv ==
  /\ \A p \in Proc : state[p] \in Live /\ p # initproc => parent[p] # None
  /\ \A p \in Proc : pc[p] = "publish" => parent[np[p]] = p

\* init has exited, which stops the CPU it was on.
InitDown == pc[initproc] = "initpanic"

\* Round robin starves nobody: a RUNNABLE process eventually runs.
RunnableRuns ==
  \A p \in Proc : state[p] = "RUNNABLE" ~> (state[p] = "RUNNING" \/ InitDown)

\* A process that has taken a fatal signal becomes a zombie, whatever system
\* call it was in: every wait and every return to user mode tests killed.
KilledDies ==
  \A p \in Proc : killed[p] ~> (state[p] = "ZOMBIE" \/ InitDown)

\* wait returns once a child has exited.
WaitReturns ==
  \A p \in Proc :
    (pc[p] \in {"acqwait", "wait", "sleep"} /\ Zombies(p) # {})
      ~> (pc[p] = "ret" \/ InitDown)
=============================================================================
