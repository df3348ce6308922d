---------------------------- MODULE PtableProofs ----------------------------
(***************************************************************************)
(* Proofs about Ptable, for every number of CPUs and of table slots.       *)
(*                                                                         *)
(* ControlInv is inductive: it says, for every slot, where its kernel      *)
(* thread can be in each state (ThreadInv), which CPU executes it and      *)
(* which CPU holds ptable.lock (CpuInv), and what the slots that fork and  *)
(* wait are working on look like (SlotInv).                                *)
(***************************************************************************)
EXTENDS Ptable, TLAPS

USE CPUAssumption, NPROCAssumption

\* The null pointer is not a slot of the table.
LEMMA NoneNotProc == None \notin Proc
  BY DEF None, Proc

\* userinit leaves the table in a state that satisfies the invariant.
LEMMA InitControl == Init => ControlInv
<1> SUFFICES ASSUME Init PROVE ControlInv
  OBVIOUS
<1> USE DEF Init
<1>1. TypeOK
  BY DEF TypeOK, ControlType, TableType, States, Labels, Proc, None, initproc
<1>2. ThreadInv
  BY DEF ThreadInv, Interruptible
<1>3. CpuInv
  BY NoneNotProc DEF CpuInv, OnCPU, KernelStackExclusive, LockOwner
<1>4. SlotInv
  BY DEF SlotInv, EmbryoOwned, Forking
<1> QED BY <1>1, <1>2, <1>3, <1>4 DEF ControlInv

-----------------------------------------------------------------------------
(***************************************************************************)
(* Facts about one thread, used by the proofs of its steps.                *)
(***************************************************************************)

\* A thread that executes is RUNNING, and nobody forks into its slot.
LEMMA Executing ==
  ASSUME ControlInv, NEW c \in CPU, NEW p \in Proc, proc[c] = p, ctx[p] = "live"
  PROVE  /\ state[p] = "RUNNING"
         /\ \A q \in Proc : Forking(q) => np[q] # p
         /\ \A q \in Proc : pc[q] = "reap" => np[q] # p
         /\ lock = c <=> HoldsLock(p)
         /\ proc[c] # None /\ scan[c] # 0
  BY NoneNotProc DEF ControlInv, ThreadInv, SlotInv, EmbryoOwned, CpuInv, LockOwner

\* The slot that a fork has claimed is idle.
LEMMA ForkSlot ==
  ASSUME ControlInv, NEW p \in Proc, Forking(p)
  PROVE  /\ np[p] \in Proc /\ np[p] # p
         /\ state[np[p]] = "EMBRYO" /\ ctx[np[p]] = "saved"
         /\ \A d \in CPU : proc[d] # np[p]
         /\ ~inyield[np[p]] /\ pc[np[p]] \in {"forkret", "exit"}
         /\ pc[p] = "publish" => pc[np[p]] = "forkret"
         /\ \A q \in Proc : Forking(q) /\ np[q] = np[p] => q = p
  BY DEF ControlInv, SlotInv, EmbryoOwned, Forking, ThreadInv, CpuInv, OnCPU

\* Only one thread is between clearing a zombie and freeing its slot.
LEMMA OneReaper ==
  ASSUME ControlInv, NEW c \in CPU, NEW q \in Proc, lock = c, pc[q] = "reap"
  PROVE  proc[c] = q
<1> USE DEF ControlInv
<1>1. state[q] = "RUNNING"
  BY DEF ThreadInv, Interruptible, TypeOK, ControlType, States
<1>2. PICK d \in CPU : proc[d] = q
  BY <1>1 DEF ThreadInv, CpuInv, OnCPU
<1>3. lock = d
  BY <1>2, NoneNotProc DEF CpuInv, LockOwner, HoldsLock
<1> QED BY <1>2, <1>3

\* The labels a thread reaches without touching ptable.lock or another slot.
FreeLabels == Labels \ {"forkret", "wait", "reap", "sleep", "schedpanic"}

\* A thread that only moves from one such label to another, within fork only
\* forward, preserves the invariant.
LEMMA Move ==
  ASSUME ControlInv, NEW c \in CPU, NEW p \in Proc,
         NEW l \in FreeLabels, NEW m \in FreeLabels, At(c, p, l),
         pc' = [pc EXCEPT ![p] = m],
         UNCHANGED <<lock, proc, scan, state, ctx, inyield>>,
         np' \in [Proc -> 1 .. NPROC + 1],
         \A q \in Proc : q # p => np'[q] = np[q],
         m \in {"readpid", "caspid", "kalloc"} =>
           Forking(p) /\ np' = np,
         m \notin {"copyuvm", "publish"}
  PROVE  ControlType' /\ ThreadInv' /\ CpuInv' /\ SlotInv'
<1> USE DEF ControlInv, At
<1>0. /\ state[p] = "RUNNING"
      /\ \A q \in Proc : Forking(q) => np[q] # p
  BY Executing
<1>1. ControlType'
  BY ZenonT(60) DEF TypeOK, ControlType, FreeLabels
<1>2. ThreadInv'
  BY <1>0 DEF TypeOK, ControlType, ThreadInv, FreeLabels
<1>3. OnCPU' /\ KernelStackExclusive'
  BY DEF CpuInv, OnCPU, KernelStackExclusive
<1>4. LockOwner'
  BY DEF TypeOK, ControlType, CpuInv, LockOwner, HoldsLock, FreeLabels
<1>5. \A q \in Proc : Forking(q)' => Forking(q) /\ np'[q] = np[q]
  BY ZenonT(60) DEF TypeOK, ControlType, Forking
<1>6. EmbryoOwned'
  BY <1>5 DEF SlotInv, EmbryoOwned
<1>7. SlotInv'
  BY <1>0, <1>5, <1>6 DEF TypeOK, ControlType, SlotInv, FreeLabels, Forking
<1> QED BY <1>1, <1>2, <1>3, <1>4, <1>7 DEF CpuInv

-----------------------------------------------------------------------------
(***************************************************************************)
(* The steps that only move a thread.                                      *)
(***************************************************************************)

\* System calls, the returns to user mode, the tests of killed and the panic
\* of init.
LEMMA PlainSteps ==
  ASSUME ControlInv, NEW c \in CPU, NEW p \in Proc,
         \/ UserStep(c, p) \/ SyscallRet(c, p) \/ TrapRet(c, p)
         \/ TimerKilled(c, p) \/ Kill(c, p) \/ ReadNextPid(c, p)
         \/ CasNextPid(c, p) \/ ExitInit(c)
  PROVE  ControlInv'
<1> USE DEF ControlInv, TypeOK
<1>1. CASE UserStep(c, p)
  <2>1. PICK m \in {"alloc", "kill", "exit", "acqwait"} :
          /\ Syscall(c, p, m)
          /\ np' = np \/ np' = [np EXCEPT ![p] = 1]
    BY <1>1 DEF UserStep, SysFork, SysKill, SysExit, SysWait
  <2>2. PICK k \in {"alloc", "kill", "exit", "acqwait"} :
          pc' = [pc EXCEPT ![p] = k]
    BY ZenonT(60), <2>1 DEF Syscall, Goto
  <2>3. /\ At(c, p, "user")
        /\ UNCHANGED <<lock, proc, scan, state, ctx, inyield>>
        /\ TableType'
    BY <2>1 DEF Syscall, tableVars, TableType
  <2>4. /\ np' \in [Proc -> 1 .. NPROC + 1]
        /\ \A q \in Proc : q # p => np'[q] = np[q]
    BY <2>1 DEF ControlType
  <2>5. "user" \in FreeLabels /\ k \in FreeLabels
    BY <2>2 DEF FreeLabels, Labels
  <2> QED BY ZenonT(60), <2>2, <2>3, <2>4, <2>5, Move
<1>2. CASE SyscallRet(c, p)
  <2>1. PICK k \in {"exit", "trapret"} : pc' = [pc EXCEPT ![p] = k]
    BY ZenonT(60), <1>2 DEF SyscallRet, Goto
  <2>2. "ret" \in FreeLabels /\ k \in FreeLabels
    BY DEF FreeLabels, Labels
  <2>3. TableType'
    BY SMTT(60), <1>2 DEF SyscallRet, tableVars, TableType
  <2> QED BY ZenonT(60), <1>2, <2>1, <2>2, <2>3, Move
        DEF SyscallRet, tableVars, ControlType
<1>3. CASE TrapRet(c, p)
  <2>1. "trapret" \in FreeLabels /\ "user" \in FreeLabels
    BY DEF FreeLabels, Labels
  <2>2. TableType'
    BY <1>3 DEF TrapRet, CheckSigs, TableType
  <2> QED BY ZenonT(60), <1>3, <2>1, <2>2, Move DEF TrapRet, Goto, ControlType
<1>4. CASE TimerKilled(c, p)
  <2>1. "user" \in FreeLabels /\ "exit" \in FreeLabels
    BY DEF FreeLabels, Labels
  <2>2. TableType'
    BY <1>4 DEF TimerKilled, tableVars, TableType
  <2> QED BY ZenonT(60), <1>4, <2>1, <2>2, Move DEF TimerKilled, Goto, tableVars, ControlType
<1>5. CASE Kill(c, p)
  <2>1. "kill" \in FreeLabels /\ "ret" \in FreeLabels
    BY DEF FreeLabels, Labels
  <2>2. TableType'
    BY ZenonT(60), <1>5 DEF Kill, TableType
  <2> QED BY ZenonT(60), <1>5, <2>1, <2>2, Move DEF Kill, Goto, ControlType
<1>6. CASE ReadNextPid(c, p)
  <2>1. "readpid" \in FreeLabels /\ "caspid" \in FreeLabels
    BY DEF FreeLabels, Labels
  <2>2. TableType'
    BY <1>6 DEF ReadNextPid, tableVars, TableType
  <2>3. Forking(p) /\ At(c, p, "readpid") /\ pc' = [pc EXCEPT ![p] = "caspid"]
    BY <1>6 DEF ReadNextPid, At, Goto, Forking
  <2> QED BY ZenonT(60), <1>6, <2>1, <2>2, <2>3, Move DEF ReadNextPid, tableVars, ControlType
<1>7. CASE CasNextPid(c, p)
  <2>1. PICK k \in {"kalloc", "readpid"} : pc' = [pc EXCEPT ![p] = k]
    BY <1>7 DEF CasNextPid, Goto
  <2>2. "caspid" \in FreeLabels /\ k \in FreeLabels
    BY DEF FreeLabels, Labels
  <2>3. TableType'
    <3> USE DEF TableType
    <3>1. /\ UNCHANGED <<parent, chan, killed, kstack, pending>>
          /\ \/ UNCHANGED <<nextpid, pid, lpid>>
             \/ /\ nextpid' = lpid[p] + 1
                /\ pid' = [pid EXCEPT ![np[p]] = lpid[p] + 1]
                /\ lpid' = [lpid EXCEPT ![p] = 0]
      BY ZenonT(60), <1>7 DEF CasNextPid
    <3>2. lpid[p] + 1 \in Nat
      BY SMTT(60)
    <3>3. nextpid' \in Nat /\ pid' \in [Proc -> Nat] /\ lpid' \in [Proc -> Nat]
      BY SMTT(60), <3>1, <3>2
    <3> QED BY SMTT(60), <3>1, <3>3
  <2> QED BY ZenonT(60), <1>7, <2>1, <2>2, <2>3, Move DEF CasNextPid, At, Forking, ControlType
<1>8. CASE ExitInit(c)
  <2>1. "exit" \in FreeLabels /\ "initpanic" \in FreeLabels
    BY DEF FreeLabels, Labels
  <2>2. TableType' /\ initproc \in Proc
    BY <1>8 DEF ExitInit, tableVars, TableType, initproc, Proc
  <2> QED BY ZenonT(60), <1>8, <2>1, <2>2, Move DEF ExitInit, Goto, tableVars, ControlType
<1> QED BY <1>1, <1>2, <1>3, <1>4, <1>5, <1>6, <1>7, <1>8

\* An interrupt in the kernel only sets killed.
LEMMA KernelIntrStep ==
  ASSUME ControlInv, NEW c \in CPU, NEW p \in Proc, KernelIntr(c, p)
  PROVE  ControlInv'
<1> USE DEF ControlInv, KernelIntr, threadVars
<1>1. TypeOK'
  BY DEF TypeOK, ControlType, TableType, CheckSigs
<1>2. ThreadInv'
  BY SMTT(60) DEF ThreadInv
<1>3. CpuInv'
  BY SMTT(60) DEF CpuInv, OnCPU, KernelStackExclusive, LockOwner, HoldsLock
<1>4. SlotInv'
  BY DEF SlotInv, EmbryoOwned, Forking
<1> QED BY SMTT(60), <1>1, <1>2, <1>3, <1>4

-----------------------------------------------------------------------------
(***************************************************************************)
(* The steps that move ptable.lock or the CPU.                             *)
(***************************************************************************)

\* acquire and release in the loop of scheduler.
LEMMA SchedLockSteps ==
  ASSUME ControlInv, NEW c \in CPU, SchedAcquire(c) \/ SchedRelease(c)
  PROVE  ControlInv'
<1> USE DEF ControlInv, SchedAcquire, SchedRelease, Acquire, Release, tableVars,
            threadVars
<1>1. TypeOK'
  BY SMTT(60) DEF TypeOK, ControlType, TableType
<1>2. ThreadInv'
  BY DEF ThreadInv
<1>3. OnCPU' /\ KernelStackExclusive'
  BY DEF CpuInv, OnCPU, KernelStackExclusive
<1>4. LockOwner'
  BY SMTT(60) DEF TypeOK, ControlType, CpuInv, LockOwner, HoldsLock
<1>5. SlotInv'
  BY DEF SlotInv, EmbryoOwned, Forking
<1> QED BY SMTT(60), <1>1, <1>2, <1>3, <1>4, <1>5 DEF CpuInv

\* The scheduler switches to a thread that no CPU is still executing.
LEMMA SchedRunStep ==
  ASSUME ControlInv, NEW c \in CPU, SchedRun(c)
  PROVE  ControlInv'
<1> USE DEF ControlInv, TypeOK
<1>0. PICK p \in Proc :
        /\ state[p] = "RUNNABLE"
        /\ proc' = [proc EXCEPT ![c] = p]
        /\ scan' = [scan EXCEPT ![c] = p + 1]
        /\ state' = [state EXCEPT ![p] = "RUNNING"]
        /\ ctx' = [ctx EXCEPT ![p] = "live"]
  BY ZenonT(60) DEF SchedRun, First, RunnableFrom
<1>1. /\ proc[c] = None /\ scan[c] # 0 /\ lock = c
      /\ UNCHANGED <<lock, pc, inyield, np>>
      /\ UNCHANGED <<pid, parent, chan, killed, kstack, pending, nextpid, lpid>>
  BY DEF SchedRun, CpuInv, LockOwner
<1>2. \A d \in CPU : proc[d] # p
  BY <1>0, <1>1, NoneNotProc
     DEF ThreadInv, CpuInv, OnCPU, LockOwner, HoldsLock, ControlType
<1>3. HoldsLock(p)'
  BY <1>0, <1>1, <1>2 DEF ThreadInv, HoldsLock, ControlType
<1>4. ControlType'
  BY SMTT(60), <1>0, <1>1 DEF ControlType, States, Proc
<1>5. TableType'
  BY <1>1 DEF TableType
<1>6. ThreadInv'
  BY <1>0, <1>1 DEF ThreadInv, ControlType
<1>7. OnCPU'
  BY <1>0, <1>1, <1>2, NoneNotProc DEF CpuInv, OnCPU, ControlType
<1>8. KernelStackExclusive'
  BY <1>0, <1>2 DEF CpuInv, KernelStackExclusive, ControlType
<1>9. LockOwner'
  BY <1>0, <1>1, <1>2, <1>3, NoneNotProc
     DEF CpuInv, LockOwner, HoldsLock, ControlType, Proc
<1>10. SlotInv'
  BY <1>0, <1>1 DEF SlotInv, EmbryoOwned, Forking, ControlType
<1> QED BY <1>4, <1>5, <1>6, <1>7, <1>8, <1>9, <1>10 DEF CpuInv

\* sched finds the lock held by its CPU and the state changed; the lock stays
\* with the CPU, whose scheduler goes on.
LEMMA SchedStep ==
  ASSUME ControlInv, NEW c \in CPU, NEW p \in Proc, Sched(c, p)
  PROVE  ControlInv'
<1> USE DEF ControlInv, TypeOK
<1>1. lock = c /\ state[p] # "RUNNING" /\ scan[c] # 0
  BY SMTT(60), NoneNotProc DEF Sched, ThreadInv, CpuInv, LockOwner, HoldsLock, ControlType
<1>2. /\ proc[c] = p /\ ctx[p] = "saving"
      /\ proc' = [proc EXCEPT ![c] = None]
      /\ ctx' = [ctx EXCEPT ![p] = "saved"]
      /\ UNCHANGED <<lock, scan, state, pc, inyield, np>>
      /\ UNCHANGED <<pid, parent, chan, killed, kstack, pending, nextpid, lpid>>
  BY <1>1 DEF Sched, tableVars
<1>3. ControlType' /\ TableType'
  BY <1>2 DEF ControlType, TableType
<1>4. ThreadInv'
  BY <1>1, <1>2 DEF ThreadInv, ControlType
<1>5. OnCPU' /\ KernelStackExclusive'
  BY <1>2, NoneNotProc DEF CpuInv, OnCPU, KernelStackExclusive, ControlType
<1>6. LockOwner'
  BY <1>1, <1>2, NoneNotProc
     DEF CpuInv, LockOwner, HoldsLock, KernelStackExclusive, ControlType
<1>7. SlotInv'
  BY <1>2 DEF SlotInv, EmbryoOwned, Forking, ControlType
<1> QED BY <1>3, <1>4, <1>5, <1>6, <1>7 DEF CpuInv

\* yield, up to sched, is called by a thread that holds no lock.
LEMMA YieldStep ==
  ASSUME ControlInv, NEW c \in CPU, NEW p \in Proc, Yield(c, p)
  PROVE  ControlInv'
<1> USE DEF ControlInv, TypeOK
<1>0. /\ proc[c] = p /\ ctx[p] = "live" /\ pc[p] \in Interruptible /\ lock = NoCPU
      /\ lock' = c
      /\ state' = [state EXCEPT ![p] = "RUNNABLE"]
      /\ ctx' = [ctx EXCEPT ![p] = "saving"]
      /\ inyield' = [inyield EXCEPT ![p] = TRUE]
      /\ UNCHANGED <<proc, scan, pid, parent, chan, killed, kstack, pending,
                     nextpid, pc, np, lpid>>
  BY DEF Yield, At, Acquire
<1>1. /\ \A q \in Proc : Forking(q) => np[q] # p
      /\ \A q \in Proc : pc[q] = "reap" => np[q] # p
  BY <1>0, Executing
<1>2. ControlType' /\ TableType'
  BY <1>0 DEF ControlType, TableType, States
<1>3. ThreadInv'
  BY <1>0 DEF ThreadInv, ControlType
<1>4. OnCPU' /\ KernelStackExclusive'
  BY <1>0 DEF CpuInv, OnCPU, KernelStackExclusive, ControlType
<1>5. LockOwner'
  BY <1>0, NoneNotProc
     DEF CpuInv, LockOwner, HoldsLock, KernelStackExclusive, ControlType
<1>6. SlotInv'
  BY <1>0, <1>1 DEF SlotInv, EmbryoOwned, Forking, ControlType
<1> QED BY <1>2, <1>3, <1>4, <1>5, <1>6 DEF CpuInv

\* Back from sched, yield releases the lock that the scheduler passed on.
LEMMA YieldDoneStep ==
  ASSUME ControlInv, NEW c \in CPU, NEW p \in Proc, YieldDone(c, p)
  PROVE  ControlInv'
<1> USE DEF ControlInv, TypeOK
<1>0. PICK l \in {pc[p], "ret"} :
        /\ pc' = [pc EXCEPT ![p] = l]
        /\ pc[p] = "user" <=> l = "ret" /\ pc[p] # "ret"
  BY DEF YieldDone, Goto, ControlType
<1>1. /\ proc[c] = p /\ ctx[p] = "live" /\ inyield[p] /\ lock' = NoCPU
      /\ inyield' = [inyield EXCEPT ![p] = FALSE]
      /\ UNCHANGED <<proc, scan, state, ctx, np>>
  BY SMTT(60) DEF YieldDone, Release
<1>2. /\ pc[p] \in Interruptible /\ lock = c
      /\ \A q \in Proc : Forking(q) => np[q] # p
  BY <1>1, Executing DEF ThreadInv, HoldsLock
<1>3. l \in Interruptible /\ l # "schedpanic"
  BY <1>0, <1>2 DEF Interruptible, Labels
<1>4. ControlType' /\ TableType'
  BY SMTT(60), <1>0, <1>1, <1>3 DEF YieldDone, CheckSigs, ControlType, TableType, Interruptible
<1>5. ThreadInv'
  BY SMTT(60), <1>0, <1>1, <1>3 DEF ThreadInv, ControlType
<1>6. OnCPU' /\ KernelStackExclusive'
  BY <1>1 DEF CpuInv, OnCPU, KernelStackExclusive
<1>7. ~HoldsLock(p)'
  BY SMTT(60), <1>0, <1>1, <1>3 DEF HoldsLock, Interruptible, ControlType
<1>8. LockOwner'
  BY SMTT(60), <1>0, <1>1, <1>2, <1>7, NoneNotProc
     DEF CpuInv, LockOwner, HoldsLock, KernelStackExclusive, ControlType
<1>9. SlotInv'
  BY SMTT(60), <1>0, <1>1, <1>2 DEF SlotInv, EmbryoOwned, Forking, ControlType
<1> QED BY <1>4, <1>5, <1>6, <1>8, <1>9 DEF CpuInv

\* The first step of a new process releases it too.
LEMMA ForkRetStep ==
  ASSUME ControlInv, NEW c \in CPU, NEW p \in Proc, ForkRet(c, p)
  PROVE  ControlInv'
<1> USE DEF ControlInv, TypeOK
<1>0. /\ proc[c] = p /\ ctx[p] = "live" /\ ~inyield[p] /\ pc[p] = "forkret"
      /\ lock' = NoCPU
      /\ pc' = [pc EXCEPT ![p] = "trapret"]
      /\ UNCHANGED <<proc, scan, state, ctx, inyield, np>>
  BY DEF ForkRet, At, Release, Goto, tableVars
<1>1. state[p] = "RUNNING" /\ lock = c /\ \A q \in Proc : Forking(q) => np[q] # p
  BY <1>0, Executing DEF HoldsLock
<1>2. ControlType' /\ TableType'
  BY <1>0 DEF ForkRet, tableVars, ControlType, TableType, Labels
<1>3. ThreadInv'
  BY SMTT(60), <1>0, <1>1 DEF ThreadInv, ControlType
<1>4. OnCPU' /\ KernelStackExclusive'
  BY SMTT(60), <1>0 DEF CpuInv, OnCPU, KernelStackExclusive
<1>5. LockOwner'
  BY <1>0, <1>1, NoneNotProc
     DEF CpuInv, LockOwner, HoldsLock, KernelStackExclusive, ControlType
<1>6. SlotInv'
  BY <1>0, <1>1 DEF SlotInv, EmbryoOwned, Forking, ControlType
<1> QED BY <1>2, <1>3, <1>4, <1>5, <1>6 DEF CpuInv

-----------------------------------------------------------------------------
(***************************************************************************)
(* The steps of fork.                                                      *)
(***************************************************************************)

\* cas claims a slot that no other fork works on.
LEMMA AllocCasStep ==
  ASSUME ControlInv, NEW c \in CPU, NEW p \in Proc, AllocCas(c, p)
  PROVE  ControlInv'
<1> USE DEF ControlInv, TypeOK
<1>0. /\ At(c, p, "alloc")
      /\ UNCHANGED <<lock, proc, scan, ctx, inyield>>
      /\ TableType'
      /\ "alloc" \in FreeLabels /\ "ret" \in FreeLabels /\ "readpid" \in FreeLabels
  BY DEF AllocCas, TableType, FreeLabels, Labels
<1>1. CASE np[p] > NPROC
  <2>1. /\ pc' = [pc EXCEPT ![p] = "ret"] /\ np' = [np EXCEPT ![p] = 1]
        /\ state' = state
    BY <1>1 DEF AllocCas, Goto, Return, ControlType
  <2>2. np' \in [Proc -> 1 .. NPROC + 1]
    BY <2>1 DEF ControlType
  <2>3. \A q \in Proc : q # p => np'[q] = np[q]
    BY <2>1 DEF ControlType
  <2> QED BY ZenonT(60), <1>0, <2>1, <2>2, <2>3, Move
<1>2. CASE np[p] <= NPROC /\ state[np[p]] # "UNUSED"
  <2>1. /\ pc' = [pc EXCEPT ![p] = "alloc"] /\ np' = [np EXCEPT ![p] = np[p] + 1]
        /\ state' = state
    BY <1>0, <1>2 DEF AllocCas, At, ControlType
  <2>2. np' \in [Proc -> 1 .. NPROC + 1]
    BY <1>2, <2>1 DEF ControlType
  <2>3. \A q \in Proc : q # p => np'[q] = np[q]
    BY <2>1 DEF ControlType
  <2> QED BY ZenonT(60), <1>0, <2>1, <2>2, <2>3, Move
<1>3. CASE np[p] <= NPROC /\ state[np[p]] = "UNUSED"
  <2>1. /\ pc' = [pc EXCEPT ![p] = "readpid"] /\ np' = np
        /\ state' = [state EXCEPT ![np[p]] = "EMBRYO"]
    BY <1>3 DEF AllocCas, Goto, ControlType
  <2>2. np[p] \in Proc /\ np[p] # p /\ ctx[np[p]] = "saved"
    BY SMTT(60), <1>0, <1>3 DEF ControlType, Proc, At, ThreadInv
  <2>3. /\ \A q \in Proc : Forking(q) => np[q] # np[p] /\ np[q] # p
        /\ state[p] = "RUNNING"
    BY <1>0, <1>3, Executing DEF SlotInv, EmbryoOwned, At
  <2>4. ControlType'
    BY ZenonT(60), <1>0, <2>1 DEF ControlType, States, Labels
  <2>5. ThreadInv'
    BY <1>0, <1>3, <2>1, <2>2, <2>3 DEF ThreadInv, ControlType, At, Interruptible, Labels
  <2>6. OnCPU' /\ KernelStackExclusive'
    BY ZenonT(60), <1>0 DEF CpuInv, OnCPU, KernelStackExclusive
  <2>7. LockOwner'
    BY SMTT(60), <1>0, <2>1 DEF CpuInv, LockOwner, HoldsLock, ControlType, At
  <2>8. SlotInv'
    BY SMTT(60), <1>0, <1>3, <2>1, <2>2, <2>3 DEF SlotInv, EmbryoOwned, Forking, ControlType, At
  <2> QED BY <1>0, <2>4, <2>5, <2>6, <2>7, <2>8 DEF CpuInv
<1> QED BY SMTT(60), <1>1, <1>2, <1>3 DEF AllocCas

\* A fork that lets go of its slot, as UNUSED or ready to run, preserves the
\* invariant.
LEMMA GiveBack ==
  ASSUME ControlInv, NEW c \in CPU, NEW p \in Proc, NEW s \in {"UNUSED", "RUNNABLE"},
         proc[c] = p, ctx[p] = "live", ~inyield[p], Forking(p),
         s = "RUNNABLE" => pc[np[p]] = "forkret",
         state' = [state EXCEPT ![np[p]] = s],
         pc' = [pc EXCEPT ![p] = "ret"], np' = [np EXCEPT ![p] = 1],
         UNCHANGED <<lock, proc, scan, ctx, inyield>>
  PROVE  ControlType' /\ ThreadInv' /\ CpuInv' /\ SlotInv'
<1> USE DEF ControlInv, TypeOK
<1>1. /\ np[p] \in Proc /\ np[p] # p /\ state[np[p]] = "EMBRYO"
      /\ ctx[np[p]] = "saved"
      /\ ~inyield[np[p]] /\ pc[np[p]] \in {"forkret", "exit"}
      /\ \A q \in Proc : Forking(q) => np[q] # p
      /\ \A q \in Proc : Forking(q) /\ np[q] = np[p] => q = p
      /\ state[p] = "RUNNING"
  <2> HIDE DEF ControlInv
  <2>1. /\ state[p] = "RUNNING"
        /\ \A q \in Proc : Forking(q) => np[q] # p
    BY ZenonT(30), Executing
  <2> QED BY SMTT(60), <2>1, ForkSlot
<1>2. ControlType'
  BY SMTT(60), <1>1 DEF ControlType, Labels, States
<1>3. ThreadInv'
  BY <1>1 DEF ThreadInv, ControlType
<1>4. OnCPU' /\ KernelStackExclusive'
  BY SMTT(60) DEF CpuInv, OnCPU, KernelStackExclusive
<1>5. LockOwner'
  BY SMTT(60), NoneNotProc DEF CpuInv, LockOwner, HoldsLock, ControlType, Forking
<1>6. SlotInv'
  BY <1>1 DEF SlotInv, EmbryoOwned, Forking, ControlType
<1> QED BY SMTT(60), <1>2, <1>3, <1>4, <1>5, <1>6 DEF CpuInv

\* The claimed slot gets a stack and a context, or is given back.
LEMMA KallocStep ==
  ASSUME ControlInv, NEW c \in CPU, NEW p \in Proc, Kalloc(c, p)
  PROVE  ControlInv'
<1> USE DEF ControlInv, TypeOK
<1>1. /\ proc[c] = p /\ ctx[p] = "live" /\ pc[p] = "kalloc" /\ ~inyield[p]
      /\ Forking(p) /\ UNCHANGED <<lock, proc, scan>> /\ TableType'
  BY ZenonT(60) DEF Kalloc, At, Forking, TableType
<1>2. /\ np[p] \in Proc /\ np[p] # p /\ state[np[p]] = "EMBRYO"
      /\ ctx[np[p]] = "saved" /\ \A d \in CPU : proc[d] # np[p]
      /\ ~inyield[np[p]] /\ pc[np[p]] \in {"forkret", "exit"}
      /\ \A q \in Proc : Forking(q) => np[q] # p
      /\ \A q \in Proc : Forking(q) /\ np[q] = np[p] => q = p
      /\ state[p] = "RUNNING"
  <2> HIDE DEF ControlInv
  <2>1. /\ state[p] = "RUNNING"
        /\ \A q \in Proc : Forking(q) => np[q] # p
    BY ZenonT(60), <1>1, Executing
  <2> QED BY ZenonT(60), <1>1, <2>1, ForkSlot
<1>3. CASE /\ pc' = [pc EXCEPT ![p] = "copyuvm", ![np[p]] = "forkret"]
           /\ UNCHANGED <<state, ctx, inyield, np>>
  <2>1. ControlType'
    BY SMTT(60), <1>1, <1>2, <1>3 DEF ControlType, Labels
  <2>2. ThreadInv'
    BY SMTT(60), <1>1, <1>2, <1>3 DEF ThreadInv, ControlType, Interruptible, Labels
  <2>3. OnCPU' /\ KernelStackExclusive'
    BY SMTT(60), <1>1, <1>3 DEF CpuInv, OnCPU, KernelStackExclusive
  <2>4. LockOwner'
    BY SMTT(60), <1>1, <1>2, <1>3, NoneNotProc DEF CpuInv, LockOwner, HoldsLock, ControlType
  <2>5. SlotInv'
    BY SMTT(60), <1>1, <1>2, <1>3 DEF SlotInv, EmbryoOwned, Forking, ControlType
  <2> QED BY ZenonT(30), <1>1, <2>1, <2>2, <2>3, <2>4, <2>5 DEF CpuInv
<1>4. CASE /\ state' = [state EXCEPT ![np[p]] = "UNUSED"]
           /\ pc' = [pc EXCEPT ![p] = "ret"] /\ np' = [np EXCEPT ![p] = 1]
           /\ UNCHANGED <<ctx, inyield>>
  BY ZenonT(60), <1>1, <1>2, <1>4, GiveBack
<1>5. ctx' = ctx /\ inyield' = inyield
  <2>1. ctx = [ctx EXCEPT ![np[p]] = "saved"]
    BY SMTT(60), <1>2 DEF ControlType
  <2>2. inyield[np[p]] = FALSE
    BY SMTT(60), <1>2 DEF ControlType
  <2>3. inyield = [inyield EXCEPT ![np[p]] = FALSE]
    BY SMTT(60), <1>2, <2>2 DEF ControlType
  <2> QED BY ZenonT(60), <2>1, <2>3 DEF Kalloc
<1> QED BY SMTT(60), <1>3, <1>4, <1>5 DEF Kalloc, Return, Goto

\* copyuvm succeeds and the child gets its parent, or the slot is given back.
LEMMA CopyUvmStep ==
  ASSUME ControlInv, NEW c \in CPU, NEW p \in Proc, CopyUvm(c, p)
  PROVE  ControlInv'
<1> USE DEF ControlInv, TypeOK
<1>1. /\ proc[c] = p /\ ctx[p] = "live" /\ pc[p] = "copyuvm" /\ ~inyield[p]
      /\ Forking(p) /\ UNCHANGED <<lock, proc, scan, ctx, inyield>> /\ TableType'
  BY ZenonT(60) DEF CopyUvm, At, Forking, TableType
<1>2. /\ np[p] \in Proc /\ np[p] # p /\ state[np[p]] = "EMBRYO"
      /\ \A q \in Proc : Forking(q) => np[q] # p
      /\ \A q \in Proc : Forking(q) /\ np[q] = np[p] => q = p
      /\ state[p] = "RUNNING"
  <2> HIDE DEF ControlInv
  <2>1. /\ state[p] = "RUNNING"
        /\ \A q \in Proc : Forking(q) => np[q] # p
    BY SMTT(60), <1>1, Executing
  <2> QED BY ZenonT(60), <1>1, <2>1, ForkSlot
<1>3. CASE pc' = [pc EXCEPT ![p] = "publish"] /\ UNCHANGED <<state, np>>
  <2>1. ControlType'
    BY SMTT(60), <1>1, <1>3 DEF ControlType, Labels
  <2>2. ThreadInv'
    BY SMTT(60), <1>1, <1>2, <1>3 DEF ThreadInv, ControlType, Interruptible, Labels
  <2>3. OnCPU' /\ KernelStackExclusive'
    BY SMTT(60), <1>1, <1>3 DEF CpuInv, OnCPU, KernelStackExclusive
  <2>4. LockOwner'
    BY SMTT(60), <1>1, <1>2, <1>3, NoneNotProc DEF CpuInv, LockOwner, HoldsLock, ControlType
  <2>5. SlotInv'
    BY SMTT(60), <1>1, <1>2, <1>3 DEF SlotInv, EmbryoOwned, Forking, ControlType
  <2> QED BY SMTT(60), <1>1, <2>1, <2>2, <2>3, <2>4, <2>5 DEF CpuInv
<1>4. CASE /\ state' = [state EXCEPT ![np[p]] = "UNUSED"]
           /\ pc' = [pc EXCEPT ![p] = "ret"] /\ np' = [np EXCEPT ![p] = 1]
  BY ZenonT(60), <1>1, <1>4, GiveBack
<1> QED BY SMTT(60), <1>3, <1>4 DEF CopyUvm, Return, Goto

\* The child becomes RUNNABLE with a saved context that starts at forkret.
LEMMA ForkPublishStep ==
  ASSUME ControlInv, NEW c \in CPU, NEW p \in Proc, ForkPublish(c, p)
  PROVE  ControlInv'
<1> USE DEF ControlInv, TypeOK
<1>1. /\ proc[c] = p /\ ctx[p] = "live" /\ pc[p] = "publish" /\ ~inyield[p]
      /\ Forking(p) /\ UNCHANGED <<lock, proc, scan, ctx, inyield>> /\ TableType'
      /\ state' = [state EXCEPT ![np[p]] = "RUNNABLE"]
      /\ pc' = [pc EXCEPT ![p] = "ret"] /\ np' = [np EXCEPT ![p] = 1]
  BY ZenonT(60) DEF ForkPublish, At, Forking, TableType, Return, Goto
<1>2. pc[np[p]] = "forkret"
  BY <1>1, ForkSlot
<1> QED BY ZenonT(60), <1>1, <1>2, GiveBack

-----------------------------------------------------------------------------
(***************************************************************************)
(* The steps of exit and wait.                                             *)
(***************************************************************************)

\* exit wakes sleepers and leaves the lock to the scheduler.
LEMMA ExitStep ==
  ASSUME ControlInv, NEW c \in CPU, NEW p \in Proc, Exit(c, p)
  PROVE  ControlInv'
<1> USE DEF ControlInv, TypeOK
<1>0. /\ proc[c] = p /\ ctx[p] = "live" /\ pc[p] = "exit" /\ ~inyield[p]
      /\ lock = NoCPU /\ lock' = c
      /\ ctx' = [ctx EXCEPT ![p] = "saving"]
      /\ UNCHANGED <<proc, scan, pc, inyield, np>>
  BY DEF Exit, At, Acquire
<1>1. /\ state[p] = "RUNNING"
      /\ \A q \in Proc : Forking(q) => np[q] # p
      /\ \A q \in Proc : pc[q] = "reap" => np[q] # p
  BY <1>0, Executing
<1>2. /\ state' \in [Proc -> States] /\ state'[p] = "ZOMBIE"
      /\ \A q \in Proc : q # p =>
           \/ state'[q] = state[q]
           \/ state[q] = "SLEEPING" /\ state'[q] = "RUNNABLE"
  <2> DEFINE W == Wakeup1(ExitWakes(p))
  <2>1. /\ W \in [Proc -> States]
        /\ \A q \in Proc : \/ W[q] = state[q]
                           \/ state[q] = "SLEEPING" /\ W[q] = "RUNNABLE"
    BY SMTT(60) DEF Wakeup1, ControlType, States
  <2>2. state' = [W EXCEPT ![p] = "ZOMBIE"]
    BY ZenonT(60) DEF Exit
  <2> HIDE DEF W
  <2> QED BY <2>1, <2>2 DEF States
<1>3. ControlType'
  BY ZenonT(60), <1>0, <1>2 DEF ControlType
<1>4. TableType'
  BY SMTT(60) DEF Exit, TableType, initproc, Proc
<1>5. ThreadInv'
  BY <1>0, <1>2 DEF ThreadInv, ControlType
<1>6. OnCPU' /\ KernelStackExclusive'
  BY SMTT(60), <1>0 DEF CpuInv, OnCPU, KernelStackExclusive, ControlType
<1>7. LockOwner'
  BY SMTT(60), <1>0, NoneNotProc
     DEF CpuInv, LockOwner, HoldsLock, KernelStackExclusive, ControlType
<1>8. SlotInv'
  BY SMTT(60), <1>0, <1>1, <1>2 DEF SlotInv, EmbryoOwned, Forking, ControlType
<1> QED BY <1>3, <1>4, <1>5, <1>6, <1>7, <1>8 DEF CpuInv

\* wait takes the lock, and gives it back when there is nothing to wait for.
LEMMA WaitLockSteps ==
  ASSUME ControlInv, NEW c \in CPU, NEW p \in Proc,
         WaitAcquire(c, p) \/ WaitFail(c, p) \/ SleepDone(c, p)
  PROVE  ControlInv'
<1> USE DEF ControlInv, TypeOK
<1>0. PICK l \in {"wait", "ret"} :
        /\ proc[c] = p /\ ctx[p] = "live" /\ ~inyield[p]
        /\ pc[p] \in {"acqwait", "wait", "sleep"}
        /\ pc' = [pc EXCEPT ![p] = l]
        /\ lock' = IF l = "wait" THEN c ELSE NoCPU
        /\ pc[p] = "acqwait" => lock = NoCPU
        /\ UNCHANGED <<proc, scan, state, ctx, inyield, np>>
  BY ZenonT(60), Executing
     DEF WaitAcquire, WaitFail, SleepDone, At, Acquire, Release, Goto, tableVars,
         HoldsLock
<1>1. /\ state[p] = "RUNNING" /\ \A q \in Proc : Forking(q) => np[q] # p
      /\ pc[p] # "acqwait" => lock = c
  BY <1>0, Executing DEF HoldsLock
<1>2. ControlType' /\ TableType'
  BY SMTT(60), <1>0 DEF WaitAcquire, WaitFail, SleepDone, tableVars, ControlType, TableType,
              Labels
<1>3. ThreadInv'
  BY SMTT(60), <1>0, <1>1 DEF ThreadInv, ControlType
<1>4. OnCPU' /\ KernelStackExclusive'
  BY ZenonT(60), <1>0 DEF CpuInv, OnCPU, KernelStackExclusive
<1>5. LockOwner'
  BY ZenonT(60), <1>0, <1>1, NoneNotProc
     DEF CpuInv, LockOwner, HoldsLock, KernelStackExclusive, ControlType
<1>6. SlotInv'
  BY SMTT(60), <1>0, <1>1 DEF SlotInv, EmbryoOwned, Forking, ControlType
<1> QED BY SMTT(60), <1>2, <1>3, <1>4, <1>5, <1>6 DEF CpuInv

\* wait goes to sleep with the lock, which sched passes on.
LEMMA WaitSleepStep ==
  ASSUME ControlInv, NEW c \in CPU, NEW p \in Proc, WaitSleep(c, p)
  PROVE  ControlInv'
<1> USE DEF ControlInv, TypeOK
<1>0. /\ proc[c] = p /\ ctx[p] = "live" /\ pc[p] = "wait" /\ ~inyield[p]
      /\ state' = [state EXCEPT ![p] = "SLEEPING"]
      /\ ctx' = [ctx EXCEPT ![p] = "saving"]
      /\ pc' = [pc EXCEPT ![p] = "sleep"]
      /\ UNCHANGED <<lock, proc, scan, inyield, np>>
  BY ZenonT(60) DEF WaitSleep, At, Goto
<1>1. /\ state[p] = "RUNNING" /\ lock = c
      /\ \A q \in Proc : Forking(q) => np[q] # p
      /\ \A q \in Proc : pc[q] = "reap" => np[q] # p
  BY ZenonT(60), <1>0, Executing DEF HoldsLock
<1>2. ControlType' /\ TableType'
  BY SMTT(60), <1>0 DEF WaitSleep, ControlType, TableType, States, Labels
<1>3. ThreadInv'
  BY SMTT(60), <1>0 DEF ThreadInv, ControlType
<1>4. OnCPU' /\ KernelStackExclusive'
  BY SMTT(60), <1>0 DEF CpuInv, OnCPU, KernelStackExclusive, ControlType
<1>5. LockOwner'
  BY SMTT(60), <1>0, <1>1, NoneNotProc
     DEF CpuInv, LockOwner, HoldsLock, KernelStackExclusive, ControlType
<1>6. SlotInv'
  BY <1>0, <1>1 DEF SlotInv, EmbryoOwned, Forking, ControlType
<1> QED BY <1>2, <1>3, <1>4, <1>5, <1>6 DEF CpuInv

\* wait clears a zombie whose context has been saved: its CPU has released
\* the lock that wait holds now.
LEMMA WaitReapStep ==
  ASSUME ControlInv, NEW c \in CPU, NEW p \in Proc, WaitReap(c, p)
  PROVE  ControlInv'
<1> USE DEF ControlInv, TypeOK
<1>0. PICK q \in Proc :
        /\ state[q] = "ZOMBIE"
        /\ proc[c] = p /\ ctx[p] = "live" /\ pc[p] = "wait" /\ ~inyield[p]
        /\ np' = [np EXCEPT ![p] = q]
        /\ pc' = [pc EXCEPT ![p] = "reap"]
        /\ UNCHANGED <<lock, proc, scan, state, ctx, inyield>>
  BY ZenonT(60) DEF WaitReap, First, Zombies, Children, At, Goto
<1>1. /\ state[p] = "RUNNING" /\ lock = c
      /\ \A r \in Proc : Forking(r) => np[r] # p
  BY <1>0, Executing DEF HoldsLock
<1>2. ctx[q] = "saved"
  <2>1. ctx[q] # "live" /\ q # p
    BY <1>0, <1>1 DEF ThreadInv
  <2>2. ASSUME ctx[q] = "saving" PROVE FALSE
    <3>1. PICK d \in CPU : proc[d] = q
      BY SMTT(60), <2>2 DEF CpuInv, OnCPU
    <3>2. lock = d
      BY SMTT(60), <2>2, <3>1, NoneNotProc DEF CpuInv, LockOwner, HoldsLock
    <3> QED BY <1>0, <1>1, <2>1, <3>1, <3>2
  <2> QED BY <2>1, <2>2 DEF ControlType
<1>3. ControlType'
  BY <1>0 DEF ControlType, Labels, Proc
<1>4. TableType'
  BY SMTT(60) DEF WaitReap, TableType
<1>5. ThreadInv'
  BY SMTT(60), <1>0, <1>1 DEF ThreadInv, ControlType
<1>6. OnCPU' /\ KernelStackExclusive'
  BY ZenonT(60), <1>0 DEF CpuInv, OnCPU, KernelStackExclusive
<1>7. LockOwner'
  BY SMTT(60), <1>0, <1>1, NoneNotProc DEF CpuInv, LockOwner, HoldsLock, ControlType
<1>8. SlotInv'
  BY SMTT(60), <1>0, <1>1, <1>2 DEF SlotInv, EmbryoOwned, Forking, ControlType
<1> QED BY SMTT(60), <1>3, <1>4, <1>5, <1>6, <1>7, <1>8 DEF CpuInv

\* The slot becomes UNUSED while no other wait works on one.
LEMMA WaitFreeStep ==
  ASSUME ControlInv, NEW c \in CPU, NEW p \in Proc, WaitFree(c, p)
  PROVE  ControlInv'
<1> USE DEF ControlInv, TypeOK
<1>0. /\ proc[c] = p /\ ctx[p] = "live" /\ pc[p] = "reap" /\ ~inyield[p]
      /\ lock' = NoCPU
      /\ state' = [state EXCEPT ![np[p]] = "UNUSED"]
      /\ pc' = [pc EXCEPT ![p] = "ret"] /\ np' = [np EXCEPT ![p] = 1]
      /\ UNCHANGED <<proc, scan, ctx, inyield>>
  BY ZenonT(60) DEF WaitFree, At, Goto, Return, Release
<1>1. /\ state[p] = "RUNNING" /\ lock = c
      /\ \A q \in Proc : Forking(q) => np[q] # p
  BY <1>0, Executing DEF HoldsLock
<1>2. /\ np[p] \in Proc /\ np[p] # p
      /\ state[np[p]] = "ZOMBIE" /\ ctx[np[p]] = "saved"
  BY <1>0 DEF SlotInv
<1>3. \A q \in Proc : pc[q] = "reap" => q = p
  BY SMTT(60), <1>0, <1>1, OneReaper
<1>4. ControlType' /\ TableType'
  BY SMTT(60), <1>0, <1>2 DEF WaitFree, ControlType, TableType, States, Labels
<1>5. ThreadInv'
  BY SMTT(60), <1>0, <1>1, <1>2 DEF ThreadInv, ControlType
<1>6. OnCPU' /\ KernelStackExclusive'
  BY ZenonT(60), <1>0 DEF CpuInv, OnCPU, KernelStackExclusive
<1>7. LockOwner'
  BY SMTT(60), <1>0, <1>1, NoneNotProc
     DEF CpuInv, LockOwner, HoldsLock, KernelStackExclusive, ControlType
<1>8. SlotInv'
  BY <1>0, <1>1, <1>2, <1>3 DEF SlotInv, EmbryoOwned, Forking, ControlType
<1> QED BY <1>4, <1>5, <1>6, <1>7, <1>8 DEF CpuInv

-----------------------------------------------------------------------------
\* ControlInv is inductive: every step of every CPU preserves it.
LEMMA ControlInductive == ControlInv /\ [Next]_vars => ControlInv'
<1> SUFFICES ASSUME ControlInv, [Next]_vars PROVE ControlInv'
  OBVIOUS
<1>1. CASE Next
  <2> PICK c \in CPU :
        \/ Scheduler(c) \/ ExitInit(c)
        \/ \E p \in Proc : \/ SwitchStep(c, p) \/ KernelStep(c, p)
                           \/ UserStep(c, p) \/ KernelIntr(c, p) \/ Yield(c, p)
    BY <1>1 DEF Next
  <2>1. CASE Scheduler(c)
    BY <2>1, SchedLockSteps, SchedRunStep DEF Scheduler
  <2>2. CASE ExitInit(c)
    <3>1. initproc \in Proc
      BY SMTT(60) DEF initproc, Proc
    <3> QED BY <2>2, <3>1, PlainSteps
  <2>3. ASSUME NEW p \in Proc,
               \/ SwitchStep(c, p) \/ KernelStep(c, p)
               \/ UserStep(c, p) \/ KernelIntr(c, p) \/ Yield(c, p)
        PROVE  ControlInv'
    <3>1. CASE SwitchStep(c, p)
      BY SMTT(60), <3>1, SchedStep, YieldDoneStep, ForkRetStep DEF SwitchStep
    <3>2. CASE KernelStep(c, p)
      BY SMTT(60), <3>2, PlainSteps, AllocCasStep, KallocStep, CopyUvmStep, ForkPublishStep,
         ExitStep, WaitLockSteps, WaitSleepStep, WaitReapStep, WaitFreeStep
         DEF KernelStep
    <3> QED BY <2>3, <3>1, <3>2, PlainSteps, KernelIntrStep, YieldStep
  <2> QED BY <2>1, <2>2, <2>3
<1>2. CASE UNCHANGED vars
  <2> USE <1>2 DEF vars
  <2>1. TypeOK'
    BY SMTT(60) DEF ControlInv, TypeOK, ControlType, TableType
  <2>2. ThreadInv'
    BY SMTT(60) DEF ControlInv, ThreadInv
  <2>3. CpuInv'
    BY SMTT(60) DEF ControlInv, CpuInv, OnCPU, KernelStackExclusive, LockOwner, HoldsLock
  <2>4. SlotInv'
    BY DEF ControlInv, SlotInv, EmbryoOwned, Forking
  <2> QED BY SMTT(60), <2>1, <2>2, <2>3, <2>4 DEF ControlInv
<1> QED BY <1>1, <1>2

\* In every reachable state the invariant holds.
LEMMA ControlAlways == Spec => []ControlInv
  BY InitControl, ControlInductive, PTL DEF Spec

\* The type invariant of the process table.
THEOREM TypeCorrect == Spec => []TypeOK
<1>1. ControlInv => TypeOK
  BY DEF ControlInv
<1> QED BY <1>1, ControlAlways, PTL

\* No two CPUs execute on one kernel stack, whatever their number: the thread
\* whose state changes keeps ptable.lock until swtch has left its stack.
THEOREM StackExclusion == Spec => []KernelStackExclusive
<1>1. ControlInv => KernelStackExclusive
  BY SMTT(60) DEF ControlInv, CpuInv
<1> QED BY <1>1, ControlAlways, PTL

\* scheduler only ever switches to contexts that swtch has finished saving.
THEOREM ContextSafety == Spec => []RunnableIsSaved
<1>1. ControlInv => RunnableIsSaved
  <2> SUFFICES ASSUME ControlInv, NEW p \in Proc, state[p] = "RUNNABLE"
               PROVE  \/ ctx[p] = "saved" /\ \A c \in CPU : proc[c] # p
                      \/ ctx[p] = "saving" /\ \E c \in CPU : proc[c] = p /\ lock = c
    BY SMTT(60) DEF RunnableIsSaved
  <2> USE DEF ControlInv, TypeOK
  <2>1. ctx[p] \in {"saving", "saved"}
    BY DEF ThreadInv, ControlType
  <2>2. CASE ctx[p] = "saved"
    BY <2>2 DEF CpuInv, OnCPU
  <2>3. CASE ctx[p] = "saving"
    BY SMTT(60), <2>3, NoneNotProc DEF CpuInv, OnCPU, LockOwner, HoldsLock
  <2> QED BY <2>1, <2>2, <2>3
<1> QED BY <1>1, ControlAlways, PTL

\* The RUNNING processes are the ones that some CPU executes.
THEOREM RunningExact == Spec => []RunningIsOnCPU
<1>1. ControlInv => RunningIsOnCPU
  BY SMTT(60) DEF ControlInv, RunningIsOnCPU, ThreadInv, CpuInv, OnCPU
<1> QED BY <1>1, ControlAlways, PTL

\* sched never panics and every release of ptable.lock after a switch is made
\* by the CPU that holds it.
THEOREM LockPassedOn == Spec => []LockHandOff
<1>1. ControlInv => LockHandOff
  BY SMTT(60), NoneNotProc DEF ControlInv, LockHandOff, ThreadInv, CpuInv, LockOwner
<1> QED BY <1>1, ControlAlways, PTL

\* allocproc, which takes no lock, never gives one slot to two forks.
THEOREM SlotOwnership == Spec => []EmbryoOwned
<1>1. ControlInv => EmbryoOwned
  BY DEF ControlInv, SlotInv
<1> QED BY <1>1, ControlAlways, PTL
=============================================================================
