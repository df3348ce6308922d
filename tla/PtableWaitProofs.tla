-------------------------- MODULE PtableWaitProofs --------------------------
(***************************************************************************)
(* Proofs about pids, about exit and wait and about kernel stacks, for     *)
(* every number of CPUs and of table slots, and that the table implements  *)
(* ProcTree.                                                               *)
(***************************************************************************)
EXTENDS PtableProofs

USE CPUAssumption, NPROCAssumption

\* userinit's process has a slot.
LEMMA InitIsProc == initproc \in Proc
  BY DEF initproc, Proc

-----------------------------------------------------------------------------
(***************************************************************************)
(* pids.                                                                   *)
(***************************************************************************)

\* Only allocpid takes from the counter and only wait gives a pid up.
LEMMA PidSteps ==
  ASSUME ControlInv, [Next]_vars
  PROVE  \/ UNCHANGED <<pid, nextpid>>
         \/ \E q \in Proc : pid' = [pid EXCEPT ![q] = 0] /\ nextpid' = nextpid
         \/ \E q \in Proc : /\ pid' = [pid EXCEPT ![q] = nextpid + 1]
                            /\ nextpid' = nextpid + 1
<1>1. CASE UNCHANGED vars
  BY <1>1 DEF vars
<1>2. ASSUME NEW c \in CPU, Scheduler(c) \/ ExitInit(c)
      PROVE  UNCHANGED <<pid, nextpid>>
  BY <1>2 DEF Scheduler, SchedAcquire, SchedRun, SchedRelease, ExitInit, tableVars
<1>3. ASSUME NEW c \in CPU, NEW p \in Proc,
             \/ SwitchStep(c, p) \/ UserStep(c, p) \/ KernelIntr(c, p) \/ Yield(c, p)
      PROVE  UNCHANGED <<pid, nextpid>>
  BY <1>3 DEF SwitchStep, Sched, YieldDone, ForkRet, UserStep, SysFork, SysKill,
              SysExit, SysWait, Syscall, KernelIntr, Yield, tableVars
<1>4. ASSUME NEW c \in CPU, NEW p \in Proc, CasNextPid(c, p)
      PROVE  \/ UNCHANGED <<pid, nextpid>>
             \/ \E q \in Proc : /\ pid' = [pid EXCEPT ![q] = nextpid + 1]
                                /\ nextpid' = nextpid + 1
  <2>1. np[p] \in Proc
    BY <1>4, ForkSlot DEF CasNextPid, At, Forking
  <2> QED BY <1>4, <2>1 DEF CasNextPid
<1>5. ASSUME NEW c \in CPU, NEW p \in Proc, WaitReap(c, p)
      PROVE  \E q \in Proc : pid' = [pid EXCEPT ![q] = 0] /\ nextpid' = nextpid
  BY Zenon, <1>5 DEF WaitReap
<1>6. ASSUME NEW c \in CPU, NEW p \in Proc, KernelStep(c, p),
             ~CasNextPid(c, p), ~WaitReap(c, p)
      PROVE  UNCHANGED <<pid, nextpid>>
  BY <1>6 DEF KernelStep, SyscallRet, TrapRet, TimerKilled, AllocCas, ReadNextPid,
              Kalloc, CopyUvm, ForkPublish, Kill, Exit, WaitAcquire, WaitFree,
              WaitFail, WaitSleep, SleepDone, tableVars
<1>7. CASE Next
  BY <1>7, <1>2, <1>3, <1>4, <1>5, <1>6 DEF Next
<1> QED BY <1>1, <1>7

\* A pid that allocpid hands out is greater than every pid in the table.
LEMMA PidInductive == ControlInv /\ PidInv /\ [Next]_vars => PidInv'
<1> SUFFICES ASSUME ControlInv, PidInv, [Next]_vars PROVE PidInv'
  OBVIOUS
<1>0. pid \in [Proc -> Nat] /\ nextpid \in Nat
  BY DEF ControlInv, TypeOK, TableType
<1>1. CASE UNCHANGED <<pid, nextpid>>
  BY <1>1 DEF PidInv, PidsUnique
<1>2. ASSUME NEW q \in Proc, pid' = [pid EXCEPT ![q] = 0], nextpid' = nextpid
      PROVE  PidInv'
  BY <1>0, <1>2 DEF PidInv, PidsUnique
<1>3. ASSUME NEW q \in Proc, pid' = [pid EXCEPT ![q] = nextpid + 1],
             nextpid' = nextpid + 1
      PROVE  PidInv'
  BY <1>0, <1>3 DEF PidInv, PidsUnique
<1> QED BY <1>1, <1>2, <1>3, PidSteps

\* However many forks overlap in allocpid, no two slots get the same pid.
THEOREM PidUniqueness == Spec => []PidsUnique
<1>1. Init => PidInv
  BY DEF Init, PidInv, PidsUnique, initproc, Proc
<1>2. PidInv => PidsUnique
  BY DEF PidInv
<1> QED BY <1>1, <1>2, PidInductive, ControlAlways, PTL DEF Spec

-----------------------------------------------------------------------------
(***************************************************************************)
(* exit and wait.                                                          *)
(***************************************************************************)

\* What a step may do without disturbing the invariant: wake processes up,
\* run them or stop running them, and move a thread to a label that holds no
\* slot, or within fork.
LEMMA WaitQuiet ==
  ASSUME WaitInv, NEW p \in Proc,
         pc \in [Proc -> Labels], pc' \in [Proc -> Labels],
         UNCHANGED <<parent, chan>>,
         \A q \in Proc : state'[q] \in {"SLEEPING", "ZOMBIE", "UNUSED"} =>
                          state'[q] = state[q],
         \A q \in Proc : state[q] # "ZOMBIE" => state'[q] # "ZOMBIE",
         \A q \in Proc : state[q] \in Live => state'[q] \in Live,
         \A q \in Proc : q # p /\ pc'[q] # pc[q] => pc'[q] = "forkret",
         \A q \in Proc : q # p => np'[q] = np[q],
         \/ pc'[p] \notin {"readpid", "caspid", "kalloc", "copyuvm", "reap"}
         \/ parent[np'[p]] = None
         \/ pc'[p] = pc[p] /\ np'[p] = np[p]
  PROVE  WaitInv'
<1>1. NoLostExit'
  BY DEF WaitInv, NoLostExit, Zombies, Children
<1>2. FreshParent'
  BY DEF WaitInv, FreshParent
<1>3. RootInv'
  BY InitIsProc DEF WaitInv, RootInv
<1> QED BY <1>1, <1>2, <1>3 DEF WaitInv

\* The steps of the schedulers, and of a thread outside fork, exit and wait.
LEMMA WaitOutside ==
  ASSUME ControlInv, ControlInv', WaitInv, NEW c \in CPU, NEW p \in Proc,
         \/ Scheduler(c) \/ ExitInit(c) \/ SwitchStep(c, p) \/ UserStep(c, p)
         \/ KernelIntr(c, p) \/ Yield(c, p) \/ SyscallRet(c, p) \/ TrapRet(c, p)
         \/ TimerKilled(c, p) \/ Kill(c, p) \/ WaitAcquire(c, p) \/ WaitFail(c, p)
  PROVE  WaitInv'
<1>0. /\ pc \in [Proc -> Labels] /\ pc' \in [Proc -> Labels]
      /\ state \in [Proc -> States] /\ np \in [Proc -> 1 .. NPROC + 1]
  BY DEF ControlInv, TypeOK, ControlType
<1>1. CASE Scheduler(c)
  <2>1. /\ UNCHANGED <<parent, chan, pc, np>>
        /\ state' = state \/ \E q \in Proc : state' = [state EXCEPT ![q] = "RUNNING"]
    BY <1>1 DEF Scheduler, SchedAcquire, SchedRun, SchedRelease, tableVars, threadVars
  <2> QED BY <1>0, <2>1, InitIsProc, WaitQuiet DEF Live
<1>2. CASE ExitInit(c)
  <2>1. UNCHANGED <<parent, chan, state, np>> /\ pc' = [pc EXCEPT ![initproc] = "initpanic"]
    BY <1>2 DEF ExitInit, Goto, tableVars
  <2> QED BY <1>0, <2>1, InitIsProc, WaitQuiet
<1>3. CASE SwitchStep(c, p)
  <2>1. /\ UNCHANGED <<parent, chan, state, np>>
        /\ \/ pc' = pc
           \/ \E l \in {"schedpanic", "ret", "trapret"} : pc' = [pc EXCEPT ![p] = l]
    BY <1>3 DEF SwitchStep, Sched, YieldDone, ForkRet, Goto, tableVars
  <2> QED BY <1>0, <2>1, WaitQuiet
<1>4. CASE UserStep(c, p)
  <2>1. /\ UNCHANGED <<parent, chan, state>>
        /\ np' = np \/ np' = [np EXCEPT ![p] = 1]
        /\ \E l \in {"alloc", "kill", "exit", "acqwait"} : pc' = [pc EXCEPT ![p] = l]
    BY <1>4 DEF UserStep, SysFork, SysKill, SysExit, SysWait, Syscall, Goto, tableVars
  <2> QED BY <1>0, <2>1, WaitQuiet
<1>5. CASE KernelIntr(c, p)
  BY <1>0, <1>5, WaitQuiet DEF KernelIntr, threadVars
<1>6. CASE Yield(c, p)
  BY <1>0, <1>6, WaitQuiet DEF Yield, Live
<1>7. CASE \/ SyscallRet(c, p) \/ TrapRet(c, p) \/ TimerKilled(c, p) \/ Kill(c, p)
           \/ WaitAcquire(c, p) \/ WaitFail(c, p)
  <2>1. /\ UNCHANGED <<parent, chan, state, np>>
        /\ \E l \in {"exit", "trapret", "user", "ret", "wait"} :
             pc' = [pc EXCEPT ![p] = l]
    BY Zenon, <1>7 DEF SyscallRet, TrapRet, TimerKilled, Kill, WaitAcquire, WaitFail, Goto,
                tableVars
  <2> QED BY <1>0, <2>1, WaitQuiet
<1> QED BY <1>1, <1>2, <1>3, <1>4, <1>5, <1>6, <1>7

\* fork: a slot has no parent until copyuvm has succeeded.
LEMMA WaitFork ==
  ASSUME ControlInv, ControlInv', WaitInv, NEW c \in CPU, NEW p \in Proc,
         \/ AllocCas(c, p) \/ ReadNextPid(c, p) \/ CasNextPid(c, p)
         \/ Kalloc(c, p) \/ CopyUvm(c, p) \/ ForkPublish(c, p)
  PROVE  WaitInv'
<1>0. /\ pc \in [Proc -> Labels] /\ pc' \in [Proc -> Labels]
      /\ state \in [Proc -> States] /\ parent \in [Proc -> Proc \cup {None}]
      /\ np \in [Proc -> 1 .. NPROC + 1]
  BY DEF ControlInv, TypeOK, ControlType, TableType
<1>1. CASE AllocCas(c, p)
  <2>1. CASE \E i \in Proc : /\ np[p] = i /\ state[i] = "UNUSED"
                             /\ state' = [state EXCEPT ![i] = "EMBRYO"]
                             /\ pc' = [pc EXCEPT ![p] = "readpid"]
                             /\ UNCHANGED <<parent, chan, np>>
    <3>1. parent[np[p]] = None
      BY <2>1 DEF WaitInv, FreshParent
    <3> QED BY <1>0, <2>1, <3>1, WaitQuiet DEF Live
  <2>2. CASE /\ UNCHANGED <<parent, chan, state>>
             /\ \E j \in 1 .. NPROC + 1 : np' = [np EXCEPT ![p] = j]
             /\ pc' = [pc EXCEPT ![p] = "ret"] \/ (pc[p] = "alloc" /\ pc' = pc)
    BY <1>0, <2>2, WaitQuiet
  <2>3. np[p] \in 1 .. NPROC + 1
    BY <1>0
  <2>4. CASE np[p] > NPROC
    <3>1. 1 \in 1 .. NPROC + 1 /\ ~(np[p] <= NPROC)
      BY <2>3, <2>4
    <3>2. /\ np' = [np EXCEPT ![p] = 1] /\ pc' = [pc EXCEPT ![p] = "ret"]
          /\ UNCHANGED <<parent, chan, state>>
      BY <1>1, <3>1 DEF AllocCas, Return, Goto
    <3> QED BY <1>0, <3>2, WaitQuiet
  <2>5. CASE np[p] <= NPROC /\ state[np[p]] # "UNUSED"
    <3>1. np[p] + 1 \in 1 .. NPROC + 1
      BY <2>3, <2>5
    <3> QED BY <1>1, <2>2, <2>3, <2>5, <3>1 DEF AllocCas, At
  <2>6. CASE np[p] <= NPROC /\ state[np[p]] = "UNUSED"
    <3>1. np[p] \in Proc
      BY <2>3, <2>6 DEF Proc
    <3> QED BY <1>1, <2>1, <2>3, <2>6, <3>1 DEF AllocCas, Goto
  <2> QED BY <2>3, <2>4, <2>5, <2>6
<1>2. CASE ReadNextPid(c, p) \/ CasNextPid(c, p)
  <2>1. /\ UNCHANGED <<parent, chan, state, np>>
        /\ pc[p] \in {"readpid", "caspid"}
        /\ \E l \in Labels : pc' = [pc EXCEPT ![p] = l]
    BY <1>2 DEF ReadNextPid, CasNextPid, Goto, At, tableVars, Labels
  <2>2. parent[np[p]] = None
    BY <2>1 DEF WaitInv, FreshParent
  <2> QED BY <1>0, <2>1, <2>2, WaitQuiet
<1>3. CASE Kalloc(c, p) \/ CopyUvm(c, p)
  <2>0. /\ pc[p] \in {"kalloc", "copyuvm"} /\ Forking(p)
        /\ parent[np[p]] = None
    BY Zenon, <1>3 DEF Kalloc, CopyUvm, At, Forking, WaitInv, FreshParent
  <2>1. /\ np[p] \in Proc /\ np[p] # p /\ state[np[p]] = "EMBRYO"
        /\ \A q \in Proc : Forking(q) /\ np[q] = np[p] => q = p
    BY <2>0, ForkSlot
  <2>2. CASE /\ UNCHANGED <<parent, chan, state, np>>
             /\ pc' = [pc EXCEPT ![p] = "copyuvm", ![np[p]] = "forkret"]
    BY <1>0, <2>0, <2>1, <2>2, WaitQuiet
  <2>3. CASE /\ UNCHANGED <<parent, chan>>
             /\ state' = [state EXCEPT ![np[p]] = "UNUSED"]
             /\ pc' = [pc EXCEPT ![p] = "ret"] /\ np' = [np EXCEPT ![p] = 1]
    BY <1>0, <2>0, <2>1, <2>3
       DEF WaitInv, NoLostExit, FreshParent, RootInv, Live, Zombies, Children
  <2>4. CASE /\ UNCHANGED <<chan, state, np>>
             /\ parent' = [parent EXCEPT ![np[p]] = p]
             /\ pc' = [pc EXCEPT ![p] = "publish"]
    <3>1. NoLostExit'
      BY <1>0, <2>0, <2>1, <2>4, NoneNotProc
         DEF WaitInv, NoLostExit, Zombies, Children
    <3>2. \A q \in Proc : pc[q] = "reap" => state[np[q]] = "ZOMBIE"
      BY DEF ControlInv, SlotInv
    <3>3. FreshParent'
      BY <1>0, <2>1, <2>4, <3>2 DEF WaitInv, FreshParent, Forking
    <3>4. RootInv'
      BY <1>0, <2>1, <2>4, InitIsProc DEF WaitInv, RootInv, Live
    <3> QED BY <3>1, <3>3, <3>4 DEF WaitInv
  <2> QED BY <1>3, <2>2, <2>3, <2>4 DEF Kalloc, CopyUvm, Return, Goto
<1>4. CASE ForkPublish(c, p)
  <2>1. /\ UNCHANGED <<parent, chan>>
        /\ state' = [state EXCEPT ![np[p]] = "RUNNABLE"]
        /\ pc' = [pc EXCEPT ![p] = "ret"] /\ np' = [np EXCEPT ![p] = 1]
    BY <1>4 DEF ForkPublish, Return, Goto
  <2> QED BY <1>0, <2>1, WaitQuiet DEF Live
<1> QED BY <1>1, <1>2, <1>3, <1>4

\* exit wakes its parent, which finds the new zombie, and init when it hands a
\* zombie over; nobody else gets a zombie or loses a child.
LEMMA WaitExit ==
  ASSUME ControlInv, WaitInv, NEW c \in CPU, NEW p \in Proc, Exit(c, p)
  PROVE  WaitInv'
<1>0. /\ state \in [Proc -> States] /\ parent \in [Proc -> Proc \cup {None}]
      /\ pc \in [Proc -> Labels]
      /\ np \in [Proc -> 1 .. NPROC + 1]
  BY DEF ControlInv, TypeOK, ControlType, TableType
<1>1. state[p] = "RUNNING"
  BY Executing DEF Exit, At
<1>2. /\ state' = [Wakeup1(ExitWakes(p)) EXCEPT ![p] = "ZOMBIE"]
      /\ parent' = [q \in Proc |-> IF parent[q] = p THEN initproc ELSE parent[q]]
      /\ UNCHANGED <<chan, pc, np>>
  BY DEF Exit
<1>3. ASSUME NEW q \in Proc, state'[q] = "SLEEPING"
      PROVE  /\ q # p /\ state[q] = "SLEEPING" /\ chan[q] = q
             /\ q # parent[p]
             /\ q = initproc => \A r \in Proc : parent[r] = p => state[r] # "ZOMBIE"
  <2>1. q # p /\ state[q] = "SLEEPING" /\ chan[q] \notin ExitWakes(p)
    BY <1>0, <1>2, <1>3 DEF Wakeup1
  <2>2. chan[q] = q
    BY <2>1 DEF WaitInv, NoLostExit
  <2> QED BY <2>1, <2>2 DEF ExitWakes
<1>4. \A r \in Proc : state'[r] = "ZOMBIE" => r = p \/ state[r] = "ZOMBIE"
  BY <1>0, <1>2 DEF Wakeup1
<1>5. NoLostExit'
  <2> SUFFICES ASSUME NEW q \in Proc, state'[q] = "SLEEPING"
               PROVE  /\ chan'[q] = q
                      /\ \A r \in Proc : parent'[r] = q => state'[r] # "ZOMBIE"
                      /\ \E r \in Proc : parent'[r] = q
    BY DEF NoLostExit, Zombies, Children
  <2>1. /\ \A r \in Proc : parent[r] = q => state[r] # "ZOMBIE"
        /\ \E r \in Proc : parent[r] = q
    BY <1>3 DEF WaitInv, NoLostExit, Zombies, Children
  <2>2. \E r \in Proc : parent'[r] = q
    BY <1>2, <1>3, <2>1
  <2>3. ASSUME NEW r \in Proc, parent'[r] = q PROVE state'[r] # "ZOMBIE"
    <3>1. CASE parent[r] = q
      BY <1>3, <1>4, <2>1, <3>1
    <3>2. CASE parent[r] = p /\ q = initproc
      BY <1>3, <1>4, <3>2 DEF WaitInv, RootInv
    <3> QED BY <1>2, <2>3, <3>1, <3>2
  <2> QED BY <1>2, <1>3, <2>2, <2>3
<1>6. FreshParent'
  <2>1. \A q \in Proc : state'[q] = "UNUSED" => state[q] = "UNUSED"
    BY <1>0, <1>2 DEF Wakeup1
  <2>2. \A q \in Proc : parent[q] = None => parent'[q] = None
    BY <1>2, NoneNotProc
  <2>3. \A q \in Proc :
          pc[q] \in {"readpid", "caspid", "kalloc", "copyuvm", "reap"} => np[q] \in Proc
    BY DEF ControlInv, SlotInv, Forking
  <2> QED BY <1>2, <2>1, <2>2, <2>3 DEF WaitInv, FreshParent
<1>7. RootInv'
  <2>1. state'[initproc] \in Live
    BY <1>0, <1>2, InitIsProc DEF Exit, WaitInv, RootInv, Live, Wakeup1
  <2>2. parent[initproc] = None /\ \A q \in Proc : parent[q] # q
    BY DEF WaitInv, RootInv
  <2> QED BY <1>2, <2>1, <2>2, InitIsProc, NoneNotProc DEF RootInv
<1> QED BY <1>5, <1>6, <1>7 DEF WaitInv

\* wait goes to sleep only while it has children and none of them has exited,
\* and clears a zombie that is no other process's child.
LEMMA WaitWait ==
  ASSUME ControlInv, WaitInv, NEW c \in CPU, NEW p \in Proc,
         \/ WaitReap(c, p) \/ WaitFree(c, p) \/ WaitSleep(c, p) \/ SleepDone(c, p)
  PROVE  WaitInv'
<1>0. /\ state \in [Proc -> States] /\ parent \in [Proc -> Proc \cup {None}]
      /\ pc \in [Proc -> Labels] /\ np \in [Proc -> 1 .. NPROC + 1]
      /\ chan \in [Proc -> Proc \cup {None}]
  BY DEF ControlInv, TypeOK, ControlType, TableType
<1>1. state[p] = "RUNNING"
  BY Zenon, Executing DEF WaitReap, WaitFree, WaitSleep, SleepDone, At
<1>2. CASE WaitReap(c, p)
  <2>1. PICK q \in Proc : /\ parent[q] = p
                          /\ parent' = [parent EXCEPT ![q] = None]
                          /\ np' = [np EXCEPT ![p] = q]
                          /\ pc' = [pc EXCEPT ![p] = "reap"]
                          /\ UNCHANGED <<state, chan>>
    BY Zenon, <1>2 DEF WaitReap, First, Zombies, Children, Goto
  <2>2. NoLostExit'
    BY <1>0, <1>1, <2>1, NoneNotProc DEF WaitInv, NoLostExit, Zombies, Children
  <2>3. FreshParent'
    BY <1>0, <2>1 DEF WaitInv, FreshParent
  <2>4. RootInv'
    BY <1>0, <2>1, InitIsProc, NoneNotProc DEF WaitInv, RootInv
  <2> QED BY <2>2, <2>3, <2>4 DEF WaitInv
<1>3. CASE WaitFree(c, p)
  <2>1. /\ state' = [state EXCEPT ![np[p]] = "UNUSED"]
        /\ np' = [np EXCEPT ![p] = 1] /\ pc' = [pc EXCEPT ![p] = "ret"]
        /\ UNCHANGED <<parent, chan>> /\ parent[np[p]] = None
    BY <1>3 DEF WaitFree, At, Return, Goto, WaitInv, FreshParent
  <2>2. NoLostExit'
    BY <1>0, <2>1 DEF WaitInv, NoLostExit, Zombies, Children
  <2>3. FreshParent'
    BY <1>0, <2>1 DEF WaitInv, FreshParent
  <2>4. np[p] # initproc
    BY <1>3 DEF WaitFree, At, ControlInv, SlotInv, WaitInv, RootInv, Live
  <2>5. RootInv'
    BY <1>0, <2>1, <2>4, InitIsProc DEF WaitInv, RootInv
  <2> QED BY <2>2, <2>3, <2>5 DEF WaitInv
<1>4. CASE WaitSleep(c, p)
  <2>1. /\ chan' = [chan EXCEPT ![p] = p]
        /\ state' = [state EXCEPT ![p] = "SLEEPING"]
        /\ pc' = [pc EXCEPT ![p] = "sleep"]
        /\ UNCHANGED <<parent, np>>
        /\ Zombies(p) = {} /\ Children(p) # {}
    BY <1>4 DEF WaitSleep, WaitGivesUp, Goto
  <2>2. NoLostExit'
    BY <1>0, <2>1 DEF WaitInv, NoLostExit, Zombies, Children
  <2>3. FreshParent'
    BY <1>0, <2>1 DEF WaitInv, FreshParent
  <2>4. RootInv'
    BY <1>0, <2>1, InitIsProc DEF WaitInv, RootInv, Live
  <2> QED BY <2>2, <2>3, <2>4 DEF WaitInv
<1>5. CASE SleepDone(c, p)
  <2>1. /\ chan' = [chan EXCEPT ![p] = None] /\ pc' = [pc EXCEPT ![p] = "wait"]
        /\ UNCHANGED <<state, parent, np>>
    BY <1>5 DEF SleepDone, Goto
  <2>2. NoLostExit'
    BY <1>0, <1>1, <2>1 DEF WaitInv, NoLostExit, Zombies, Children
  <2>3. FreshParent'
    BY <1>0, <2>1 DEF WaitInv, FreshParent
  <2>4. RootInv'
    BY <2>1 DEF WaitInv, RootInv
  <2> QED BY <2>2, <2>3, <2>4 DEF WaitInv
<1> QED BY <1>2, <1>3, <1>4, <1>5

\* Every step preserves WaitInv.
LEMMA WaitInductive == ControlInv /\ ControlInv' /\ WaitInv /\ [Next]_vars => WaitInv'
<1> SUFFICES ASSUME ControlInv, ControlInv', WaitInv, [Next]_vars PROVE WaitInv'
  OBVIOUS
<1>1. CASE UNCHANGED vars
  BY <1>1 DEF vars, WaitInv, NoLostExit, FreshParent, RootInv, Zombies, Children
<1>2. CASE Next
  <2> PICK c \in CPU :
        \/ Scheduler(c) \/ ExitInit(c)
        \/ \E p \in Proc : \/ SwitchStep(c, p) \/ KernelStep(c, p)
                           \/ UserStep(c, p) \/ KernelIntr(c, p) \/ Yield(c, p)
    BY <1>2 DEF Next
  <2>1. CASE Scheduler(c) \/ ExitInit(c)
    BY <2>1, InitIsProc, WaitOutside
  <2>2. ASSUME NEW p \in Proc, KernelStep(c, p) PROVE WaitInv'
    BY <2>2, WaitOutside, WaitFork, WaitExit, WaitWait DEF KernelStep
  <2>3. ASSUME NEW p \in Proc,
               \/ SwitchStep(c, p) \/ UserStep(c, p) \/ KernelIntr(c, p) \/ Yield(c, p)
        PROVE  WaitInv'
    BY <2>3, WaitOutside
  <2> QED BY <2>1, <2>2, <2>3
<1> QED BY <1>1, <1>2

\* It is an invariant of the process table.
LEMMA WaitAlways == Spec => []WaitInv
<1>1. Init => WaitInv
  BY NoneNotProc, InitIsProc DEF Init, WaitInv, NoLostExit, FreshParent, RootInv, Live
<1> QED BY <1>1, WaitInductive, ControlAlways, PTL DEF Spec

\* However many processes there are, own children and orphans, nobody sleeps
\* in wait while one of its children is a zombie.
THEOREM ExitsAreSeen == Spec => []NoLostExit
<1>1. WaitInv => NoLostExit
  BY DEF WaitInv
<1> QED BY <1>1, WaitAlways, PTL

-----------------------------------------------------------------------------
(***************************************************************************)
(* Kernel stacks: fork gives a slot a stack and wait takes it away, while  *)
(* other CPUs switch between the stacks.                                   *)
(***************************************************************************)

\* The labels at which a thread works on another slot.
SlotLabels == {"readpid", "caspid", "kalloc", "copyuvm", "publish", "reap"}

\* What a step that allocates and frees no stack may do: give a slot back that
\* has none, make a slot live that has one, run a process that is live, and
\* move a thread to a label that goes with the slot it has in hand.
LEMMA StackQuiet ==
  ASSUME StackInv, NEW p \in Proc, UNCHANGED kstack,
         \A q \in Proc : state'[q] = "UNUSED" => state[q] = "UNUSED" \/ ~kstack[q],
         \A q \in Proc : state'[q] \in Live => state[q] \in Live \/ kstack[q],
         \A c \in CPU : proc'[c] # None => \/ proc'[c] = proc[c]
                                           \/ kstack[proc'[c]],
         \A q \in Proc : q # p /\ pc'[q] # pc[q] => pc'[q] = "forkret",
         \A q \in Proc : q # p => np'[q] = np[q],
         \/ pc'[p] \notin SlotLabels
         \/ pc'[p] = pc[p] /\ np'[p] = np[p]
         \/ pc'[p] \in {"readpid", "caspid", "kalloc", "reap"} /\ ~kstack[np'[p]]
         \/ pc'[p] \in {"copyuvm", "publish"} /\ kstack[np'[p]]
  PROVE  StackInv'
<1>1. KstackOwned'
  BY DEF StackInv, KstackOwned
<1>2. \A q \in Proc :
        /\ pc'[q] \in {"readpid", "caspid", "kalloc", "reap"} => ~kstack[np'[q]]
        /\ pc'[q] \in {"copyuvm", "publish"} => kstack[np'[q]]
  <2> SUFFICES ASSUME NEW q \in Proc
               PROVE  /\ pc'[q] \in {"readpid", "caspid", "kalloc", "reap"} => ~kstack[np'[q]]
                      /\ pc'[q] \in {"copyuvm", "publish"} => kstack[np'[q]]
    OBVIOUS
  <2>1. CASE q = p
    BY <2>1 DEF StackInv, SlotLabels
  <2>2. CASE q # p
    BY <2>2 DEF StackInv
  <2> QED BY <2>1, <2>2
<1> QED BY <1>1, <1>2 DEF StackInv

\* The steps that leave the stacks and the slots in hand alone.
LEMMA StackOutside ==
  ASSUME ControlInv, StackInv, NEW c \in CPU, NEW p \in Proc,
         \/ Scheduler(c) \/ ExitInit(c) \/ SwitchStep(c, p) \/ UserStep(c, p)
         \/ KernelIntr(c, p) \/ Yield(c, p) \/ SyscallRet(c, p) \/ TrapRet(c, p)
         \/ TimerKilled(c, p) \/ Kill(c, p) \/ Exit(c, p) \/ WaitAcquire(c, p)
         \/ WaitFail(c, p) \/ WaitSleep(c, p) \/ SleepDone(c, p)
  PROVE  StackInv'
<1>0. /\ pc \in [Proc -> Labels] /\ state \in [Proc -> States]
      /\ np \in [Proc -> 1 .. NPROC + 1] /\ proc \in [CPU -> Proc \cup {None}]
  BY DEF ControlInv, TypeOK, ControlType
<1>1. CASE Scheduler(c)
  <2>1. CASE SchedAcquire(c) \/ SchedRelease(c)
    BY Zenon, <2>1, InitIsProc, StackQuiet DEF SchedAcquire, SchedRelease, tableVars, threadVars
  <2>2. CASE SchedRun(c)
    <3>1. PICK q \in Proc : /\ state[q] = "RUNNABLE"
                            /\ proc' = [proc EXCEPT ![c] = q]
                            /\ state' = [state EXCEPT ![q] = "RUNNING"]
                            /\ UNCHANGED <<kstack, pc, np>>
      BY Zenon, <2>2 DEF SchedRun, First, RunnableFrom
    <3>2. kstack[q]
      BY Zenon, <3>1 DEF StackInv, KstackOwned, Live
    <3> QED BY <1>0, <3>1, <3>2, InitIsProc, StackQuiet DEF Live
  <2> QED BY <1>1, <2>1, <2>2 DEF Scheduler
<1>2. CASE ExitInit(c)
  <2>1. /\ UNCHANGED <<kstack, state, proc, np>>
        /\ pc' = [pc EXCEPT ![initproc] = "initpanic"]
    BY <1>2 DEF ExitInit, Goto, tableVars
  <2> QED BY <1>0, <2>1, InitIsProc, StackQuiet DEF SlotLabels
<1>3. CASE SwitchStep(c, p)
  <2>1. /\ UNCHANGED <<kstack, state, np>>
        /\ proc' = proc \/ proc' = [proc EXCEPT ![c] = None]
        /\ \/ pc' = pc
           \/ \E l \in {"schedpanic", "ret", "trapret"} : pc' = [pc EXCEPT ![p] = l]
    BY Zenon, <1>3 DEF SwitchStep, Sched, YieldDone, ForkRet, Goto, tableVars
  <2> QED BY <1>0, <2>1, StackQuiet DEF SlotLabels
<1>4. CASE UserStep(c, p)
  <2>1. /\ UNCHANGED <<kstack, state, proc>>
        /\ np' = np \/ np' = [np EXCEPT ![p] = 1]
        /\ \E l \in {"alloc", "kill", "exit", "acqwait"} : pc' = [pc EXCEPT ![p] = l]
    BY <1>4 DEF UserStep, SysFork, SysKill, SysExit, SysWait, Syscall, Goto, tableVars
  <2> QED BY <1>0, <2>1, StackQuiet DEF SlotLabels
<1>5. CASE KernelIntr(c, p)
  BY <1>0, <1>5, StackQuiet DEF KernelIntr, threadVars
<1>6. CASE Yield(c, p)
  <2>1. /\ UNCHANGED <<kstack, proc, pc, np>> /\ state[p] = "RUNNING"
        /\ state' = [state EXCEPT ![p] = "RUNNABLE"]
    BY Zenon, <1>6, Executing DEF Yield, At
  <2> QED BY <1>0, <2>1, StackQuiet DEF Live
<1>7. CASE \/ SyscallRet(c, p) \/ TrapRet(c, p) \/ TimerKilled(c, p) \/ Kill(c, p)
           \/ WaitAcquire(c, p) \/ WaitFail(c, p) \/ SleepDone(c, p)
  <2>1. /\ UNCHANGED <<kstack, state, proc, np>>
        /\ \E l \in {"exit", "trapret", "user", "ret", "wait"} :
             pc' = [pc EXCEPT ![p] = l]
    BY Zenon, <1>7 DEF SyscallRet, TrapRet, TimerKilled, Kill, WaitAcquire, WaitFail,
                SleepDone, Goto, tableVars
  <2> QED BY <1>0, <2>1, StackQuiet DEF SlotLabels
<1>8. CASE Exit(c, p)
  <2>1. /\ UNCHANGED <<kstack, proc, pc, np>>
        /\ \A q \in Proc : state'[q] = state[q] \/ (q = p /\ state'[q] = "ZOMBIE")
                             \/ (state[q] = "SLEEPING" /\ state'[q] = "RUNNABLE")
    BY Zenon, <1>0, <1>8 DEF Exit, Wakeup1
  <2> QED BY <2>1, StackQuiet DEF Live
<1>9. CASE WaitSleep(c, p)
  <2>1. /\ UNCHANGED <<kstack, proc, np>> /\ state[p] = "RUNNING"
        /\ state' = [state EXCEPT ![p] = "SLEEPING"]
        /\ pc' = [pc EXCEPT ![p] = "sleep"]
    BY Zenon, <1>9, Executing DEF WaitSleep, At, Goto
  <2> QED BY <1>0, <2>1, StackQuiet DEF Live, SlotLabels
<1> QED BY <1>1, <1>2, <1>3, <1>4, <1>5, <1>6, <1>7, <1>8, <1>9

\* fork: the slot it claims has no stack, gets one from kalloc, and is given
\* back without one when kalloc or copyuvm fails.
LEMMA StackFork ==
  ASSUME ControlInv, StackInv, NEW c \in CPU, NEW p \in Proc,
         \/ AllocCas(c, p) \/ ReadNextPid(c, p) \/ CasNextPid(c, p)
         \/ Kalloc(c, p) \/ CopyUvm(c, p) \/ ForkPublish(c, p)
  PROVE  StackInv'
<1>0. /\ pc \in [Proc -> Labels] /\ state \in [Proc -> States]
      /\ np \in [Proc -> 1 .. NPROC + 1] /\ proc \in [CPU -> Proc \cup {None}]
      /\ kstack \in [Proc -> BOOLEAN]
  BY DEF ControlInv, TypeOK, ControlType, TableType
<1>1. CASE AllocCas(c, p)
  <2>1. CASE np[p] <= NPROC /\ state[np[p]] = "UNUSED"
    <3>1. np[p] \in Proc
      BY <1>0, <2>1 DEF Proc
    <3>2. /\ UNCHANGED <<kstack, proc>> /\ ~kstack[np[p]]
          /\ np' = np \/ np' = [np EXCEPT ![p] = 1]
      BY <1>1, <2>1, <3>1 DEF AllocCas, StackInv, KstackOwned, Return
    <3>3. /\ np' = np /\ state' = [state EXCEPT ![np[p]] = "EMBRYO"]
          /\ pc' = [pc EXCEPT ![p] = "readpid"]
      BY <1>0, <1>1, <2>1 DEF AllocCas, Goto
    <3> QED BY <1>0, <3>1, <3>2, <3>3, StackQuiet DEF Live
  <2>2. CASE ~(np[p] <= NPROC /\ state[np[p]] = "UNUSED")
    <3>1. /\ UNCHANGED <<kstack, proc, state>>
          /\ \/ pc' = [pc EXCEPT ![p] = "ret"] /\ np' = [np EXCEPT ![p] = 1]
             \/ pc' = pc /\ pc[p] = "alloc" /\ np' = [np EXCEPT ![p] = np[p] + 1]
      BY <1>1, <2>2 DEF AllocCas, Return, Goto, At
    <3> QED BY <1>0, <3>1, StackQuiet DEF SlotLabels
  <2> QED BY <2>1, <2>2
<1>2. CASE ReadNextPid(c, p) \/ CasNextPid(c, p)
  <2>1. /\ UNCHANGED <<kstack, proc, state, np>> /\ ~kstack[np[p]]
        /\ \E l \in {"readpid", "caspid", "kalloc"} : pc' = [pc EXCEPT ![p] = l]
    BY Zenon, <1>2 DEF ReadNextPid, CasNextPid, At, Goto, tableVars, StackInv
  <2> QED BY <1>0, <2>1, StackQuiet
<1>3. ASSUME Forking(p) PROVE /\ np[p] \in Proc /\ np[p] # p
                              /\ state[np[p]] = "EMBRYO"
                              /\ \A d \in CPU : proc[d] # np[p]
                              /\ \A q \in Proc : Forking(q) /\ np[q] = np[p] => q = p
                              /\ \A q \in Proc : pc[q] = "reap" => np[q] # np[p]
  BY <1>3, ForkSlot DEF ControlInv, SlotInv
<1>4. CASE Kalloc(c, p)
  <2>1. Forking(p) /\ UNCHANGED proc /\ ~kstack[np[p]]
    BY <1>4 DEF Kalloc, At, Forking, StackInv
  <2>2. CASE /\ UNCHANGED kstack /\ state' = [state EXCEPT ![np[p]] = "UNUSED"]
             /\ pc' = [pc EXCEPT ![p] = "ret"] /\ np' = [np EXCEPT ![p] = 1]
    BY <1>0, <1>3, <2>1, <2>2, StackQuiet DEF SlotLabels, Live
  <2>3. CASE /\ kstack' = [kstack EXCEPT ![np[p]] = TRUE] /\ UNCHANGED <<state, np>>
             /\ pc' = [pc EXCEPT ![p] = "copyuvm", ![np[p]] = "forkret"]
    <3>1. kstack'[np[p]] /\ \A q \in Proc : q # np[p] => kstack'[q] = kstack[q]
      BY <1>0, <1>3, <2>1, <2>3
    <3>2. KstackOwned'
      BY <1>0, <1>3, <2>1, <2>3, <3>1 DEF StackInv, KstackOwned
    <3>3. ASSUME NEW q \in Proc, q # p, pc'[q] \in SlotLabels
          PROVE  pc'[q] = pc[q] /\ np[q] \in Proc /\ np[q] # np[p]
      BY <1>0, <1>3, <2>1, <2>3, <3>3
         DEF SlotLabels, ControlInv, SlotInv, Forking
    <3>4. pc'[p] = "copyuvm"
      BY <1>0, <1>3, <2>1, <2>3
    <3>5. ASSUME NEW q \in Proc, pc'[q] \in {"readpid", "caspid", "kalloc", "reap"}
          PROVE  ~kstack'[np'[q]]
      <4>1. q # p /\ pc'[q] \in SlotLabels
        BY <3>4, <3>5 DEF SlotLabels
      <4>2. ~kstack[np[q]]
        BY <3>3, <3>5, <4>1 DEF StackInv
      <4> QED BY <2>3, <3>1, <3>3, <4>1, <4>2
    <3>6. ASSUME NEW q \in Proc, pc'[q] \in {"copyuvm", "publish"}
          PROVE  kstack'[np'[q]]
      <4>1. q # p => pc'[q] \in SlotLabels
        BY <3>6 DEF SlotLabels
      <4>2. q # p => kstack[np[q]]
        BY <3>3, <3>6, <4>1 DEF StackInv
      <4> QED BY <2>3, <3>1, <3>3, <4>1, <4>2
    <3> QED BY <3>2, <3>5, <3>6 DEF StackInv
  <2> QED BY <1>4, <2>2, <2>3 DEF Kalloc, Return, Goto
<1>5. CASE CopyUvm(c, p)
  <2>1. Forking(p) /\ UNCHANGED proc /\ kstack[np[p]]
    BY <1>5 DEF CopyUvm, At, Forking, StackInv
  <2>2. CASE UNCHANGED <<kstack, state, np>> /\ pc' = [pc EXCEPT ![p] = "publish"]
    BY <1>0, <2>1, <2>2, StackQuiet
  <2>3. CASE /\ kstack' = [kstack EXCEPT ![np[p]] = FALSE]
             /\ state' = [state EXCEPT ![np[p]] = "UNUSED"]
             /\ pc' = [pc EXCEPT ![p] = "ret"] /\ np' = [np EXCEPT ![p] = 1]
    <3>1. ~kstack'[np[p]] /\ \A q \in Proc : q # np[p] => kstack'[q] = kstack[q]
      BY <1>0, <1>3, <2>1, <2>3
    <3>2. KstackOwned'
      BY <1>0, <1>3, <2>1, <2>3, <3>1 DEF StackInv, KstackOwned, Live
    <3>3. ASSUME NEW q \in Proc, q # p, pc'[q] \in SlotLabels
          PROVE  pc'[q] = pc[q] /\ np'[q] = np[q] /\ np[q] \in Proc /\ np[q] # np[p]
      BY <1>0, <1>3, <2>1, <2>3, <3>3
         DEF SlotLabels, ControlInv, SlotInv, Forking
    <3>4. pc'[p] = "ret"
      BY <1>0, <2>3
    <3> QED BY <3>1, <3>2, <3>3, <3>4 DEF StackInv, SlotLabels
  <2> QED BY <1>5, <2>2, <2>3 DEF CopyUvm, Return, Goto
<1>6. CASE ForkPublish(c, p)
  <2>1. /\ Forking(p) /\ UNCHANGED <<proc, kstack>> /\ kstack[np[p]]
        /\ state' = [state EXCEPT ![np[p]] = "RUNNABLE"]
        /\ pc' = [pc EXCEPT ![p] = "ret"] /\ np' = [np EXCEPT ![p] = 1]
    BY Zenon, <1>6 DEF ForkPublish, At, Forking, StackInv, Return, Goto
  <2> QED BY <1>0, <1>3, <2>1, StackQuiet DEF SlotLabels, Live
<1> QED BY <1>1, <1>2, <1>4, <1>5, <1>6

\* wait frees the stack of a zombie that no CPU is on any more, and then gives
\* the slot back.
LEMMA StackWait ==
  ASSUME ControlInv, ControlInv', StackInv, NEW c \in CPU, NEW p \in Proc,
         WaitReap(c, p) \/ WaitFree(c, p)
  PROVE  StackInv'
<1>0. /\ pc \in [Proc -> Labels] /\ state \in [Proc -> States]
      /\ np \in [Proc -> 1 .. NPROC + 1] /\ proc \in [CPU -> Proc \cup {None}]
      /\ kstack \in [Proc -> BOOLEAN]
  BY DEF ControlInv, TypeOK, ControlType, TableType
<1>1. CASE WaitReap(c, p)
  <2>1. PICK z \in Proc : /\ state[z] = "ZOMBIE"
                          /\ kstack' = [kstack EXCEPT ![z] = FALSE]
                          /\ np' = [np EXCEPT ![p] = z]
                          /\ pc' = [pc EXCEPT ![p] = "reap"]
                          /\ UNCHANGED <<state, proc, ctx>>
    BY Zenon, <1>1 DEF WaitReap, First, Zombies, Children, Goto
  <2>2. np'[p] = z /\ pc'[p] = "reap"
    BY <1>0, <2>1
  <2>3. \A d \in CPU : proc[d] # z
    <3>1. ctx'[z] = "saved"
      BY <2>2 DEF ControlInv, SlotInv
    <3> QED BY <2>1, <3>1 DEF ControlInv, CpuInv, OnCPU
  <2>4. ~kstack'[z] /\ \A q \in Proc : q # z => kstack'[q] = kstack[q]
    BY <1>0, <2>1
  <2>5. KstackOwned'
    BY <1>0, <2>1, <2>3, <2>4 DEF StackInv, KstackOwned, Live
  <2>6. ASSUME NEW q \in Proc, q # p
        PROVE  /\ pc'[q] = pc[q] /\ np'[q] = np[q]
               /\ pc[q] \in {"copyuvm", "publish"} => np[q] \in Proc /\ np[q] # z
               /\ pc[q] \in SlotLabels => np[q] \in Proc
    BY <1>0, <2>1, <2>6 DEF SlotLabels, ControlInv, SlotInv, EmbryoOwned, Forking
  <2> QED BY <2>2, <2>4, <2>5, <2>6 DEF StackInv, SlotLabels
<1>2. CASE WaitFree(c, p)
  <2>1. /\ UNCHANGED <<proc, kstack>> /\ ~kstack[np[p]] /\ np[p] \in Proc
        /\ state' = [state EXCEPT ![np[p]] = "UNUSED"]
        /\ pc' = [pc EXCEPT ![p] = "ret"] /\ np' = [np EXCEPT ![p] = 1]
    BY <1>2 DEF WaitFree, At, StackInv, Return, Goto, ControlInv, SlotInv
  <2> QED BY <1>0, <2>1, StackQuiet DEF SlotLabels, Live
<1> QED BY <1>1, <1>2

\* Every step preserves StackInv.
LEMMA StackInductive == ControlInv /\ ControlInv' /\ StackInv /\ [Next]_vars => StackInv'
<1> SUFFICES ASSUME ControlInv, ControlInv', StackInv, [Next]_vars PROVE StackInv'
  OBVIOUS
<1>1. CASE UNCHANGED vars
  BY Zenon, <1>1 DEF vars, StackInv, KstackOwned
<1>2. CASE Next
  <2> PICK c \in CPU :
        \/ Scheduler(c) \/ ExitInit(c)
        \/ \E p \in Proc : \/ SwitchStep(c, p) \/ KernelStep(c, p)
                           \/ UserStep(c, p) \/ KernelIntr(c, p) \/ Yield(c, p)
    BY <1>2 DEF Next
  <2>1. CASE Scheduler(c) \/ ExitInit(c)
    BY <2>1, InitIsProc, StackOutside
  <2>2. ASSUME NEW p \in Proc, KernelStep(c, p) PROVE StackInv'
    BY <2>2, StackOutside, StackFork, StackWait DEF KernelStep
  <2>3. ASSUME NEW p \in Proc,
               \/ SwitchStep(c, p) \/ UserStep(c, p) \/ KernelIntr(c, p) \/ Yield(c, p)
        PROVE  StackInv'
    BY <2>3, StackOutside
  <2> QED BY <2>1, <2>2, <2>3
<1> QED BY <1>1, <1>2

\* However fork fails and whoever reaps, a kernel stack is freed once, when no
\* CPU is on it, and an unused slot has none.
THEOREM StackOwnership == Spec => []KstackOwned
<1>1. Init => StackInv
  <2> SUFFICES ASSUME Init PROVE StackInv
    OBVIOUS
  <2>1. \A p \in Proc : kstack[p] <=> p = initproc
    BY Zenon DEF Init
  <2>2. \A p \in Proc : state[p] = IF p = initproc THEN "RUNNABLE" ELSE "UNUSED"
    BY DEF Init
  <2>3. KstackOwned
    BY <2>1, <2>2 DEF Init, KstackOwned, Live
  <2> QED BY <2>3 DEF Init, StackInv
<1>2. StackInv => KstackOwned
  BY DEF StackInv
<1> QED BY <1>1, <1>2, StackInductive, ControlAlways, PTL DEF Spec

-----------------------------------------------------------------------------
(***************************************************************************)
(* The process table implements the process tree: most steps are           *)
(* invisible, and the others are one step of the tree, whatever is going   *)
(* on in other slots.                                                      *)
(***************************************************************************)

\* The types that the proofs below use.
Types ==
  /\ pc \in [Proc -> Labels] /\ state \in [Proc -> States]
  /\ np \in [Proc -> 1 .. NPROC + 1]
  /\ parent \in [Proc -> Proc \cup {None}]

\* They are part of the type invariant.
LEMMA TypesHold == ControlInv => Types
  BY DEF ControlInv, TypeOK, ControlType, TableType, Types

\* A step that nobody in the tree notices: parents stay, and a process that is
\* woken, run or preempted stays alive.
Invisible ==
  /\ \A q \in Proc : \/ state'[q] = state[q]
                     \/ state[q] \in Live /\ state'[q] \in Live
                     \/ {state[q], state'[q]} \subseteq {"UNUSED", "EMBRYO"}
                     \/ state[q] = "ZOMBIE" /\ state'[q] = "UNUSED" /\ parent[q] = None
  /\ \A q \in Proc : \/ parent'[q] = parent[q]
                     \/ {state[q], state'[q]} \subseteq {"UNUSED", "EMBRYO"}

\* The tree does not change in an invisible step.
LEMMA TreeStutters ==
  ASSUME Invisible PROVE UNCHANGED <<TreeStat, TreePar>>
<1>1. \A q \in Proc :
        /\ (state'[q] \in Live) <=> (state[q] \in Live)
        /\ (state'[q] = "ZOMBIE" /\ parent'[q] # None) <=>
           (state[q] = "ZOMBIE" /\ parent[q] # None)
        /\ \/ parent'[q] = parent[q]
           \/ state[q] \notin Live /\ state[q] # "ZOMBIE"
  BY DEF Invisible, Live
<1>2. TreeStat' = TreeStat
  BY <1>1 DEF TreeStat
<1>3. \A q \in Proc : TreeStat[q] # "free" => parent'[q] = parent[q]
  BY <1>1 DEF TreeStat
<1>4. TreePar' = TreePar
  BY <1>2, <1>3 DEF TreePar
<1> QED BY <1>2, <1>4

\* The steps of the schedulers, and of a thread outside fork, exit and the
\* reaping of wait: they are invisible, and nobody arrives at the end of fork.
LEMMA OutsideInvisible ==
  ASSUME ControlInv, NEW c \in CPU, NEW p \in Proc,
         \/ Scheduler(c) \/ ExitInit(c) \/ SwitchStep(c, p) \/ UserStep(c, p)
         \/ KernelIntr(c, p) \/ Yield(c, p) \/ SyscallRet(c, p) \/ TrapRet(c, p)
         \/ TimerKilled(c, p) \/ Kill(c, p) \/ WaitAcquire(c, p) \/ WaitFail(c, p)
         \/ WaitSleep(c, p) \/ SleepDone(c, p)
  PROVE  /\ UNCHANGED parent
         /\ \A q \in Proc : state'[q] = state[q] \/ (state[q] \in Live /\ state'[q] \in Live)
         /\ \A q \in Proc : pc'[q] = "publish" => pc[q] = "publish" /\ np'[q] = np[q]
<1>0. Types
  BY TypesHold
<1>1. CASE Scheduler(c)
  <2>1. /\ UNCHANGED <<parent, pc, np>>
        /\ \/ state' = state
           \/ \E q \in Proc : state[q] = "RUNNABLE" /\ state' = [state EXCEPT ![q] = "RUNNING"]
    BY <1>1 DEF Scheduler, SchedAcquire, SchedRun, SchedRelease, First, RunnableFrom,
                tableVars, threadVars
  <2> QED BY <1>0, <2>1 DEF Types, Live
<1>2. CASE ExitInit(c)
  <2>1. UNCHANGED <<parent, state, np>> /\ pc' = [pc EXCEPT ![initproc] = "initpanic"]
    BY <1>2 DEF ExitInit, Goto, tableVars
  <2> QED BY <1>0, <2>1 DEF Types
<1>3. CASE \/ SwitchStep(c, p) \/ SyscallRet(c, p) \/ TrapRet(c, p) \/ TimerKilled(c, p)
           \/ Kill(c, p) \/ WaitAcquire(c, p) \/ WaitFail(c, p) \/ SleepDone(c, p)
  <2>1. /\ UNCHANGED <<parent, state, np>>
        /\ \/ pc' = pc
           \/ \E l \in {"schedpanic", "ret", "trapret", "exit", "user", "wait"} :
                pc' = [pc EXCEPT ![p] = l]
    BY Zenon, <1>3 DEF SwitchStep, Sched, YieldDone, ForkRet, SyscallRet, TrapRet, TimerKilled,
                Kill, WaitAcquire, WaitFail, SleepDone, Goto, tableVars
  <2> QED BY <1>0, <2>1 DEF Types
<1>4. CASE UserStep(c, p)
  <2>1. /\ UNCHANGED <<parent, state>>
        /\ np' = np \/ np' = [np EXCEPT ![p] = 1]
        /\ \E l \in {"alloc", "kill", "exit", "acqwait"} : pc' = [pc EXCEPT ![p] = l]
    BY <1>4 DEF UserStep, SysFork, SysKill, SysExit, SysWait, Syscall, Goto, tableVars
  <2> QED BY <1>0, <2>1 DEF Types
<1>5. CASE KernelIntr(c, p)
  BY Zenon, <1>5 DEF KernelIntr, threadVars
<1>6. CASE Yield(c, p)
  <2>1. /\ UNCHANGED <<parent, pc, np>> /\ state[p] = "RUNNING"
        /\ state' = [state EXCEPT ![p] = "RUNNABLE"]
    BY Zenon, <1>6, Executing DEF Yield, At
  <2> QED BY <1>0, <2>1 DEF Types, Live
<1>7. CASE WaitSleep(c, p)
  <2>1. /\ UNCHANGED <<parent, np>> /\ state[p] = "RUNNING"
        /\ state' = [state EXCEPT ![p] = "SLEEPING"]
        /\ pc' = [pc EXCEPT ![p] = "sleep"]
    BY Zenon, <1>7, Executing DEF WaitSleep, At, Goto
  <2> QED BY <1>0, <2>1 DEF Types, Live
<1> QED BY <1>1, <1>2, <1>3, <1>4, <1>5, <1>6, <1>7

\* They preserve TreeInv.
LEMMA OutsideTree ==
  ASSUME TreeInv, UNCHANGED parent,
         \A q \in Proc : state'[q] = state[q] \/ (state[q] \in Live /\ state'[q] \in Live),
         \A q \in Proc : pc'[q] = "publish" => pc[q] = "publish" /\ np'[q] = np[q]
  PROVE  TreeInv' /\ Invisible
  BY Zenon DEF TreeInv, Invisible

\* allocproc and the copying of the parent are invisible; a slot that is being
\* prepared is not in the tree, whoever its parent is.
LEMMA ForkPrepares ==
  ASSUME ControlInv, TreeInv, NEW c \in CPU, NEW p \in Proc,
         \/ AllocCas(c, p) \/ ReadNextPid(c, p) \/ CasNextPid(c, p)
         \/ Kalloc(c, p) \/ CopyUvm(c, p)
  PROVE  TreeInv' /\ Invisible
<1>0. Types
  BY TypesHold
<1>1. CASE AllocCas(c, p)
  <2>1. CASE np[p] <= NPROC /\ state[np[p]] = "UNUSED"
    <3>1. /\ np[p] \in Proc /\ UNCHANGED <<parent, np>>
          /\ state' = [state EXCEPT ![np[p]] = "EMBRYO"]
          /\ pc' = [pc EXCEPT ![p] = "readpid"]
      BY <1>0, <1>1, <2>1 DEF AllocCas, Goto, Types, Proc
    <3> QED BY <1>0, <2>1, <3>1 DEF Types, TreeInv, Invisible, Live
  <2>2. CASE ~(np[p] <= NPROC /\ state[np[p]] = "UNUSED")
    <3>1. /\ UNCHANGED <<parent, state>>
          /\ \/ pc' = [pc EXCEPT ![p] = "ret"]
             \/ pc' = pc /\ pc[p] = "alloc"
          /\ \A q \in Proc : q # p => np'[q] = np[q]
      BY <1>0, <1>1, <2>2 DEF AllocCas, Return, Goto, At, Types
    <3> QED BY <1>0, <3>1 DEF Types, TreeInv, Invisible
  <2> QED BY <2>1, <2>2
<1>2. CASE ReadNextPid(c, p) \/ CasNextPid(c, p)
  <2>1. /\ UNCHANGED <<parent, state, np>>
        /\ \E l \in {"readpid", "caspid", "kalloc"} : pc' = [pc EXCEPT ![p] = l]
    BY Zenon, <1>2 DEF ReadNextPid, CasNextPid, Goto, tableVars
  <2> QED BY <1>0, <2>1 DEF Types, TreeInv, Invisible
<1>3. ASSUME Forking(p) PROVE /\ np[p] \in Proc /\ np[p] # p
                              /\ state[np[p]] = "EMBRYO"
                              /\ \A q \in Proc : Forking(q) /\ np[q] = np[p] => q = p
  BY Zenon, <1>3, ForkSlot
<1>4. CASE Kalloc(c, p)
  <2>1. Forking(p) /\ UNCHANGED parent
    BY <1>4 DEF Kalloc, At, Forking
  <2>2. CASE /\ UNCHANGED <<state, np>>
             /\ pc' = [pc EXCEPT ![p] = "copyuvm", ![np[p]] = "forkret"]
    BY <1>0, <1>3, <2>1, <2>2 DEF Types, TreeInv, Invisible
  <2>3. CASE /\ state' = [state EXCEPT ![np[p]] = "UNUSED"]
             /\ pc' = [pc EXCEPT ![p] = "ret"] /\ np' = [np EXCEPT ![p] = 1]
    BY <1>0, <1>3, <2>1, <2>3 DEF Types, TreeInv, Invisible, Live
  <2> QED BY <1>4, <2>2, <2>3 DEF Kalloc, Return, Goto
<1>5. CASE CopyUvm(c, p)
  <2>1. Forking(p)
    BY <1>5 DEF CopyUvm, At, Forking
  <2>2. CASE /\ parent' = [parent EXCEPT ![np[p]] = p] /\ UNCHANGED <<state, np>>
             /\ pc' = [pc EXCEPT ![p] = "publish"]
    <3>1. Invisible
      BY <1>0, <1>3, <2>1, <2>2 DEF Types, Invisible
    <3>2. ASSUME NEW q \in Proc, pc'[q] = "publish" PROVE parent'[np'[q]] = q
      <4>1. CASE q = p
        BY <1>0, <1>3, <2>1, <2>2, <4>1 DEF Types
      <4>2. CASE q # p
        BY <1>0, <1>3, <2>1, <2>2, <3>2, <4>2
           DEF Types, TreeInv, Forking, ControlInv, SlotInv
      <4> QED BY <4>1, <4>2
    <3>3. \A q \in Proc : state'[q] \in Live /\ q # initproc => parent'[q] # None
      BY <1>0, <1>3, <2>1, <2>2, NoneNotProc DEF Types, TreeInv, Live
    <3> QED BY <3>1, <3>2, <3>3 DEF TreeInv
  <2>3. CASE /\ state' = [state EXCEPT ![np[p]] = "UNUSED"] /\ UNCHANGED parent
             /\ pc' = [pc EXCEPT ![p] = "ret"] /\ np' = [np EXCEPT ![p] = 1]
    BY <1>0, <1>3, <2>1, <2>3 DEF Types, TreeInv, Invisible, Live
  <2> QED BY <1>5, <2>2, <2>3 DEF CopyUvm, Return, Goto
<1> QED BY <1>1, <1>2, <1>4, <1>5

\* A child joins the tree when fork makes it RUNNABLE.
LEMMA PublishForks ==
  ASSUME ControlInv, TreeInv, NEW c \in CPU, NEW p \in Proc, ForkPublish(c, p)
  PROVE  TreeInv' /\ Tree!Next
<1>0. Types
  BY TypesHold
<1>1. /\ np[p] \in Proc /\ np[p] # p /\ state[np[p]] = "EMBRYO" /\ parent[np[p]] = p
      /\ state[p] = "RUNNING" /\ UNCHANGED parent
      /\ state' = [state EXCEPT ![np[p]] = "RUNNABLE"]
      /\ pc' = [pc EXCEPT ![p] = "ret"] /\ np' = [np EXCEPT ![p] = 1]
  BY ForkSlot, Executing DEF ForkPublish, At, Forking, TreeInv, Return, Goto
<1>2. TreeInv'
  BY <1>0, <1>1, NoneNotProc DEF Types, TreeInv, Live
<1>3. TreeStat[p] = "alive" /\ TreeStat[np[p]] = "free" /\ TreePar[np[p]] = None
  BY <1>1 DEF TreeStat, TreePar, Live
<1>4. TreeStat' = [TreeStat EXCEPT ![np[p]] = "alive"]
  BY Zenon, <1>0, <1>1 DEF TreeStat, Live, Types
<1>5. TreePar' = [TreePar EXCEPT ![np[p]] = p]
  BY Zenon, <1>1, <1>4 DEF TreePar, TreeStat
<1> QED BY <1>1, <1>2, <1>3, <1>4, <1>5 DEF Tree!Next, Tree!Fork

\* exit makes a zombie that has a parent, and gives its children to init.
LEMMA ExitExits ==
  ASSUME ControlInv, WaitInv, TreeInv, NEW c \in CPU, NEW p \in Proc, Exit(c, p)
  PROVE  TreeInv' /\ Tree!Next
<1>0. Types
  BY TypesHold
<1>1. state[p] = "RUNNING" /\ p # initproc /\ pc[p] = "exit"
  BY Zenon, Executing DEF Exit, At
<1>2. /\ state' = [Wakeup1(ExitWakes(p)) EXCEPT ![p] = "ZOMBIE"]
      /\ parent' = [q \in Proc |-> IF parent[q] = p THEN initproc ELSE parent[q]]
      /\ UNCHANGED <<pc, np>>
  BY DEF Exit
<1>3. /\ state'[p] = "ZOMBIE"
      /\ \A q \in Proc : q # p => /\ state'[q] \in Live <=> state[q] \in Live
                                  /\ state'[q] = "ZOMBIE" <=> state[q] = "ZOMBIE"
  BY <1>0, <1>2 DEF Types, Wakeup1, Live
<1>4. \A q \in Proc : parent'[q] = None <=> parent[q] = None
  BY <1>2, NoneNotProc, InitIsProc
<1>5. TreeInv'
  <2>1. \A q \in Proc : state'[q] \in Live /\ q # initproc => parent'[q] # None
    BY <1>3, <1>4 DEF TreeInv, Live
  <2>2. \A q \in Proc : pc[q] = "publish" => np[q] \in Proc /\ parent[np[q]] = q /\ q # p
    BY <1>1 DEF TreeInv, ControlInv, SlotInv, Forking
  <2>3. \A q \in Proc : pc'[q] = "publish" => parent'[np'[q]] = q
    BY <1>2, <2>2
  <2> QED BY <2>1, <2>3 DEF TreeInv
<1>6. parent[p] # None /\ parent[p] # p /\ parent'[p] = parent[p]
  BY <1>1, <1>2 DEF TreeInv, Live, WaitInv, RootInv
<1>7. TreeStat' = [TreeStat EXCEPT ![p] = "zombie"]
  BY Zenon, <1>3, <1>4, <1>6 DEF TreeStat, Live
<1>8. TreePar' = [q \in Proc |-> IF TreePar[q] = p THEN initproc ELSE TreePar[q]]
  <2>1. \A q \in Proc : TreeStat'[q] = "free" <=> TreeStat[q] = "free"
    BY Zenon, <1>1, <1>7 DEF TreeStat, Live
  <2> QED BY <1>2, <2>1, NoneNotProc DEF TreePar
<1>9. TreeStat[p] = "alive"
  BY <1>1 DEF TreeStat, Live
<1> QED BY <1>1, <1>5, <1>7, <1>8, <1>9 DEF Tree!Next, Tree!Exit

\* A zombie leaves the tree when its parent clears its slot; that the slot is
\* free for others only later is invisible.
LEMMA ReapWaits ==
  ASSUME ControlInv, WaitInv, TreeInv, NEW c \in CPU, NEW p \in Proc,
         WaitReap(c, p) \/ WaitFree(c, p)
  PROVE  TreeInv' /\ (Tree!Next \/ Invisible)
<1>0. Types
  BY TypesHold
<1>1. CASE WaitReap(c, p)
  <2>1. PICK z \in Proc : /\ state[z] = "ZOMBIE" /\ parent[z] = p
                          /\ parent' = [parent EXCEPT ![z] = None]
                          /\ np' = [np EXCEPT ![p] = z]
                          /\ pc' = [pc EXCEPT ![p] = "reap"]
                          /\ UNCHANGED state
    BY Zenon, <1>1 DEF WaitReap, First, Zombies, Children, Goto
  <2>2. state[p] = "RUNNING"
    BY Zenon, <1>1, Executing DEF WaitReap, At
  <2>3. TreeInv'
    <3>1. \A q \in Proc : pc[q] = "publish" => np[q] \in Proc /\ np[q] # z
      BY Zenon, <2>1 DEF ControlInv, SlotInv, EmbryoOwned, Forking
    <3> QED BY <1>0, <2>1, <3>1 DEF Types, TreeInv, Live
  <2>4. TreeStat[p] = "alive" /\ TreeStat[z] = "zombie" /\ TreePar[z] = p
    BY <2>1, <2>2, NoneNotProc DEF TreeStat, TreePar, Live
  <2>5. TreeStat' = [TreeStat EXCEPT ![z] = "free"]
    BY Zenon, <1>0, <2>1 DEF TreeStat, Live, Types
  <2>6. TreePar' = [TreePar EXCEPT ![z] = None]
    BY Zenon, <1>0, <2>1, <2>5 DEF TreePar, TreeStat, Types
  <2> QED BY <2>3, <2>4, <2>5, <2>6 DEF Tree!Next, Tree!Wait
<1>2. CASE WaitFree(c, p)
  <2>1. /\ UNCHANGED parent /\ np[p] \in Proc
        /\ state[np[p]] = "ZOMBIE" /\ parent[np[p]] = None
        /\ state' = [state EXCEPT ![np[p]] = "UNUSED"]
        /\ pc' = [pc EXCEPT ![p] = "ret"] /\ np' = [np EXCEPT ![p] = 1]
    BY <1>2 DEF WaitFree, At, Return, Goto, ControlInv, SlotInv, WaitInv, FreshParent
  <2> QED BY <1>0, <2>1 DEF Types, TreeInv, Invisible, Live
<1> QED BY <1>1, <1>2

\* Every step is a step of the tree or invisible.
LEMMA TreeStep ==
  ASSUME ControlInv, WaitInv, TreeInv, [Next]_vars
  PROVE  TreeInv' /\ (Tree!Next \/ UNCHANGED <<TreeStat, TreePar>>)
<1>1. CASE UNCHANGED vars
  BY <1>1 DEF vars, TreeInv, TreeStat, TreePar
<1>2. CASE Next
  <2> PICK c \in CPU :
        \/ Scheduler(c) \/ ExitInit(c)
        \/ \E p \in Proc : \/ SwitchStep(c, p) \/ KernelStep(c, p)
                           \/ UserStep(c, p) \/ KernelIntr(c, p) \/ Yield(c, p)
    BY <1>2 DEF Next
  <2>1. CASE Scheduler(c) \/ ExitInit(c)
    BY Zenon, <2>1, InitIsProc, OutsideInvisible, OutsideTree, TreeStutters
  <2>2. ASSUME NEW p \in Proc,
               \/ SwitchStep(c, p) \/ UserStep(c, p) \/ KernelIntr(c, p) \/ Yield(c, p)
               \/ SyscallRet(c, p) \/ TrapRet(c, p) \/ TimerKilled(c, p) \/ Kill(c, p)
               \/ WaitAcquire(c, p) \/ WaitFail(c, p) \/ WaitSleep(c, p) \/ SleepDone(c, p)
        PROVE  TreeInv' /\ UNCHANGED <<TreeStat, TreePar>>
    BY Zenon, <2>2, OutsideInvisible, OutsideTree, TreeStutters
  <2>3. ASSUME NEW p \in Proc,
               \/ AllocCas(c, p) \/ ReadNextPid(c, p) \/ CasNextPid(c, p)
               \/ Kalloc(c, p) \/ CopyUvm(c, p)
        PROVE  TreeInv' /\ UNCHANGED <<TreeStat, TreePar>>
    BY <2>3, ForkPrepares, TreeStutters
  <2>4. ASSUME NEW p \in Proc, ForkPublish(c, p) \/ Exit(c, p)
        PROVE  TreeInv' /\ Tree!Next
    BY <2>4, PublishForks, ExitExits
  <2>5. ASSUME NEW p \in Proc, WaitReap(c, p) \/ WaitFree(c, p)
        PROVE  TreeInv' /\ (Tree!Next \/ UNCHANGED <<TreeStat, TreePar>>)
    BY <2>5, ReapWaits, TreeStutters
  <2>6. ASSUME NEW p \in Proc, KernelStep(c, p)
        PROVE  TreeInv' /\ (Tree!Next \/ UNCHANGED <<TreeStat, TreePar>>)
    BY <2>2, <2>3, <2>4, <2>5, <2>6 DEF KernelStep
  <2> QED BY <2>1, <2>2, <2>6
<1> QED BY <1>1, <1>2

\* Whatever the interleaving of any number of CPUs, fork, exit and wait are
\* those of the process tree: no child is lost and none is reaped twice.
THEOREM TableIsTree == Spec => ImplementsTree
<1>1. Init => TreeInv
  BY NoneNotProc, InitIsProc DEF Init, TreeInv, Live
<1>2. Init => Tree!Init
  BY InitIsProc DEF Init, Tree!Init, TreeStat, TreePar, Live
<1>3. ControlInv /\ WaitInv /\ TreeInv /\ [Next]_vars =>
        TreeInv' /\ [Tree!Next]_<<TreeStat, TreePar>>
  BY TreeStep
<1> QED
  BY <1>1, <1>2, <1>3, ControlAlways, WaitAlways, PTL DEF Spec, ImplementsTree, Tree!Spec

=============================================================================
