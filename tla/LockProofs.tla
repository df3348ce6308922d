---------------------------- MODULE LockProofs ------------------------------
(***************************************************************************)
(* Locks and waiting, for any number of threads, processors and locks.     *)
(* The sleep lock: mutual exclusion, as an implementation of Mutex, and no *)
(* wakeup that is lost.  Spin locks under interrupts: no circle of waiting *)
(* processors, and flags that follow the locks held, through every nesting *)
(* of acquire, release and handlers.  The clock: no thread leaves          *)
(* sys_sleep early, for any width of the clock, when a sleep is shorter    *)
(* than one round of it.                                                   *)
(***************************************************************************)
EXTENDS SleepLock, Spinlock, FiniteSetTheorems, TLAPS

-----------------------------------------------------------------------------
(***************************************************************************)
(* The sleep lock.                                                         *)
(***************************************************************************)

\* The sleep lock starts free, with nobody on the way to it (initsleeplock).
LEMMA InitInd == Init => IndInv
BY NobodyAssumption
DEF Init, IndInv, TypeOK, LockInv, SleepInv, GoingToSleep, HoldsLk, HoldsPt, Labels

\* Every step of acquiresleep, sleep and releasesleep keeps the types.
LEMMA TypeStep == TypeOK /\ [Next]_vars => TypeOK'
<1> SUFFICES ASSUME TypeOK, [Next]_vars PROVE TypeOK'
  OBVIOUS
<1>1. CASE UNCHANGED vars
  BY <1>1 DEF TypeOK, vars
<1>2. ASSUME NEW t \in Thread, Call(t) \/ CallRelease(t) \/ Progress(t) PROVE TypeOK'
  <2>1. pc' \in [Thread -> Labels]
    BY <1>2 DEF TypeOK, Labels, Step, Progress, Call, CallRelease, Acquire, TestLocked,
       Take, SleepAcquire, SleepUnlock, SleepSched, Resume, ReleaseAcquire, ReleaseClear,
       ReleaseWakeup, ReleaseDone
  <2> QED
    BY <1>2, <2>1 DEF TypeOK, Progress, Call, CallRelease, Acquire, TestLocked, Take,
       SleepAcquire, SleepUnlock, SleepSched, Resume, ReleaseAcquire, ReleaseClear,
       ReleaseWakeup, ReleaseDone
<1> QED
  BY <1>1, <1>2 DEF Next

\* Each spin lock is held by the thread that is between its acquire and its
\* release, and the sleep lock by the thread that has not given it back.
LEMMA LockStep == IndInv /\ [Next]_vars => LockInv'
<1> SUFFICES ASSUME IndInv, [Next]_vars PROVE LockInv'
  OBVIOUS
<1> USE NobodyAssumption DEF IndInv, TypeOK, LockInv, SleepInv, HoldsLk, HoldsPt
<1>1. CASE UNCHANGED vars
  BY <1>1 DEF vars
<1>2. ASSUME NEW t \in Thread, Call(t) \/ CallRelease(t) PROVE LockInv'
  BY <1>2 DEF Call, CallRelease, Step
<1>3. ASSUME NEW t \in Thread, Acquire(t) PROVE LockInv'
  BY <1>3 DEF Acquire, Step
<1>4. ASSUME NEW t \in Thread, TestLocked(t) PROVE LockInv'
  BY <1>4 DEF TestLocked, Step
<1>5. ASSUME NEW t \in Thread, Take(t) PROVE LockInv'
  BY <1>5 DEF Take, Step
<1>6. ASSUME NEW t \in Thread, SleepAcquire(t) PROVE LockInv'
  BY <1>6 DEF SleepAcquire, Step
<1>7. ASSUME NEW t \in Thread, SleepUnlock(t) PROVE LockInv'
  BY <1>7 DEF SleepUnlock, Step
<1>8. ASSUME NEW t \in Thread, SleepSched(t) PROVE LockInv'
  BY <1>8 DEF SleepSched, Step
<1>9. ASSUME NEW t \in Thread, Resume(t) PROVE LockInv'
  BY <1>9 DEF Resume, Step
<1>10. ASSUME NEW t \in Thread, ReleaseAcquire(t) PROVE LockInv'
  BY <1>10 DEF ReleaseAcquire, Step
<1>11. ASSUME NEW t \in Thread, ReleaseClear(t) PROVE LockInv'
  BY <1>11 DEF ReleaseClear, Step
<1>12. ASSUME NEW t \in Thread, ReleaseWakeup(t) PROVE LockInv'
  BY <1>12 DEF ReleaseWakeup, Step
<1>13. ASSUME NEW t \in Thread, ReleaseDone(t) PROVE LockInv'
  BY <1>13 DEF ReleaseDone, Step
<1> QED
  BY <1>1, <1>2, <1>3, <1>4, <1>5, <1>6, <1>7, <1>8, <1>9, <1>10, <1>11, <1>12, <1>13
  DEF Next, Progress

\* A thread that is asleep, or on its way there, waits for a lock that is taken
\* or whose releaser has yet to call wakeup.
LEMMA SleepStep == IndInv /\ [Next]_vars => SleepInv'
<1> SUFFICES ASSUME IndInv, [Next]_vars PROVE SleepInv'
  OBVIOUS
<1> USE NobodyAssumption DEF IndInv, TypeOK, LockInv, SleepInv, HoldsLk, HoldsPt, GoingToSleep
<1>1. CASE UNCHANGED vars
  BY <1>1 DEF vars
<1>2. ASSUME NEW t \in Thread, Call(t) \/ CallRelease(t) PROVE SleepInv'
  BY <1>2 DEF Call, CallRelease, Step
<1>3. ASSUME NEW t \in Thread, Acquire(t) PROVE SleepInv'
  BY <1>3 DEF Acquire, Step
<1>4. ASSUME NEW t \in Thread, TestLocked(t) PROVE SleepInv'
  BY <1>4 DEF TestLocked, Step
<1>5. ASSUME NEW t \in Thread, Take(t) PROVE SleepInv'
  BY <1>5 DEF Take, Step
<1>6. ASSUME NEW t \in Thread, SleepAcquire(t) PROVE SleepInv'
  BY <1>6 DEF SleepAcquire, Step
<1>7. ASSUME NEW t \in Thread, SleepUnlock(t) PROVE SleepInv'
  BY <1>7 DEF SleepUnlock, Step
<1>8. ASSUME NEW t \in Thread, SleepSched(t) PROVE SleepInv'
  BY <1>8 DEF SleepSched, Step
<1>9. ASSUME NEW t \in Thread, Resume(t) PROVE SleepInv'
  BY <1>9 DEF Resume, Step
<1>10. ASSUME NEW t \in Thread, ReleaseAcquire(t) PROVE SleepInv'
  BY <1>10 DEF ReleaseAcquire, Step
<1>11. ASSUME NEW t \in Thread, ReleaseClear(t) PROVE SleepInv'
  BY <1>11 DEF ReleaseClear, Step
<1>12. ASSUME NEW t \in Thread, ReleaseWakeup(t) PROVE SleepInv'
  BY <1>12 DEF ReleaseWakeup, Step
<1>13. ASSUME NEW t \in Thread, ReleaseDone(t) PROVE SleepInv'
  BY <1>13 DEF ReleaseDone, Step
<1> QED
  BY <1>1, <1>2, <1>3, <1>4, <1>5, <1>6, <1>7, <1>8, <1>9, <1>10, <1>11, <1>12, <1>13
  DEF Next, Progress

\* The inductive invariant of the sleep lock holds in every reachable state.
LEMMA IndAlways == Spec => []IndInv
<1>1. IndInv /\ [Next]_vars => IndInv'
  BY TypeStep, LockStep, SleepStep DEF IndInv
<1> QED
  BY InitInd, <1>1, PTL DEF Spec

\* For any number of threads, nobody sleeps on a free lock: sleep gives up
\* lk->lk only once it has ptable.lock, without which wakeup cannot look.
THEOREM NoWakeupLost == Spec => []NoLostWakeup
<1>1. IndInv => NoLostWakeup
  BY DEF IndInv, SleepInv, GoingToSleep, NoLostWakeup
<1> QED
  BY IndAlways, <1>1, PTL

\* For any number of threads, each spin lock is held exactly between its acquire
\* and its release, across the hand-over of sleep, and the sleep lock exactly
\* from acquiresleep to the clearing of locked.
THEOREM LocksHeld == Spec => []LockInv
<1>1. IndInv => LockInv
  BY DEF IndInv
<1> QED
  BY IndAlways, <1>1, PTL

\* For any number of threads, acquiresleep and releasesleep implement Mutex:
\* the loop of acquiresleep looks again at locked after every wakeup, and only
\* the owner clears it.
THEOREM SleepLockIsMutex == Spec => ImplementsMutex
<1>1. Init => M!Init
  BY DEF Init, M!Init
<1>2. IndInv /\ [Next]_vars => [M!Next]_pid
  <2> SUFFICES ASSUME IndInv, [Next]_vars, pid' # pid PROVE M!Next
    OBVIOUS
  <2>1. PICK t \in Thread : Take(t) \/ ReleaseClear(t)
    BY DEF vars, Next, Progress, Call, CallRelease, Acquire, TestLocked, SleepAcquire,
       SleepUnlock, SleepSched, Resume, ReleaseAcquire, ReleaseWakeup, ReleaseDone
  <2>2. CASE Take(t)
    BY <2>2 DEF Take, IndInv, SleepInv, M!Next, M!Acquire
  <2>3. CASE ReleaseClear(t)
    BY <2>3 DEF ReleaseClear, Step, IndInv, LockInv, M!Next, M!Release
  <2> QED
    BY <2>1, <2>2, <2>3
<1> QED
  BY IndAlways, <1>1, <1>2, PTL DEF Spec, ImplementsMutex, M!Spec

-----------------------------------------------------------------------------
(***************************************************************************)
(* Spin locks under interrupts.                                            *)
(***************************************************************************)

SpinBounds == IsFiniteSet(Lock) /\ Lock \subseteq Nat /\ 0 \notin Cpu

\* The empty sequence is one over any set, and the only one without elements.
LEMMA NoElements ==
  \A S : <<>> \in Seq(S) /\ Len(<<>>) = 0 /\ \A a \in Seq(S) : a # <<>> => Len(a) # 0
OBVIOUS

\* The elements of two sequences one after the other.
LEMMA Joined ==
  ASSUME NEW S, NEW a \in Seq(S), NEW b \in Seq(S)
  PROVE  /\ a \o b \in Seq(S) /\ Len(a \o b) = Len(a) + Len(b)
         /\ \A k \in 1..(Len(a) + Len(b)) :
              (a \o b)[k] = IF k <= Len(a) THEN a[k] ELSE b[k - Len(a)]
OBVIOUS

\* One element less at the front.
LEMMA OneLess ==
  ASSUME NEW S, NEW a \in Seq(S), a # <<>>
  PROVE  /\ Head(a) \in S /\ Tail(a) \in Seq(S) /\ Len(Tail(a)) = Len(a) - 1
         /\ \A k \in 1..Len(Tail(a)) : Tail(a)[k] = a[k + 1]
OBVIOUS

\* A step of one processor does not disturb the others.
LEMMA OtherCpu ==
  ASSUME SpinInv, NEW d \in Cpu, IF_'[d] = IF_[d], ncli'[d] = ncli[d], intena'[d] = intena[d],
         stack'[d] = stack[d], \A l \in Lock : owner'[l] = d <=> owner[l] = d
  PROVE  CpuInv(d)'
<1>1. CpuInv(d)
  BY DEF SpinInv
<1>2. {l \in Lock : owner'[l] = d} = {l \in Lock : owner[l] = d}
  OBVIOUS
<1> QED
  BY <1>1, <1>2 DEF CpuInv, Top, Interrupted

\* The code on top of a stack goes on, what it has interrupted stays.
LEMMA TopStep ==
  ASSUME SpinInv, NEW c \in Cpu, NEW f \in Frames, SetTop(c, f)
  PROVE  /\ stack' \in [Cpu -> Seq(Frames)] /\ Len(stack'[c]) = Len(stack[c])
         /\ stack'[c][1] = f
         /\ Interrupted(stack[c][2]) /\ Len(stack[c]) = 2 => Interrupted(stack'[c][2])
         /\ \A d \in Cpu \ {c} : stack'[d] = stack[d]
<1>1. stack \in [Cpu -> Seq(Frames)] /\ (Len(stack[c]) = 1 \/ Len(stack[c]) = 2)
  BY DEF SpinInv, SpinTypeOK, CpuInv
<1> DEFINE s == stack[c]
           q == [s EXCEPT ![1] = f]
<1>2. s \in Seq(Frames) /\ 1 \in DOMAIN s /\ Len(s) \in Nat
  BY <1>1
<1>3. q \in Seq(Frames) /\ Len(q) = Len(s) /\ q[1] = f /\ (Len(s) = 2 => q[2] = s[2])
  BY <1>2
<1>4. stack' = [stack EXCEPT ![c] = q]
  BY <1>1 DEF SetTop
<1> HIDE DEF q
<1>5. stack' \in [Cpu -> Seq(Frames)] /\ stack'[c] = q /\ \A d \in Cpu \ {c} : stack'[d] = stack[d]
  BY <1>1, <1>3, <1>4
<1> QED
  BY <1>3, <1>5

\* The records that the instructions write.
LEMMA TopType ==
  ASSUME SpinInv, NEW c \in Cpu
  PROVE  Top(c) \in Frames /\ CpuInv(c) /\ SpinTypeOK
<1>1. SpinTypeOK /\ CpuInv(c)
  BY DEF SpinInv
<1>2. stack[c] \in Seq(Frames) /\ 1 \in DOMAIN stack[c]
  BY <1>1 DEF SpinTypeOK, CpuInv
<1> QED
  BY <1>1, <1>2 DEF Top

\* acquire of a lock that comes after those in hand.
LEMMA AcquireInv ==
  ASSUME SpinBounds, SpinInv, NEW c \in Cpu, NEW l \in Lock, acquire(c, l)
  PROVE  SpinInv'
<1> DEFINE f == [Top(c) EXCEPT !.pc = "cli", !.lk = l, !.eflags = IF_[c]]
<1>1. Top(c) \in Frames /\ CpuInv(c) /\ SpinTypeOK
  BY TopType
<1>2. f \in Frames /\ f.pc = "cli" /\ f.lk = l /\ f.eflags = IF_[c] /\ f.held = Top(c).held
  <2>1. IF_[c] \in BOOLEAN
    BY <1>1 DEF SpinTypeOK
  <2> QED
    BY <1>1, <2>1 DEF Frames
<1>3. SetTop(c, f) /\ UNCHANGED <<IF_, ncli, intena, owner>>
  BY DEF acquire
<1>4. Top(c).pc = "code" /\ \A h \in Top(c).held : h < l
  BY DEF acquire
<1> HIDE DEF f
<1>5. /\ stack' \in [Cpu -> Seq(Frames)] /\ Len(stack'[c]) = Len(stack[c])
      /\ stack'[c][1] = f
      /\ Interrupted(stack[c][2]) /\ Len(stack[c]) = 2 => Interrupted(stack'[c][2])
      /\ \A d \in Cpu \ {c} : stack'[d] = stack[d]
  BY <1>2, <1>3, TopStep
<1>6. SpinTypeOK'
  BY <1>1, <1>3, <1>5 DEF SpinTypeOK
<1>7. CpuInv(c)'
  BY <1>1, <1>2, <1>3, <1>4, <1>5 DEF CpuInv, Top
<1>8. \A d \in Cpu \ {c} : CpuInv(d)'
  BY <1>3, <1>5, OtherCpu
<1> QED
  BY <1>6, <1>7, <1>8 DEF SpinInv

\* pushcli: cli, after the flags have been read.
LEMMA CliInv ==
  ASSUME SpinBounds, SpinInv, NEW c \in Cpu, Cli(c)
  PROVE  SpinInv'
<1> DEFINE f == [Top(c) EXCEPT !.pc = "push"]
<1>1. Top(c) \in Frames /\ CpuInv(c) /\ SpinTypeOK
  BY TopType
<1>2. /\ f \in Frames /\ f.pc = "push" /\ f.lk = Top(c).lk /\ f.eflags = Top(c).eflags
      /\ f.held = Top(c).held
  BY <1>1 DEF Frames
<1>3. SetTop(c, f) /\ UNCHANGED <<ncli, intena, owner>> /\ Top(c).pc = "cli"
      /\ IF_' = [IF_ EXCEPT ![c] = FALSE]
  BY DEF Cli
<1> HIDE DEF f
<1>4. /\ stack' \in [Cpu -> Seq(Frames)] /\ Len(stack'[c]) = Len(stack[c])
      /\ stack'[c][1] = f
      /\ Interrupted(stack[c][2]) /\ Len(stack[c]) = 2 => Interrupted(stack'[c][2])
      /\ \A d \in Cpu \ {c} : stack'[d] = stack[d]
  BY <1>2, <1>3, TopStep
<1>5. SpinTypeOK'
  BY <1>1, <1>3, <1>4 DEF SpinTypeOK
<1>6. IF_'[c] = FALSE /\ \A d \in Cpu \ {c} : IF_'[d] = IF_[d]
  BY <1>1, <1>3 DEF SpinTypeOK
<1>7. CpuInv(c)'
  BY <1>1, <1>2, <1>3, <1>4, <1>6 DEF CpuInv, Top
<1>8. \A d \in Cpu \ {c} : CpuInv(d)'
  BY <1>3, <1>4, <1>6, OtherCpu
<1> QED
  BY <1>5, <1>7, <1>8 DEF SpinInv

\* The rest of pushcli: the flags are kept when this is the outermost one.
LEMMA PushcliInv ==
  ASSUME SpinBounds, SpinInv, NEW c \in Cpu, Pushcli(c)
  PROVE  SpinInv'
<1> DEFINE f == [Top(c) EXCEPT !.pc = "spin"]
           e == IF ncli[c] = 0 THEN Top(c).eflags ELSE intena[c]
<1>1. Top(c) \in Frames /\ CpuInv(c) /\ SpinTypeOK
  BY TopType
<1>2. /\ f \in Frames /\ f.pc = "spin" /\ f.lk = Top(c).lk /\ f.held = Top(c).held
      /\ Top(c).eflags \in BOOLEAN /\ f.held \subseteq Lock
  BY <1>1 DEF Frames
<1>3. /\ SetTop(c, f) /\ UNCHANGED <<IF_, owner>> /\ Top(c).pc = "push"
      /\ ncli' = [ncli EXCEPT ![c] = @ + 1]
      /\ intena' = [intena EXCEPT ![c] = IF ncli[c] = 0 THEN Top(c).eflags ELSE @]
  BY DEF Pushcli
<1>4. /\ ncli' \in [Cpu -> Nat] /\ ncli'[c] = ncli[c] + 1 /\ ncli[c] \in Nat
      /\ \A d \in Cpu \ {c} : ncli'[d] = ncli[d]
  BY <1>1, <1>3 DEF SpinTypeOK
<1>5. /\ intena' \in [Cpu -> BOOLEAN] /\ intena'[c] = e
      /\ \A d \in Cpu \ {c} : intena'[d] = intena[d]
  BY <1>1, <1>2, <1>3 DEF SpinTypeOK
<1> HIDE DEF f
<1>6. /\ stack' \in [Cpu -> Seq(Frames)] /\ Len(stack'[c]) = Len(stack[c])
      /\ stack'[c][1] = f
      /\ Interrupted(stack[c][2]) /\ Len(stack[c]) = 2 => Interrupted(stack'[c][2])
      /\ \A d \in Cpu \ {c} : stack'[d] = stack[d]
  BY <1>2, <1>3, TopStep
<1>7. SpinTypeOK'
  BY <1>1, <1>3, <1>4, <1>5, <1>6 DEF SpinTypeOK
<1>8. CpuInv(c)'
  <2>1. IsFiniteSet(Top(c).held) /\ Cardinality(Top(c).held) \in Nat
    BY <1>2, FS_Subset, FS_CardinalityType DEF SpinBounds
  <2>2. ncli[c] = Cardinality(Top(c).held)
    BY <1>1, <1>3, <2>1 DEF CpuInv
  <2>3. ncli[c] = 0 <=> Top(c).held = {}
    BY <2>1, <2>2, FS_EmptySet
  <2>4. intena'[c] <=> Len(stack[c]) = 1
    <3>1. CASE ncli[c] = 0
      BY <1>1, <1>3, <1>5, <2>3, <3>1 DEF CpuInv
    <3>2. CASE ncli[c] # 0
      BY <1>1, <1>4, <1>5, <3>2 DEF CpuInv
    <3> QED
      BY <3>1, <3>2
  <2> QED
    BY <1>1, <1>2, <1>3, <1>4, <1>6, <2>2, <2>4 DEF CpuInv, Top
<1>9. \A d \in Cpu \ {c} : CpuInv(d)'
  BY <1>3, <1>4, <1>5, <1>6, OtherCpu
<1> QED
  BY <1>7, <1>8, <1>9 DEF SpinInv

\* The spinning ends.
LEMMA XchgInv ==
  ASSUME SpinBounds, SpinInv, NEW c \in Cpu, Xchg(c)
  PROVE  SpinInv'
<1> DEFINE l == Top(c).lk
           H == Top(c).held
           f == [Top(c) EXCEPT !.pc = "code", !.held = @ \cup {Top(c).lk}]
<1>1. Top(c) \in Frames /\ CpuInv(c) /\ SpinTypeOK
  BY TopType
<1>2. /\ SetTop(c, f) /\ UNCHANGED <<IF_, ncli, intena>> /\ Top(c).pc = "spin"
      /\ owner[l] = 0 /\ owner' = [owner EXCEPT ![l] = c]
  BY DEF Xchg
<1>3. l \in Lock /\ H = {x \in Lock : owner[x] = c} /\ l \notin H
  BY <1>1, <1>2 DEF CpuInv, SpinBounds
<1>4. /\ f \in Frames /\ f.pc = "code" /\ f.held = H \cup {l}
  BY <1>1, <1>3 DEF Frames
<1> HIDE DEF f
<1>5. /\ stack' \in [Cpu -> Seq(Frames)] /\ Len(stack'[c]) = Len(stack[c])
      /\ stack'[c][1] = f
      /\ Interrupted(stack[c][2]) /\ Len(stack[c]) = 2 => Interrupted(stack'[c][2])
      /\ \A d \in Cpu \ {c} : stack'[d] = stack[d]
  BY <1>4, <1>2, TopStep
<1>6. SpinTypeOK'
  BY <1>1, <1>2, <1>5 DEF SpinTypeOK
<1>7. IsFiniteSet(H) /\ Cardinality(H \cup {l}) = Cardinality(H) + 1
  <2>1. IsFiniteSet(H)
    BY <1>3, FS_Subset DEF SpinBounds
  <2> QED
    BY <1>3, <2>1, FS_AddElement
<1>8. \A x \in Lock : owner'[x] = IF x = l THEN c ELSE owner[x]
  BY <1>1, <1>2 DEF SpinTypeOK
<1>9. CpuInv(c)'
  <2>1. f.held = {x \in Lock : owner'[x] = c}
    BY <1>3, <1>4, <1>8
  <2>2. ncli[c] = Cardinality(f.held)
    BY <1>1, <1>2, <1>4, <1>7 DEF CpuInv
  <2>3. ~IF_[c] /\ f.held # {}
    BY <1>1, <1>2, <1>4 DEF CpuInv
  <2>4. /\ Len(stack'[c]) = 1 \/ (Len(stack'[c]) = 2 /\ Interrupted(stack'[c][2]))
        /\ ncli[c] > 0 => (intena[c] <=> Len(stack'[c]) = 1)
    BY <1>1, <1>5 DEF CpuInv
  <2>5. Cardinality(f.held) \in Nat
    BY <1>4, <1>7, FS_CardinalityType
  <2> QED
    BY <1>2, <1>4, <1>5, <2>1, <2>2, <2>3, <2>4, <2>5 DEF CpuInv, Top
<1>10. ASSUME NEW d \in Cpu \ {c} PROVE CpuInv(d)'
  <2>1. \A x \in Lock : owner'[x] = d <=> owner[x] = d
    BY <1>2, <1>8 DEF SpinBounds
  <2> QED
    BY <1>2, <1>5, <2>1, OtherCpu
<1> QED
  BY <1>6, <1>9, <1>10 DEF SpinInv

\* release gives one of the locks back.
LEMMA ReleaseInv ==
  ASSUME SpinBounds, SpinInv, NEW c \in Cpu, NEW l \in Lock, Release(c, l)
  PROVE  SpinInv'
<1> DEFINE H == Top(c).held
           f == [Top(c) EXCEPT !.pc = "pop", !.held = @ \ {l}]
<1>1. Top(c) \in Frames /\ CpuInv(c) /\ SpinTypeOK
  BY TopType
<1>2. /\ SetTop(c, f) /\ UNCHANGED <<IF_, ncli, intena>> /\ Top(c).pc = "code"
      /\ l \in H /\ owner' = [owner EXCEPT ![l] = 0]
  BY DEF Release
<1>3. H = {x \in Lock : owner[x] = c} /\ H \subseteq Lock
  BY <1>1 DEF CpuInv
<1>4. /\ f \in Frames /\ f.pc = "pop" /\ f.held = H \ {l}
  BY <1>1, <1>3 DEF Frames
<1> HIDE DEF f
<1>5. /\ stack' \in [Cpu -> Seq(Frames)] /\ Len(stack'[c]) = Len(stack[c])
      /\ stack'[c][1] = f
      /\ Interrupted(stack[c][2]) /\ Len(stack[c]) = 2 => Interrupted(stack'[c][2])
      /\ \A d \in Cpu \ {c} : stack'[d] = stack[d]
  BY <1>4, <1>2, TopStep
<1>6. SpinTypeOK'
  BY <1>1, <1>2, <1>5 DEF SpinTypeOK
<1>7. /\ IsFiniteSet(H) /\ Cardinality(H) \in Nat /\ IsFiniteSet(H \ {l})
      /\ Cardinality(H \ {l}) = Cardinality(H) - 1
  <2>1. IsFiniteSet(H)
    BY <1>3, FS_Subset DEF SpinBounds
  <2> QED
    BY <1>2, <2>1, FS_RemoveElement, FS_CardinalityType
<1>8. \A x \in Lock : owner'[x] = IF x = l THEN 0 ELSE owner[x]
  BY <1>1, <1>2 DEF SpinTypeOK
<1>9. CpuInv(c)'
  <2>1. f.held = {x \in Lock : owner'[x] = c}
    BY <1>3, <1>4, <1>8 DEF SpinBounds
  <2>2. ncli[c] = Cardinality(f.held) + 1
    BY <1>1, <1>2, <1>4, <1>7 DEF CpuInv
  <2>3. ~IF_[c]
    BY <1>1, <1>2 DEF CpuInv
  <2>4. /\ Len(stack'[c]) = 1 \/ (Len(stack'[c]) = 2 /\ Interrupted(stack'[c][2]))
        /\ ncli[c] > 0 => (intena[c] <=> Len(stack'[c]) = 1)
    BY <1>1, <1>5 DEF CpuInv
  <2> QED
    BY <1>2, <1>4, <1>5, <2>1, <2>2, <2>3, <2>4 DEF CpuInv, Top
<1>10. ASSUME NEW d \in Cpu \ {c} PROVE CpuInv(d)'
  <2>1. \A x \in Lock : owner'[x] = d <=> owner[x] = d
    BY <1>2, <1>3, <1>8 DEF SpinBounds
  <2> QED
    BY <1>2, <1>5, <2>1, OtherCpu
<1> QED
  BY <1>6, <1>9, <1>10 DEF SpinInv

\* popcli turns interrupts on again when it is the outermost one.
LEMMA PopcliInv ==
  ASSUME SpinBounds, SpinInv, NEW c \in Cpu, Popcli(c)
  PROVE  SpinInv'
<1> DEFINE H == Top(c).held
           f == [Top(c) EXCEPT !.pc = "code"]
           on == IF_[c] \/ (ncli[c] = 1 /\ intena[c])
<1>1. Top(c) \in Frames /\ CpuInv(c) /\ SpinTypeOK
  BY TopType
<1>2. /\ SetTop(c, f) /\ UNCHANGED <<intena, owner>> /\ Top(c).pc = "pop"
      /\ ncli' = [ncli EXCEPT ![c] = @ - 1]
      /\ IF_' = [IF_ EXCEPT ![c] = @ \/ (ncli[c] = 1 /\ intena[c])]
  BY DEF Popcli
<1>3. f \in Frames /\ f.pc = "code" /\ f.held = H /\ H \subseteq Lock
  BY <1>1 DEF Frames
<1>4. Cardinality(H) \in Nat /\ ncli[c] = Cardinality(H) + 1 /\ (Cardinality(H) = 0 <=> H = {})
  <2>1. IsFiniteSet(H)
    BY <1>3, FS_Subset DEF SpinBounds
  <2>2. ncli[c] = Cardinality(H) + 1
    BY <1>1, <1>2 DEF CpuInv
  <2> QED
    BY <2>1, <2>2, FS_CardinalityType, FS_EmptySet
<1>5. /\ ncli' \in [Cpu -> Nat] /\ ncli'[c] = Cardinality(H)
      /\ \A d \in Cpu \ {c} : ncli'[d] = ncli[d]
  BY <1>1, <1>2, <1>4 DEF SpinTypeOK
<1>6. /\ IF_' \in [Cpu -> BOOLEAN] /\ IF_'[c] = on /\ \A d \in Cpu \ {c} : IF_'[d] = IF_[d]
  <2>1. IF_ \in [Cpu -> BOOLEAN] /\ intena \in [Cpu -> BOOLEAN]
    BY <1>1 DEF SpinTypeOK
  <2>2. on \in BOOLEAN
    BY <2>1
  <2>3. IF_' = [IF_ EXCEPT ![c] = on]
    BY <1>2, <2>1
  <2> HIDE DEF on
  <2> QED
    BY <2>1, <2>2, <2>3
<1> HIDE DEF f
<1>7. /\ stack' \in [Cpu -> Seq(Frames)] /\ Len(stack'[c]) = Len(stack[c])
      /\ stack'[c][1] = f
      /\ Interrupted(stack[c][2]) /\ Len(stack[c]) = 2 => Interrupted(stack'[c][2])
      /\ \A d \in Cpu \ {c} : stack'[d] = stack[d]
  BY <1>2, <1>3, TopStep
<1>8. SpinTypeOK'
  BY <1>1, <1>2, <1>5, <1>6, <1>7 DEF SpinTypeOK
<1>9. CpuInv(c)'
  <2>1. ~IF_[c] /\ (intena[c] <=> Len(stack[c]) = 1)
    BY <1>1, <1>2, <1>4 DEF CpuInv
  <2>2. IF_'[c] <=> Len(stack'[c]) = 1 /\ H = {}
    <3>1. ncli[c] = 1 <=> H = {}
      BY ONLY <1>4
    <3>2. IF_'[c] <=> ncli[c] = 1 /\ Len(stack[c]) = 1
      BY Zenon, <1>6, <2>1
    <3>3. Len(stack'[c]) = Len(stack[c])
      BY <1>7
    <3> QED
      BY Zenon, <3>1, <3>2, <3>3
  <2>3. /\ Len(stack'[c]) = 1 \/ (Len(stack'[c]) = 2 /\ Interrupted(stack'[c][2]))
        /\ f.held = {x \in Lock : owner[x] = c}
    BY <1>1, <1>3, <1>7 DEF CpuInv
  <2> QED
    BY <1>2, <1>3, <1>5, <1>7, <2>1, <2>2, <2>3 DEF CpuInv, Top
<1>10. \A d \in Cpu \ {c} : CpuInv(d)'
  BY <1>2, <1>5, <1>6, <1>7, OtherCpu
<1> QED
  BY <1>8, <1>9, <1>10 DEF SpinInv

\* An interrupt finds code without locks; the gate turns interrupts off.
LEMMA InterruptInv ==
  ASSUME SpinBounds, SpinInv, NEW c \in Cpu, Interrupt(c)
  PROVE  SpinInv'
<1>1. Top(c) \in Frames /\ CpuInv(c) /\ SpinTypeOK
  BY TopType
<1>2. /\ IF_[c] /\ IF_' = [IF_ EXCEPT ![c] = FALSE] /\ UNCHANGED <<ncli, intena, owner>>
      /\ stack' = [stack EXCEPT ![c] = <<Frame>> \o @]
  BY DEF Interrupt
<1>3. /\ Len(stack[c]) = 1 /\ Top(c).held = {} /\ Top(c).pc \in {"code", "cli"}
      /\ {x \in Lock : owner[x] = c} = {} /\ Interrupted(Top(c))
  BY <1>1, <1>2 DEF CpuInv, Interrupted
<1> DEFINE q == <<Frame>> \o stack[c]
<1>4. /\ Frame \in Frames /\ Frame.pc = "code" /\ Frame.held = {}
  BY DEF Frame, Frames
<1>5. q \in Seq(Frames) /\ Len(q) = 2 /\ q[1] = Frame /\ q[2] = Top(c)
  <2>1. stack[c] \in Seq(Frames) /\ Len(stack[c]) = 1 /\ stack[c][1] = Top(c)
    BY <1>1, <1>3 DEF SpinTypeOK, Top
  <2>2. <<Frame>> \in Seq(Frames) /\ Len(<<Frame>>) = 1 /\ <<Frame>>[1] = Frame
    BY <1>4
  <2>3. /\ q \in Seq(Frames) /\ Len(q) = Len(<<Frame>>) + Len(stack[c])
        /\ \A i \in 1..(Len(<<Frame>>) + Len(stack[c])) :
             q[i] = IF i <= Len(<<Frame>>) THEN <<Frame>>[i] ELSE stack[c][i - Len(<<Frame>>)]
    BY <2>1, <2>2, Joined
  <2>4. 1 \in 1..2 /\ 2 \in 1..2 /\ 1 + 1 = 2 /\ 2 - 1 = 1 /\ ~(2 <= 1)
    OBVIOUS
  <2> HIDE DEF q
  <2> QED
    BY ONLY <2>1, <2>2, <2>3, <2>4
<1>6. stack' = [stack EXCEPT ![c] = q]
  BY <1>2
<1> HIDE DEF q
<1>7. /\ stack' \in [Cpu -> Seq(Frames)] /\ stack'[c] = q /\ \A d \in Cpu \ {c} : stack'[d] = stack[d]
      /\ IF_' \in [Cpu -> BOOLEAN] /\ IF_'[c] = FALSE /\ \A d \in Cpu \ {c} : IF_'[d] = IF_[d]
  <2>1. stack \in [Cpu -> Seq(Frames)] /\ IF_ \in [Cpu -> BOOLEAN]
    BY <1>1 DEF SpinTypeOK
  <2>2. /\ stack' \in [Cpu -> Seq(Frames)] /\ stack'[c] = q
        /\ \A d \in Cpu \ {c} : stack'[d] = stack[d]
    BY <1>5, <1>6, <2>1
  <2> QED
    BY <1>2, <2>1, <2>2
<1>8. SpinTypeOK'
  BY <1>1, <1>2, <1>7 DEF SpinTypeOK
<1>9. CpuInv(c)'
  <2>1. ncli[c] = 0 /\ Cardinality({}) = 0
    BY <1>1, <1>3, FS_EmptySet DEF CpuInv
  <2>2. Top(c)' = Frame /\ Len(stack'[c]) = 2 /\ Interrupted(stack'[c][2])
    BY <1>3, <1>5, <1>7 DEF Top
  <2>3. Cardinality(Frame.held) = 0 /\ ncli'[c] = 0 /\ ~(0 > 0) /\ ~IF_'[c]
        /\ Frame.held = {x \in Lock : owner'[x] = c}
    BY <1>2, <1>3, <1>4, <1>7, <2>1
  <2> QED
    BY <1>4, <2>2, <2>3 DEF CpuInv
<1>10. \A d \in Cpu \ {c} : CpuInv(d)'
  BY <1>2, <1>7, OtherCpu
<1> QED
  BY <1>8, <1>9, <1>10 DEF SpinInv

\* The code that was interrupted goes on, with interrupts on.
LEMMA IretInv ==
  ASSUME SpinBounds, SpinInv, NEW c \in Cpu, Iret(c)
  PROVE  SpinInv'
<1>1. Top(c) \in Frames /\ CpuInv(c) /\ SpinTypeOK
  BY TopType
<1>2. /\ Len(stack[c]) > 1 /\ Top(c).pc = "code" /\ Top(c).held = {}
      /\ IF_' = [IF_ EXCEPT ![c] = TRUE] /\ UNCHANGED <<ncli, intena, owner>>
      /\ stack' = [stack EXCEPT ![c] = Tail(@)]
  BY DEF Iret
<1> DEFINE q == Tail(stack[c])
           f == stack[c][2]
<1>3. Len(stack[c]) = 2 /\ Interrupted(f) /\ {x \in Lock : owner[x] = c} = {}
  BY <1>1, <1>2 DEF CpuInv
<1>4. q \in Seq(Frames) /\ Len(q) = 1 /\ q[1] = f
  <2>1. stack[c] \in Seq(Frames) /\ stack[c] # <<>>
    <3>1. stack[c] \in Seq(Frames)
      BY <1>1 DEF SpinTypeOK
    <3> QED
      BY ONLY <1>3, <3>1, NoElements
  <2>2. q \in Seq(Frames) /\ Len(q) = Len(stack[c]) - 1 /\ \A i \in 1..Len(q) : q[i] = stack[c][i + 1]
    BY <2>1, OneLess
  <2>3. 1 \in 1..1 /\ 2 - 1 = 1 /\ 1 + 1 = 2
    OBVIOUS
  <2> HIDE DEF q
  <2> QED
    BY <1>3, <2>2, <2>3
<1>5. stack' = [stack EXCEPT ![c] = q]
  BY <1>2
<1> HIDE DEF q
<1>6. /\ stack' \in [Cpu -> Seq(Frames)] /\ stack'[c] = q /\ \A d \in Cpu \ {c} : stack'[d] = stack[d]
      /\ IF_' \in [Cpu -> BOOLEAN] /\ IF_'[c] = TRUE /\ \A d \in Cpu \ {c} : IF_'[d] = IF_[d]
  BY <1>1, <1>2, <1>4, <1>5 DEF SpinTypeOK
<1>7. SpinTypeOK'
  BY <1>1, <1>2, <1>6 DEF SpinTypeOK
<1>8. CpuInv(c)'
  <2>1. ncli[c] = 0 /\ Cardinality({}) = 0
    BY <1>1, <1>2, FS_EmptySet DEF CpuInv
  <2>2. Top(c)' = f /\ Len(stack'[c]) = 1
    BY <1>4, <1>6 DEF Top
  <2>3. /\ f.held = {} /\ f.pc \in {"code", "cli"} /\ f.pc \notin {"spin", "pop", "push"}
        /\ f.pc = "cli" => f.eflags /\ f.lk \in Lock
    BY <1>3 DEF Interrupted
  <2> HIDE DEF f
  <2> QED
    BY <1>2, <1>3, <1>6, <2>1, <2>2, <2>3 DEF CpuInv
<1>9. \A d \in Cpu \ {c} : CpuInv(d)'
  BY <1>2, <1>6, OtherCpu
<1> QED
  BY <1>7, <1>8, <1>9 DEF SpinInv

\* All processors start in a thread with interrupts on and no lock.
LEMMA SpinStart ==
  ASSUME SpinBounds, SpinInit
  PROVE  SpinInv
<1>1. Frame \in Frames /\ Frame.pc = "code" /\ Frame.held = {}
  BY DEF Frame, Frames
<1>2. <<Frame>> \in Seq(Frames) /\ Len(<<Frame>>) = 1 /\ <<Frame>>[1] = Frame
  BY <1>1
<1>3. SpinTypeOK
  BY <1>2 DEF SpinInit, SpinTypeOK
<1>4. ASSUME NEW c \in Cpu PROVE CpuInv(c)
  <2>1. stack[c] = <<Frame>> /\ IF_[c] = TRUE /\ ncli[c] = 0 /\ {x \in Lock : owner[x] = c} = {}
    BY DEF SpinInit, SpinBounds
  <2>2. Cardinality({}) = 0
    BY FS_EmptySet
  <2> QED
    BY <1>1, <1>2, <2>1, <2>2 DEF CpuInv, Top
<1> QED
  BY <1>3, <1>4 DEF SpinInv

\* The invariant holds in every state.
LEMMA SpinInvariant == SpinBounds => (SpinSpec => []SpinInv)
<1> SUFFICES ASSUME SpinBounds PROVE SpinSpec => []SpinInv
  OBVIOUS
<1>1. SpinInit => SpinInv
  BY SpinStart
<1>2. SpinInv /\ [SpinNext]_spinvars => SpinInv'
  <2> SUFFICES ASSUME SpinInv, [SpinNext]_spinvars PROVE SpinInv'
    OBVIOUS
  <2>1. CASE UNCHANGED spinvars
    <3>1. SpinTypeOK'
      BY <2>1 DEF SpinInv, SpinTypeOK, spinvars
    <3>2. \A c \in Cpu : CpuInv(c)'
      BY <2>1, OtherCpu DEF spinvars
    <3> QED
      BY <3>1, <3>2 DEF SpinInv
  <2>2. CASE SpinNext
    BY <2>2, AcquireInv, CliInv, PushcliInv, XchgInv, ReleaseInv, PopcliInv, InterruptInv, IretInv
       DEF SpinNext
  <2> QED
    BY <2>1, <2>2
<1> QED
  BY <1>1, <1>2, PTL DEF SpinSpec

\* In a circle of processors that spin, each for a lock of the next, a lock with
\* the fewest locks above it has none: its owner spins for one that is higher.
LEMMA CircleFree ==
  ASSUME SpinBounds, SpinInv
  PROVE  NoCircle
<1> DEFINE W(c) == Top(c).pc = "spin" /\ owner[Top(c).lk] # 0
           Above(c) == {l \in Lock : l > Top(c).lk}
<1> SUFFICES ASSUME NEW S \in SUBSET Cpu, S # {},
                    \A c \in S : \E d \in S : <<c, d>> \in WaitsFor
             PROVE  FALSE
  BY DEF NoCircle
<1>1. ASSUME NEW c \in S PROVE W(c) /\ owner[Top(c).lk] \in S
  <2>1. PICK d \in S : <<c, d>> \in WaitsFor
    OBVIOUS
  <2>2. PICK x \in Cpu : W(x) /\ <<c, d>> = <<x, owner[Top(x).lk]>>
    BY <2>1 DEF WaitsFor
  <2> QED
    BY <2>2
<1>2. ASSUME NEW c \in S
      PROVE  Top(c).lk \in Lock /\ Top(c).held = {l \in Lock : owner[l] = c}
             /\ \A h \in Top(c).held : h < Top(c).lk
  BY <1>1 DEF SpinInv, CpuInv
<1>3. ASSUME NEW c \in S
      PROVE  \E d \in S : Above(d) \subseteq Above(c) /\ Above(d) # Above(c)
  <2> DEFINE k == Top(c).lk
  <2>1. PICK d \in S : d = owner[k]
    BY <1>1
  <2>2. k \in Top(d).held /\ k \in Lock
    BY <1>2, <2>1
  <2>3. PICK m \in Lock : m = Top(d).lk
    BY <1>2
  <2>4. k < m
    BY <1>2, <2>2, <2>3
  <2>5. m \in Above(c) /\ m \notin Above(d)
    BY <2>3, <2>4 DEF SpinBounds
  <2>6. ASSUME NEW l \in Lock, l > Top(d).lk PROVE l > k
    <3>1. l \in Nat /\ k \in Nat /\ m \in Nat /\ l > m
      BY <2>2, <2>3, <2>6 DEF SpinBounds
    <3> HIDE DEF k
    <3> QED
      BY ONLY <2>4, <3>1
  <2> QED
    BY <2>5, <2>6
<1> DEFINE T == {Above(c) : c \in S}
<1>4. T \subseteq FiniteSubsetsOf(Lock) /\ T # {}
  <2>1. ASSUME NEW c \in S PROVE Above(c) \in FiniteSubsetsOf(Lock)
    <3>1. Above(c) \subseteq Lock
      OBVIOUS
    <3> HIDE DEF Above
    <3>2. IsFiniteSet(Above(c))
      BY <3>1, FS_Subset DEF SpinBounds
    <3> QED
      BY <3>1, <3>2 DEF FiniteSubsetsOf
  <2> HIDE DEF Above
  <2> QED
    BY <2>1
<1>5. PICK X \in T : \A Y \in T : ~(<<Y, X>> \in StrictSubsetOrdering(Lock))
  <2> HIDE DEF T
  <2> QED
    BY <1>4, WFMin, FS_StrictSubsetOrderingWellFounded
<1>6. PICK c \in S : X = Above(c)
  OBVIOUS
<1>7. PICK d \in S : Above(d) \subseteq Above(c) /\ Above(d) # Above(c)
  BY <1>3
<1>8. Above(d) \in SUBSET Lock /\ Above(c) \in SUBSET Lock /\ Above(d) \in T
  OBVIOUS
<1> HIDE DEF Above, T
<1>9. <<Above(d), X>> \in StrictSubsetOrdering(Lock)
  BY <1>6, <1>7, <1>8 DEF StrictSubsetOrdering
<1> QED
  BY <1>5, <1>8, <1>9

\* What the flags and ncli say.
LEMMA FlagsFollow ==
  ASSUME SpinBounds, SpinInv
  PROVE  FlagsMatch
<1> SUFFICES ASSUME NEW c \in Cpu
             PROVE  /\ (\E l \in Lock : owner[l] = c) => ~IF_[c]
                    /\ Top(c).pc = "code" /\ Top(c).held = {} => (IF_[c] <=> Len(stack[c]) = 1)
                    /\ ncli[c] = Cardinality({l \in Lock : owner[l] = c})
                         + Cardinality({i \in DOMAIN stack[c] : stack[c][i].pc \in {"spin", "pop"}})
  BY DEF FlagsMatch
<1>1. Top(c) \in Frames /\ CpuInv(c) /\ SpinTypeOK
  BY TopType
<1>2. /\ (\E l \in Lock : owner[l] = c) => ~IF_[c]
      /\ Top(c).pc = "code" /\ Top(c).held = {} => (IF_[c] <=> Len(stack[c]) = 1)
  BY <1>1 DEF CpuInv
<1> DEFINE H == {l \in Lock : owner[l] = c}
           B == {i \in DOMAIN stack[c] : stack[c][i].pc \in {"spin", "pop"}}
           busy == Top(c).pc \in {"spin", "pop"}
<1>3. B = IF busy THEN {1} ELSE {}
  BY <1>1 DEF CpuInv, SpinTypeOK, Top, Interrupted
<1>4. H = Top(c).held
  BY <1>1 DEF CpuInv
<1>5. /\ busy => ncli[c] = Cardinality(H) + 1
      /\ ~busy => ncli[c] = Cardinality(H)
  BY <1>1, <1>4 DEF CpuInv
<1>6. Cardinality(H) \in Nat
  <2>1. IsFiniteSet(H)
    BY FS_Subset DEF SpinBounds
  <2> QED
    BY <2>1, FS_CardinalityType
<1>7. /\ busy => Cardinality(B) = 1
      /\ ~busy => Cardinality(B) = 0
  BY <1>3, FS_EmptySet, FS_Singleton
<1> HIDE DEF H, B, busy
<1>8. ncli[c] = Cardinality(H) + Cardinality(B)
  BY <1>5, <1>6, <1>7
<1> QED
  BY <1>2, <1>8 DEF H, B

\* No processors spin for each other and no handler spins for the code that it
\* has interrupted, interrupts are off while a lock is held, and after the last
\* release they are as they were before the first acquire: for any number of
\* processors and locks, when locks are taken in a fixed order.
THEOREM SpinLocksAreSafe == SpinBounds => (SpinSpec => [](NoCircle /\ FlagsMatch))
<1> SUFFICES ASSUME SpinBounds PROVE SpinSpec => [](NoCircle /\ FlagsMatch)
  OBVIOUS
<1>1. SpinInv => NoCircle /\ FlagsMatch
  BY CircleFree, FlagsFollow
<1>2. SpinSpec => []SpinInv
  BY SpinInvariant
<1> QED
  BY <1>1, <1>2, PTL

-----------------------------------------------------------------------------
(***************************************************************************)
(* The clock.                                                              *)
(***************************************************************************)

CONSTANTS Width, MaxSleep
VARIABLES ticks, st, ticks0, n, killed, gone

C == INSTANCE Clock
Round == 2^Width

\* The clock has a range, and a sleep is shorter than one round of it.
Bounds == Round \in Nat /\ MaxSleep \in Nat /\ MaxSleep < Round

\* A thread in sys_sleep knows how long ago it called: gone has not been
\* through a whole round, so that it is the difference of two tick counts.
ClockInv ==
  /\ ticks \in 0..(Round-1)
  /\ st \in [Thread -> {"out", "asleep", "woken"}]
  /\ ticks0 \in [Thread -> 0..(Round-1)]
  /\ n \in [Thread -> 0..MaxSleep]
  /\ gone \in [Thread -> 0..(Round-1)]
  /\ \A t \in Thread : st[t] # "out" => ticks = (ticks0[t] + gone[t]) % Round
  /\ \A t \in Thread : st[t] = "asleep" => gone[t] < Round-1

\* One more tick on both sides of the equation, modulo m.
LEMMA TickSum ==
  ASSUME NEW m \in Nat \ {0}, NEW a \in 0..(m-1), NEW g \in 0..(m-1), g < m-1
  PROVE  (((a + g) % m) + 1) % m = (a + (g + 1)) % m
<1>1. CASE a + g < m-1
  BY <1>1
<1>2. CASE a + g = m-1
  BY <1>2
<1>3. CASE a + g > m-1
  <2>1. a + g \in m..(2*m-1)
    BY <1>3
  <2>2. (a + g) % m = a + g - m
    BY <2>1
  <2>3. a + (g + 1) \in m..(2*m-1) /\ a + g - m + 1 \in 0..(m-1)
    BY <1>3
  <2> QED
    BY <2>2, <2>3
<1> QED
  BY <1>1, <1>2, <1>3

\* The unsigned difference of two tick counts is the time between them,
\* also when the clock has wrapped around.
LEMMA TickDifference ==
  ASSUME NEW m \in Nat \ {0}, NEW a \in 0..(m-1), NEW g \in 0..(m-1)
  PROVE  (((a + g) % m) - a) % m = g
<1>1. CASE a + g < m
  BY <1>1
<1>2. CASE a + g >= m
  <2>1. a + g \in m..(2*m-1)
    BY <1>2
  <2>2. (a + g) % m = a + g - m
    BY <2>1
  <2>3. g - m \in (-m)..(-1)
    OBVIOUS
  <2>4. (g - m) % m = g
    BY <2>3
  <2> QED
    BY <2>2, <2>4
<1> QED
  BY <1>1, <1>2

\* The kernel starts with its clock at 0 and nobody in sys_sleep.
LEMMA ClockInit == ASSUME Bounds, C!Init PROVE ClockInv
  BY DEF Bounds, C!Init, ClockInv

\* A call of sys_sleep starts with the clock's value.
LEMMA CallInv ==
  ASSUME Bounds, ClockInv, NEW t \in Thread, NEW k \in 0..MaxSleep, C!Call(t, k)
  PROVE  ClockInv'
<1>1. CASE k > 0
  <2>1. ticks % Round = ticks
    BY DEF ClockInv, Bounds
  <2> QED
    BY <1>1, <2>1 DEF Bounds, ClockInv, C!Call, C!Local
<1>2. CASE ~ (k > 0)
  BY <1>2 DEF Bounds, ClockInv, C!Call
<1> QED
  BY <1>1, <1>2

\* What the test of sys_sleep computes is the time since the call.
LEMMA WaitsExact ==
  ASSUME Bounds, ClockInv, NEW t \in Thread, st[t] # "out"
  PROVE  C!Waits(t) <=> gone[t] < n[t]
<1>1. Round \in Nat \ {0} /\ ticks0[t] \in 0..(Round-1) /\ gone[t] \in 0..(Round-1)
  BY DEF Bounds, ClockInv
<1>2. (((ticks0[t] + gone[t]) % Round) - ticks0[t]) % Round = gone[t]
  BY <1>1, TickDifference
<1>3. ticks = (ticks0[t] + gone[t]) % Round
  BY DEF ClockInv
<1> QED
  BY <1>2, <1>3 DEF C!Waits, C!Uint, Round

\* A thread that goes back to sleep has not slept for a whole round.
LEMMA LookInv ==
  ASSUME Bounds, ClockInv, NEW t \in Thread, C!Look(t)
  PROVE  ClockInv'
<1>1. CASE C!Waits(t) /\ t \notin killed
  <2>1. gone[t] < n[t] /\ n[t] \in 0..MaxSleep /\ gone[t] \in 0..(Round-1)
    BY <1>1, WaitsExact DEF C!Look, ClockInv
  <2>2. gone[t] < Round-1
    BY <2>1 DEF Bounds
  <2> QED
    BY <1>1, <2>2 DEF Bounds, ClockInv, C!Look
<1>2. CASE ~ (C!Waits(t) /\ t \notin killed)
  BY <1>2 DEF Bounds, ClockInv, C!Look, C!Local
<1> QED
  BY <1>1, <1>2

\* A tick finds nobody at the end of a round: those asleep are not there,
\* and those woken have had time to run.
LEMMA TickInv ==
  ASSUME Bounds, ClockInv, C!Tick
  PROVE  ClockInv'
<1>1. Round \in Nat \ {0}
  BY DEF Bounds, ClockInv
<1>2. ticks' = (ticks + 1) % Round /\ ticks' \in 0..(Round-1)
  BY <1>1 DEF C!Tick, C!Uint, Round, ClockInv
<1>3. /\ st' \in [Thread -> {"out", "asleep", "woken"}]
      /\ \A t \in Thread : st'[t] # "asleep" /\ (st'[t] = "out" <=> st[t] = "out")
  BY DEF C!Tick, ClockInv
<1>4. \A t \in Thread : st[t] # "out" => gone[t] < Round-1
  BY DEF ClockInv, C!Tick, C!InTime, Round
<1>5. /\ gone' = C!Count
      /\ \A t \in Thread : st[t] # "out" => gone'[t] = gone[t] + 1
      /\ \A t \in Thread : st[t] = "out" => gone'[t] = 0
  BY <1>4 DEF C!Tick, C!Count, Round
<1>6. gone' \in [Thread -> 0..(Round-1)]
  BY <1>1, <1>4, <1>5 DEF C!Count, Round, ClockInv
<1>7. ASSUME NEW t \in Thread, st[t] # "out"
      PROVE  ticks' = (ticks0[t] + gone'[t]) % Round
  <2>1. ticks0[t] \in 0..(Round-1) /\ gone[t] \in 0..(Round-1) /\ gone[t] < Round-1
    BY <1>4, <1>7 DEF ClockInv
  <2>2. (((ticks0[t] + gone[t]) % Round) + 1) % Round = (ticks0[t] + (gone[t] + 1)) % Round
    BY <1>1, <2>1, TickSum
  <2>3. ticks = (ticks0[t] + gone[t]) % Round
    BY <1>7 DEF ClockInv
  <2> QED
    BY <1>2, <1>5, <1>7, <2>2, <2>3
<1>8. UNCHANGED <<ticks0, n>>
  BY DEF C!Tick
<1> QED
  BY <1>2, <1>3, <1>6, <1>7, <1>8 DEF ClockInv

\* A thread leaves the loop of sys_sleep with fewer than n ticks gone only
\* when it is killed.
LEMMA LookEarly ==
  ASSUME Bounds, ClockInv, C!Next, NEW t \in Thread, st[t] = "woken", st'[t] = "out"
  PROVE  t \in killed \/ gone[t] >= n[t]
<1>1. C!Look(t)
  BY DEF C!Next, C!Tick, C!Look, C!Kill, C!Call, C!Local, ClockInv
<1>2. t \in killed \/ ~ C!Waits(t)
  BY <1>1 DEF C!Look, ClockInv
<1>3. n[t] \in Int /\ gone[t] \in Int
  BY DEF ClockInv, Bounds
<1> QED
  BY <1>2, <1>3, WaitsExact

\* Every sleep of sys_sleep lasts for its n ticks unless the thread is killed,
\* whatever the width of ticks: the loop compares an unsigned difference.
THEOREM SleepsLongEnough == Bounds => (C!Spec => C!NeverEarly)
<1> SUFFICES ASSUME Bounds PROVE C!Spec => C!NeverEarly
  OBVIOUS
<1>1. C!Init => ClockInv
  BY ClockInit
<1>2. ClockInv /\ [C!Next]_C!vars => ClockInv'
  <2> SUFFICES ASSUME ClockInv, [C!Next]_C!vars PROVE ClockInv'
    OBVIOUS
  <2>1. CASE C!Tick
    BY <2>1, TickInv
  <2>2. ASSUME NEW t \in Thread, C!Look(t) PROVE ClockInv'
    BY <2>2, LookInv
  <2>3. ASSUME NEW t \in Thread, C!Kill(t) PROVE ClockInv'
    BY <2>3 DEF C!Kill, ClockInv
  <2>4. ASSUME NEW t \in Thread, NEW k \in 0..MaxSleep, C!Call(t, k) PROVE ClockInv'
    BY <2>4, CallInv
  <2>5. CASE UNCHANGED C!vars
    BY <2>5 DEF C!vars, ClockInv
  <2> QED
    BY <2>1, <2>2, <2>3, <2>4, <2>5 DEF C!Next
<1>3. ClockInv /\ [C!Next]_C!vars =>
        [\A t \in Thread : st[t] = "woken" /\ st'[t] = "out" =>
           t \in killed \/ gone[t] >= n[t]]_C!vars
  BY LookEarly
<1> QED
  BY <1>1, <1>2, <1>3, PTL DEF C!Spec, C!NeverEarly
=============================================================================
