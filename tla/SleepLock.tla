----------------------------- MODULE SleepLock ------------------------------
(***************************************************************************)
(* A sleep lock of sleeplock.c, with the sleep and wakeup of proc.c that   *)
(* it is built on: two spin locks, the one of the sleep lock and           *)
(* ptable.lock, that are taken in this order and released in turn.         *)
(***************************************************************************)
EXTENDS Naturals

CONSTANTS Thread,  \* the kernel threads
          Nobody   \* the holder of a free lock

ASSUME NobodyAssumption == Nobody \notin Thread

VARIABLES
  lk,      \* the thread that holds lk->lk, the spin lock
  ptlock,  \* the thread that holds ptable.lock
  locked, pid,  \* the fields of the sleep lock
  state,   \* p->state
  pc

vars == <<lk, ptlock, locked, pid, state, pc>>

Labels == {"out", "acquire", "test", "sleep", "unlock", "sched", "asleep",
           "holding", "release", "clear", "wake", "done"}

\* The type invariant of the sleep lock and its users.
TypeOK ==
  /\ lk \in Thread \cup {Nobody} /\ ptlock \in Thread \cup {Nobody}
  /\ locked \in BOOLEAN /\ pid \in Thread \cup {Nobody}
  /\ state \in [Thread -> {"RUNNABLE", "SLEEPING"}]
  /\ pc \in [Thread -> Labels]

Init ==
  /\ lk = Nobody /\ ptlock = Nobody
  /\ locked = FALSE /\ pid = Nobody
  /\ state = [t \in Thread |-> "RUNNABLE"]
  /\ pc = [t \in Thread |-> "out"]

\* Thread t goes from label l to label m.
Step(t, l, m) == pc[t] = l /\ pc' = [pc EXCEPT ![t] = m]

-----------------------------------------------------------------------------
(***************************************************************************)
(* acquiresleep                                                            *)
(***************************************************************************)
Call(t) == Step(t, "out", "acquire") /\ UNCHANGED <<lk, ptlock, locked, pid, state>>

\* acquire(&lk->lk), first here and then at the end of sleep.
Acquire(t) ==
  /\ Step(t, "acquire", "test")
  /\ lk = Nobody /\ lk' = t
  /\ UNCHANGED <<ptlock, locked, pid, state>>

TestLocked(t) ==
  /\ locked
  /\ Step(t, "test", "sleep")
  /\ UNCHANGED <<lk, ptlock, locked, pid, state>>

\* The loop ends: the lock is taken and lk->lk released.
Take(t) ==
  /\ ~locked
  /\ Step(t, "test", "holding")
  /\ locked' = TRUE /\ pid' = t
  /\ lk' = Nobody
  /\ UNCHANGED <<ptlock, state>>

(***************************************************************************)
(* sleep(lk, &lk->lk)                                                      *)
(***************************************************************************)
SleepAcquire(t) ==
  /\ Step(t, "sleep", "unlock")
  /\ ptlock = Nobody /\ ptlock' = t
  /\ UNCHANGED <<lk, locked, pid, state>>

\* Mutant: no lock is held when the state is set.
SleepUnlockBoth(t) ==
  /\ Step(t, "unlock", "sched")
  /\ lk' = Nobody /\ ptlock' = Nobody
  /\ UNCHANGED <<locked, pid, state>>

SleepUnlock(t) ==
  /\ Step(t, "unlock", "sched")
  /\ lk' = Nobody
  /\ UNCHANGED <<ptlock, locked, pid, state>>

\* The state changes and sched leaves ptable.lock to the scheduler.
SleepSched(t) ==
  /\ Step(t, "sched", "asleep")
  /\ state' = [state EXCEPT ![t] = "SLEEPING"]
  /\ ptlock' = Nobody
  /\ UNCHANGED <<lk, locked, pid>>

\* Mutant: a woken thread takes the lock without looking at it again.
ResumeTakes(t) ==
  /\ state[t] = "RUNNABLE" /\ ptlock = Nobody /\ lk = Nobody
  /\ Step(t, "asleep", "holding")
  /\ locked' = TRUE /\ pid' = t
  /\ UNCHANGED <<lk, ptlock, state>>

\* The scheduler runs the thread again, which releases ptable.lock.
Resume(t) ==
  /\ state[t] = "RUNNABLE" /\ ptlock = Nobody
  /\ Step(t, "asleep", "acquire")
  /\ UNCHANGED <<lk, ptlock, locked, pid, state>>

-----------------------------------------------------------------------------
(***************************************************************************)
(* releasesleep                                                            *)
(***************************************************************************)
CallRelease(t) ==
  Step(t, "holding", "release") /\ UNCHANGED <<lk, ptlock, locked, pid, state>>

ReleaseAcquire(t) ==
  /\ Step(t, "release", "clear")
  /\ lk = Nobody /\ lk' = t
  /\ UNCHANGED <<ptlock, locked, pid, state>>

ReleaseClear(t) ==
  /\ Step(t, "clear", "wake")
  /\ locked' = FALSE /\ pid' = Nobody
  /\ UNCHANGED <<lk, ptlock, state>>

\* wakeup(lk): everybody who sleeps on it, under ptable.lock.
ReleaseWakeup(t) ==
  /\ Step(t, "wake", "done")
  /\ ptlock = Nobody
  /\ state' = [u \in Thread |-> "RUNNABLE"]
  /\ UNCHANGED <<lk, ptlock, locked, pid>>

ReleaseDone(t) ==
  /\ Step(t, "done", "out")
  /\ lk' = Nobody
  /\ UNCHANGED <<ptlock, locked, pid, state>>

-----------------------------------------------------------------------------
\* What a thread does once it has called acquiresleep or releasesleep.
Progress(t) ==
  \/ Acquire(t) \/ TestLocked(t) \/ Take(t)
  \/ SleepAcquire(t) \/ SleepUnlock(t) \/ SleepSched(t) \/ Resume(t)
  \/ ReleaseAcquire(t) \/ ReleaseClear(t) \/ ReleaseWakeup(t) \/ ReleaseDone(t)

Next == \E t \in Thread : Call(t) \/ CallRelease(t) \/ Progress(t)

Spec == Init /\ [][Next]_vars

\* The threads that may run do run.
FairSpec == Spec /\ \A t \in Thread : WF_vars(Progress(t))

-----------------------------------------------------------------------------
\* acquiresleep and releasesleep implement a mutual exclusion lock; pid tells
\* its owner.
M == INSTANCE Mutex WITH owner <- pid
ImplementsMutex == M!Spec

\* Nobody sleeps on a free lock: between the test of locked and the change of
\* p->state one of the two spin locks is always held, so that wakeup cannot
\* come in between.
NoLostWakeup ==
  \A t \in Thread : state[t] = "SLEEPING" =>
    locked \/ \E u \in Thread : pc[u] = "wake"

HoldsLk(t) == pc[t] \in {"test", "sleep", "unlock", "clear", "wake", "done"}
HoldsPt(t) == pc[t] \in {"unlock", "sched"}

\* A thread holds lk->lk and ptable.lock exactly between their acquires and
\* releases, across the hand-over inside sleep; the sleep lock is owned from
\* acquiresleep until releasesleep clears it; and only a thread inside sleep
\* can be SLEEPING.
LockInv ==
  \A t \in Thread :
    /\ (lk = t) <=> HoldsLk(t)
    /\ (ptlock = t) <=> HoldsPt(t)
    /\ (locked /\ pid = t) <=> pc[t] \in {"holding", "release", "clear"}
    /\ state[t] = "SLEEPING" => pc[t] = "asleep"

\* What keeps wakeups: a thread that has seen the lock taken and is on its way
\* to sleep is as good as asleep.
GoingToSleep(t) ==
  state[t] = "SLEEPING" \/ pc[t] \in {"sleep", "unlock", "sched"}
SleepInv ==
  /\ \A t \in Thread : GoingToSleep(t) =>
       locked \/ \E u \in Thread : pc[u] = "wake"
  /\ locked <=> pid # Nobody

IndInv == TypeOK /\ LockInv /\ SleepInv

=============================================================================
