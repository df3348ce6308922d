------------------------------- MODULE Bcache -------------------------------
(***************************************************************************)
(* The buffer cache of bio.c over the disk driver of ide.c.  A critical    *)
(* section of bcache.lock or of idelock is one step; the sleep lock of a   *)
(* buffer is the Mutex that SleepLock implements.  Of the data of a block  *)
(* only this is kept: whether they are what was last written to it.        *)
(***************************************************************************)
EXTENDS Naturals, FiniteSets, Sequences

CONSTANTS Thread, Block,
          NBUF,      \* param.h
          MaxPins,   \* the buffers the log keeps dirty at a time
          MaxErrors, \* failed reads of the disk
          None

Buf == 1..NBUF
\* What idestart gives to the disk; a write carries its data.
Request == [blockno : Block, write : BOOLEAN, fresh : BOOLEAN]

ASSUME SizesAssumption == IsFiniteSet(Thread) /\ NBUF \in Nat /\ MaxPins \in Nat
ASSUME NoneAssumption == None \notin Thread /\ None \notin Block /\ None \notin Buf
                         /\ None \notin Request

VARIABLES
  buf,       \* struct buf, with the owner of its sleep lock
  mru,       \* bcache.head's list, the most recently used buffer first
  idequeue,
  device,    \* external: the request the disk works on, None when it is idle
  disk,      \* external: the blocks of which the disk has the last data
  pc, b,     \* where a thread is, and its buffer
  bad        \* the buffers whose last read failed

vars == <<buf, mru, idequeue, device, disk, pc, b, bad>>

\* binit: dev 0 holds no file system, so that no block is cached yet.
Init ==
  /\ buf = [i \in Buf |-> [blockno |-> None, valid |-> FALSE, dirty |-> FALSE,
                           refcnt |-> 0, fresh |-> FALSE,
                           owner |-> None]]
  /\ mru = [i \in Buf |-> NBUF + 1 - i]
  /\ idequeue = <<>> /\ device = None
  /\ disk = Block
  /\ pc = [t \in Thread |-> "out"] /\ b = [t \in Thread |-> None]
  /\ bad = {}

Goto(t, l) == pc' = [pc EXCEPT ![t] = l]
My(t) == buf[b[t]]
cacheVars == <<buf, mru, b>>
diskVars == <<idequeue, device, disk>>

-----------------------------------------------------------------------------
(***************************************************************************)
(* bget                                                                    *)
(***************************************************************************)
\* The first buffer of the list that caches the block.
BgetHit(t, blk) ==
  /\ pc[t] = "out"
  /\ \E k \in DOMAIN mru :
       /\ buf[mru[k]].blockno = blk /\ \A j \in 1..(k-1) : buf[mru[j]].blockno # blk
       /\ buf' = [buf EXCEPT ![mru[k]].refcnt = @ + 1]
       /\ b' = [b EXCEPT ![t] = mru[k]]
  /\ Goto(t, "lock")
  /\ UNCHANGED <<mru, diskVars, bad>>

\* Mutant: a buffer the log has modified and released is taken for unused.
RecyclableDirty(i) == buf[i].refcnt = 0

Recyclable(i) == buf[i].refcnt = 0 /\ ~buf[i].dirty

\* The block is not cached: the last buffer of the list that is free.
BgetMiss(t, blk) ==
  /\ pc[t] = "out"
  /\ \A i \in Buf : buf[i].blockno # blk
  /\ IF \E i \in Buf : Recyclable(i)
       THEN /\ \E k \in DOMAIN mru :
                 /\ Recyclable(mru[k]) /\ \A j \in (k+1)..NBUF : ~Recyclable(mru[j])
                 /\ buf' = [buf EXCEPT ![mru[k]] =
                              [blockno |-> blk, valid |-> FALSE, dirty |-> FALSE,
                               refcnt |-> 1, fresh |-> FALSE, owner |-> @.owner]]
                 /\ b' = [b EXCEPT ![t] = mru[k]]
            /\ Goto(t, "lock")
       ELSE Goto(t, "panic") /\ UNCHANGED <<buf, b>>
  /\ UNCHANGED <<mru, diskVars, bad>>

\* acquiresleep, and bread's test of B_VALID.
Bread(t) ==
  /\ pc[t] = "lock" /\ My(t).owner = None
  /\ buf' = [buf EXCEPT ![b[t]].owner = t]
  /\ Goto(t, IF My(t).valid THEN "have" ELSE "iderw")
  /\ UNCHANGED <<mru, b, diskVars, bad>>

-----------------------------------------------------------------------------
(***************************************************************************)
(* The owner of a buffer changes its data and either writes it or has the  *)
(* log pin it until some later commit writes it.                           *)
(***************************************************************************)
Modify(t) ==
  /\ pc[t] = "have"
  /\ buf' = [buf EXCEPT ![b[t]].fresh = TRUE, ![b[t]].dirty = TRUE]
  /\ disk' = disk \ {My(t).blockno}
  /\ bad' = bad \ {b[t]}
  /\ UNCHANGED <<mru, b, idequeue, device>>

Bwrite(t) == Modify(t) /\ Goto(t, "iderw")

\* external: log_write sets B_DIRTY.
LogWrite(t) ==
  /\ Modify(t) /\ Goto(t, "have")
  /\ My(t).dirty \/ Cardinality({i \in Buf : buf[i].dirty}) < MaxPins

\* brelse: releasesleep, and then the reference under bcache.lock.
Brelse(t) ==
  /\ pc[t] = "have"
  /\ buf' = [buf EXCEPT ![b[t]].owner = None]
  /\ Goto(t, "unref")
  /\ UNCHANGED <<mru, b, diskVars, bad>>

\* The list with the buffer at place k moved to its front.
MoveToFront(k) == [j \in DOMAIN mru |-> IF j = 1 THEN mru[k]
                                       ELSE IF j <= k THEN mru[j-1] ELSE mru[j]]

\* Mutant: the buffer is forgotten with its last reference.
BrelseUnrefForgets(t) ==
  /\ pc[t] = "unref"
  /\ buf' = [buf EXCEPT ![b[t]].refcnt = 0]
  /\ \E k \in DOMAIN mru : mru[k] = b[t] /\ mru' = MoveToFront(k)
  /\ b' = [b EXCEPT ![t] = None]
  /\ Goto(t, "out")
  /\ UNCHANGED <<diskVars, bad>>

BrelseUnref(t) ==
  /\ pc[t] = "unref"
  /\ buf' = [buf EXCEPT ![b[t]].refcnt = @ - 1]
  /\ \E k \in DOMAIN mru :
       mru[k] = b[t] /\ mru' = IF My(t).refcnt = 1 THEN MoveToFront(k) ELSE mru
  /\ b' = [b EXCEPT ![t] = None]
  /\ Goto(t, "out")
  /\ UNCHANGED <<diskVars, bad>>

-----------------------------------------------------------------------------
(***************************************************************************)
(* iderw and ideintr                                                       *)
(***************************************************************************)
idestart(i) == [blockno |-> buf[i].blockno, write |-> buf[i].dirty,
                fresh |-> buf[i].dirty /\ buf[i].fresh]

\* The request joins the queue and its thread sleeps, all under idelock.
Iderw(t) ==
  /\ pc[t] = "iderw"
  /\ idequeue' = Append(idequeue, b[t])
  /\ device' = IF idequeue = <<>> THEN idestart(b[t]) ELSE device
  /\ Goto(t, "asleep")
  /\ UNCHANGED <<cacheVars, disk, bad>>

Done(i) == buf[i].valid /\ ~buf[i].dirty

\* Back from sleep(b, &idelock), the loop tests the flags again.
IderwWait(t) ==
  /\ pc[t] = "wait"
  /\ Goto(t, IF Done(b[t]) THEN "have" ELSE "asleep")
  /\ UNCHANGED <<cacheVars, diskVars, bad>>

Wakeup(i) == pc' = [t \in Thread |-> IF pc[t] = "asleep" /\ b[t] = i
                                     THEN "wait" ELSE pc[t]]

\* Mutant: the queue is cut behind the finished request.
IdeintrCuts ==
  /\ device # None
  /\ LET i == Head(idequeue)
     IN /\ buf' = [buf EXCEPT ![i].valid = TRUE, ![i].dirty = FALSE,
                              ![i].fresh = IF device.write THEN @ ELSE device.blockno \in disk]
        /\ disk' = disk \cup IF device.fresh THEN {device.blockno} ELSE {}
        /\ idequeue' = <<>> /\ device' = None /\ bad' = bad \ {i}
        /\ Wakeup(i)
  /\ UNCHANGED <<mru, b>>

\* The disk has finished the request at the head of the queue.  A read that
\* fails leaves the data of the buffer as they are.
Ideintr ==
  /\ device # None
  /\ LET i == Head(idequeue)
         q == Tail(idequeue)
     IN \E failed \in IF device.write \/ Cardinality(bad) >= MaxErrors
                      THEN {FALSE} ELSE BOOLEAN :
        /\ buf' = [buf EXCEPT ![i].valid = TRUE, ![i].dirty = FALSE,
                              ![i].fresh = IF device.write \/ failed THEN @
                                           ELSE device.blockno \in disk]
        /\ disk' = disk \cup IF device.fresh THEN {device.blockno} ELSE {}
        /\ bad' = IF failed THEN bad \cup {i} ELSE bad \ {i}
        /\ idequeue' = q
        /\ device' = IF q = <<>> THEN None ELSE idestart(Head(q))
        /\ Wakeup(i)
  /\ UNCHANGED <<mru, b>>

\* An interrupt that finds no request is ignored.
IdeintrSpurious == idequeue = <<>> /\ UNCHANGED vars

-----------------------------------------------------------------------------
Progress(t) == Bread(t) \/ Iderw(t) \/ IderwWait(t) \/ Brelse(t) \/ BrelseUnref(t)

Next ==
  \/ \E t \in Thread :
       \/ \E blk \in Block : BgetHit(t, blk) \/ BgetMiss(t, blk)
       \/ Bwrite(t) \/ LogWrite(t) \/ Progress(t)
  \/ Ideintr \/ IdeintrSpurious

Spec == Init /\ [][Next]_vars

\* Runnable threads run, and a disk that has a request finishes it.
FairSpec == Spec /\ WF_vars(Ideintr) /\ \A t \in Thread : WF_vars(Progress(t))

-----------------------------------------------------------------------------
Users(i) == {t \in Thread : b[t] = i}
Cached(blk) == {i \in Buf : buf[i].blockno = blk}

\* What bread returns is what was last written to the block: the cache never
\* holds two copies of a block, a valid copy has the last data and so has the
\* disk unless the copy is dirty, and a buffer is never recycled while its data
\* are nowhere else.  Only a read that failed may leave something else.
Coherent ==
  \A blk \in Block :
    /\ Cardinality(Cached(blk)) <= 1
    /\ \A i \in Cached(blk) : buf[i].valid /\ i \notin bad => buf[i].fresh
    /\ (\A i \in Cached(blk) : ~buf[i].dirty) => blk \in disk

\* A buffer is counted once for every thread between bget and the end of
\* brelse, queued for the disk only while its owner is inside iderw, and, as
\* long as the log leaves one buffer per thread, never missing (bget's panic).
BufferAccounting ==
  /\ \A i \in Buf : buf[i].refcnt = Cardinality(Users(i))
  /\ \A k \in DOMAIN idequeue : \E t \in Thread :
       b[t] = idequeue[k] /\ buf[b[t]].owner = t /\ pc[t] = "asleep"
  /\ \A t \in Thread :
       /\ pc[t] # "panic"
       /\ pc[t] = "have" => buf[b[t]].owner = t /\ buf[b[t]].valid

\* A request to the disk is answered: iderw returns, whatever is queued before
\* it, and no wakeup passes between its test of the flags and its sleep.
IoReturns == \A t \in Thread : pc[t] = "iderw" ~> pc[t] = "have"

-----------------------------------------------------------------------------
(***************************************************************************)
(* Why it holds: an inductive invariant of Coherent and BufferAccounting.  *)
(***************************************************************************)
Labels == {"out", "lock", "have", "iderw", "asleep", "wait", "unref", "panic"}

BufType == [blockno : Block \cup {None}, valid : BOOLEAN, dirty : BOOLEAN,
            refcnt : Nat, fresh : BOOLEAN, owner : Thread \cup {None}]

\* The type invariant; every buffer is in the list.
TypeOK ==
  /\ buf \in [Buf -> BufType]
  /\ mru \in [Buf -> Buf] /\ \A i \in Buf : \E k \in Buf : mru[k] = i
  /\ idequeue \in Seq(Buf) /\ device \in Request \cup {None}
  /\ disk \subseteq Block /\ bad \subseteq Buf
  /\ pc \in [Thread -> Labels] /\ b \in [Thread -> Buf \cup {None}]

\* A thread that has a buffer is counted in it, and owns its lock from bread to
\* brelse.
Owning == {"have", "iderw", "asleep", "wait"}
UseInv ==
  /\ \A t \in Thread :
       /\ b[t] = None <=> pc[t] \in {"out", "panic"}
       /\ b[t] # None => buf[b[t]].blockno # None
       /\ pc[t] \in Owning => buf[b[t]].owner = t
       /\ \A i \in Buf : buf[i].owner = t => b[t] = i /\ pc[t] \in Owning
  /\ \A i \in Buf : buf[i].refcnt = Cardinality(Users(i))

\* A buffer is queued once, as long as its owner sleeps in iderw, with something
\* to do for the disk, which works on the first one.
QueueInv ==
  /\ \A k, l \in DOMAIN idequeue : idequeue[k] = idequeue[l] => k = l
  /\ \A k \in DOMAIN idequeue : \E t \in Thread : b[t] = idequeue[k] /\ pc[t] = "asleep"
  /\ \A t \in Thread :
       /\ pc[t] = "asleep" => \E k \in DOMAIN idequeue : idequeue[k] = b[t]
       /\ pc[t] \in {"iderw", "asleep"} => ~Done(b[t])
       /\ pc[t] = "wait" => Done(b[t])
       /\ pc[t] = "have" => buf[b[t]].valid
  /\ device = IF idequeue = <<>> THEN None ELSE idestart(Head(idequeue))

\* No block is cached twice, and its last data are on the disk or in a buffer
\* that is dirty.
DataInv ==
  /\ \A i, j \in Buf : buf[i].blockno = buf[j].blockno /\ buf[i].blockno # None => i = j
  /\ \A i \in Buf : /\ buf[i].dirty => buf[i].valid /\ buf[i].fresh /\ buf[i].blockno # None
                    /\ buf[i].valid /\ i \notin bad => buf[i].fresh
  /\ \A blk \in Block \ disk : \E i \in Buf : buf[i].blockno = blk /\ buf[i].dirty

\* The dirty buffers that no thread is writing, which the log pins.
Pinned == {i \in Buf : buf[i].dirty /\ \A t \in Users(i) : pc[t] \notin {"iderw", "asleep"}}
PinInv == Cardinality(Pinned) <= MaxPins /\ \A t \in Thread : pc[t] # "panic"

\* The log and the threads together do not need more buffers than there are.
Room == Cardinality(Thread) + MaxPins <= NBUF
=============================================================================
