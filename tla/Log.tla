-------------------------------- MODULE Log ---------------------------------
(***************************************************************************)
(* The write-ahead log of log.c, over the buffer cache and the disk as it  *)
(* uses them: system calls between begin_op and end_op, log_write, the     *)
(* group commit one disk write at a time, a crash at any moment, and       *)
(* recovery, which may crash in turn.                                      *)
(*                                                                         *)
(* log.lock is held for one critical section at a time, never across a     *)
(* disk write: each critical section is one step. The write of one block,  *)
(* the log header among them, is atomic.                                   *)
(***************************************************************************)
EXTENDS Naturals, Sequences, FiniteSets

CONSTANTS Thread,       \* processes that make file system calls
          Blocks,       \* home locations
          Values,       \* contents of a block
          MAXOPBLOCKS,  \* what begin_op reserves for a call
          LOGSIZE,      \* the length of lh.block
          nlog,         \* log blocks on the disk, header included (mkfs)
          NoBlock,      \* no buffer in hand
          OpBlocks      \* how many different blocks a call really writes

ASSUME SizeAssumption ==
  /\ MAXOPBLOCKS \in Nat \ {0} /\ LOGSIZE \in Nat
  /\ NoBlock \notin Blocks /\ LOGSIZE >= MAXOPBLOCKS
  /\ nlog \in Nat \ {0} /\ OpBlocks \in 0..MAXOPBLOCKS

VARIABLES
  home, logdata, head,       \* on disk: home blocks, log blocks, log header
  cache, dirty,              \* cached contents, and the blocks with B_DIRTY
  lh, outstanding, committing,   \* struct log
  pc, blk, wrote,            \* of each process: where, which buffer, its blocks
  job, tail,                 \* the commit or the recovery under way
  panicked

disk == <<home, logdata, head>>
thread == <<pc, blk, wrote>>
vars == <<home, logdata, head, cache, dirty, lh, outstanding, committing,
          pc, blk, wrote, job, tail, panicked>>

Jobs == {"idle", "write_log", "write_head", "install", "clear", "finish",
         "boot", "boot_install", "boot_clear"}
Recovering == job \in {"boot", "boot_install", "boot_clear"}

\* The type invariant of the disk, of struct log and of its users.
TypeOK ==
  /\ home \in [Blocks -> Values] /\ logdata \in [1..LOGSIZE -> Values]
  /\ head \in Seq(Blocks) /\ cache \in [Blocks -> Values] /\ dirty \subseteq Blocks
  /\ lh \in Seq(Blocks) /\ outstanding \in Nat /\ committing \in BOOLEAN
  /\ pc \in [Thread -> {"out", "begin", "asleep", "op", "logging", "commit"}]
  /\ blk \in [Thread -> Blocks \cup {NoBlock}] /\ wrote \in [Thread -> SUBSET Blocks]
  /\ job \in Jobs /\ tail \in Nat /\ panicked \in BOOLEAN

\* The machine boots on the disk that mkfs makes.
Init ==
  /\ \E v \in Values : /\ home = [b \in Blocks |-> v]
                       /\ logdata = [i \in 1..LOGSIZE |-> v]
  /\ head = <<>> /\ cache = home /\ dirty = {}
  /\ lh = <<>> /\ outstanding = 0 /\ committing = FALSE
  /\ pc = [t \in Thread |-> "out"]
  /\ blk = [t \in Thread |-> NoBlock]
  /\ wrote = [t \in Thread |-> {}]
  /\ job = "boot" /\ tail = 1 /\ panicked = FALSE

\* wakeup(&log)
Woken(p) == [t \in Thread |-> IF p[t] = "asleep" THEN "begin" ELSE p[t]]

-----------------------------------------------------------------------------
(***************************************************************************)
(* begin_op, log_write, end_op                                             *)
(***************************************************************************)
Call(t) ==
  /\ ~Recovering /\ pc[t] = "out"
  /\ pc' = [pc EXCEPT ![t] = "begin"]
  /\ UNCHANGED <<disk, cache, dirty, lh, outstanding, committing, blk, wrote, job, tail, panicked>>

\* Mutant: the space that other calls have reserved is not counted.
MayBeginAnyway == ~committing /\ Len(lh) + MAXOPBLOCKS <= LOGSIZE

\* Room for the blocks of one more call.
MayBegin == ~committing /\ Len(lh) + (outstanding + 1) * MAXOPBLOCKS <= LOGSIZE

BeginOp(t) ==
  /\ pc[t] = "begin" /\ MayBegin
  /\ outstanding' = outstanding + 1
  /\ pc' = [pc EXCEPT ![t] = "op"]
  /\ UNCHANGED <<disk, cache, dirty, lh, committing, blk, wrote, job, tail, panicked>>

BeginSleep(t) ==
  /\ pc[t] = "begin" /\ ~MayBegin
  /\ pc' = [pc EXCEPT ![t] = "asleep"]
  /\ UNCHANGED <<disk, cache, dirty, lh, outstanding, committing, blk, wrote, job, tail, panicked>>

\* The caller has the buffer locked and has changed it; the tests at the start
\* of log_write do not hold log.lock.
LogWrite(t, b, v) ==
  /\ pc[t] = "op"
  /\ Cardinality(wrote[t] \cup {b}) <= OpBlocks
  /\ \A u \in Thread : blk[u] # b
  /\ cache' = [cache EXCEPT ![b] = v]
  /\ blk' = [blk EXCEPT ![t] = b]
  /\ wrote' = [wrote EXCEPT ![t] = @ \cup {b}]
  /\ pc' = [pc EXCEPT ![t] = "logging"]
  /\ panicked' = (Len(lh) >= LOGSIZE \/ Len(lh) + 1 >= nlog \/ outstanding < 1)
  /\ UNCHANGED <<disk, dirty, lh, outstanding, committing, job, tail>>

\* Mutant: the buffer is not pinned.
LogRecordUnpinned(t) ==
  /\ pc[t] = "logging"
  /\ lh' = IF \E i \in DOMAIN lh : lh[i] = blk[t] THEN lh ELSE Append(lh, blk[t])
  /\ blk' = [blk EXCEPT ![t] = NoBlock]
  /\ pc' = [pc EXCEPT ![t] = "op"]
  /\ UNCHANGED <<disk, cache, dirty, outstanding, committing, wrote, job, tail, panicked>>

\* The rest of log_write, under log.lock: one entry per block, and B_DIRTY.
LogRecord(t) ==
  /\ pc[t] = "logging"
  /\ lh' = IF \E i \in DOMAIN lh : lh[i] = blk[t] THEN lh ELSE Append(lh, blk[t])
  /\ dirty' = dirty \cup {blk[t]}
  /\ blk' = [blk EXCEPT ![t] = NoBlock]
  /\ pc' = [pc EXCEPT ![t] = "op"]
  /\ UNCHANGED <<disk, cache, outstanding, committing, wrote, job, tail, panicked>>

\* The call returns: others may go on with the space it had reserved.
EndOp(t) ==
  /\ pc[t] = "op" /\ outstanding > 1
  /\ outstanding' = outstanding - 1 /\ panicked' = committing
  /\ pc' = Woken([pc EXCEPT ![t] = "out"])
  /\ wrote' = [wrote EXCEPT ![t] = {}]
  /\ UNCHANGED <<disk, cache, dirty, lh, committing, blk, job, tail>>

\* The last call to return commits, without log.lock.
EndOpCommit(t) ==
  /\ pc[t] = "op" /\ outstanding = 1
  /\ outstanding' = 0 /\ committing' = TRUE /\ panicked' = committing
  /\ pc' = [pc EXCEPT ![t] = "commit"]
  /\ wrote' = [wrote EXCEPT ![t] = {}]
  /\ job' = IF lh = <<>> THEN "finish" ELSE "write_log"
  /\ tail' = 1
  /\ UNCHANGED <<disk, cache, dirty, lh, blk>>

-----------------------------------------------------------------------------
(***************************************************************************)
(* commit and recover_from_log                                             *)
(***************************************************************************)
WriteLog ==
  /\ job = "write_log"
  /\ logdata' = [logdata EXCEPT ![tail] = cache[lh[tail]]]
  /\ IF tail = Len(lh) THEN job' = "write_head" /\ tail' = 1
                       ELSE tail' = tail + 1 /\ UNCHANGED job
  /\ UNCHANGED <<home, head, cache, dirty, lh, outstanding, committing, thread, panicked>>

\* The commit point.
WriteHead ==
  /\ job = "write_head"
  /\ head' = lh /\ job' = "install"
  /\ UNCHANGED <<home, logdata, cache, dirty, lh, outstanding, committing, thread, tail, panicked>>

ReadHead ==
  /\ job = "boot"
  /\ lh' = head /\ tail' = 1
  /\ job' = IF head = <<>> THEN "boot_clear" ELSE "boot_install"
  /\ UNCHANGED <<disk, cache, dirty, outstanding, committing, thread, panicked>>

\* One block of install_trans; the disk driver clears B_DIRTY.
InstallTrans ==
  /\ job \in {"install", "boot_install"}
  /\ home' = [home EXCEPT ![lh[tail]] = logdata[tail]]
  /\ cache' = [cache EXCEPT ![lh[tail]] = logdata[tail]]
  /\ dirty' = dirty \ {lh[tail]}
  /\ IF tail = Len(lh)
       THEN job' = (IF job = "install" THEN "clear" ELSE "boot_clear") /\ tail' = 1
       ELSE tail' = tail + 1 /\ UNCHANGED job
  /\ UNCHANGED <<logdata, head, lh, outstanding, committing, thread, panicked>>

\* Mutant: the header on the disk is not written.
ClearHeadInMemory ==
  /\ job \in {"clear", "boot_clear"}
  /\ lh' = <<>>
  /\ job' = IF job = "clear" THEN "finish" ELSE "idle"
  /\ UNCHANGED <<disk, cache, dirty, outstanding, committing, thread, tail, panicked>>

\* log.lh.n = 0 and the last write_head
ClearHead ==
  /\ job \in {"clear", "boot_clear"}
  /\ lh' = <<>> /\ head' = <<>>
  /\ job' = IF job = "clear" THEN "finish" ELSE "idle"
  /\ UNCHANGED <<home, logdata, cache, dirty, outstanding, committing, thread, tail, panicked>>

\* Mutant: the waiters for the commit are not woken.
EndCommitSilent(t) ==
  /\ job = "finish" /\ pc[t] = "commit"
  /\ committing' = FALSE /\ job' = "idle"
  /\ pc' = [pc EXCEPT ![t] = "out"]
  /\ UNCHANGED <<disk, cache, dirty, lh, outstanding, blk, wrote, tail, panicked>>

\* The end of end_op for the call that committed.
EndCommit(t) ==
  /\ job = "finish" /\ pc[t] = "commit"
  /\ committing' = FALSE /\ job' = "idle"
  /\ pc' = Woken([pc EXCEPT ![t] = "out"])
  /\ UNCHANGED <<disk, cache, dirty, lh, outstanding, blk, wrote, tail, panicked>>

-----------------------------------------------------------------------------
\* bget reuses the buffer of a block that nobody has and that is not B_DIRTY:
\* the next bread finds what the disk has.
Evict(b) ==
  /\ ~Recovering /\ b \notin dirty
  /\ \A u \in Thread : blk[u] # b
  /\ cache' = [cache EXCEPT ![b] = home[b]]
  /\ UNCHANGED <<disk, dirty, lh, outstanding, committing, thread, job, tail, panicked>>

\* The power fails: what is in memory is gone, and the machine boots.
Crash ==
  /\ lh' = <<>> /\ outstanding' = 0 /\ committing' = FALSE
  /\ cache' = home /\ dirty' = {}
  /\ pc' = [t \in Thread |-> "out"] /\ wrote' = [t \in Thread |-> {}]
  /\ job' = "boot" /\ tail' = 1
  /\ blk' = [t \in Thread |-> NoBlock]
  /\ UNCHANGED <<disk, panicked>>

Commit == WriteLog \/ WriteHead \/ InstallTrans \/ ClearHead \/ ReadHead

Next ==
  /\ ~panicked
  /\ \/ \E t \in Thread : \/ Call(t) \/ BeginOp(t) \/ BeginSleep(t) \/ LogRecord(t)
                          \/ EndOp(t) \/ EndOpCommit(t) \/ EndCommit(t)
                          \/ \E b \in Blocks, v \in Values : LogWrite(t, b, v)
     \/ Commit
     \/ \E b \in Blocks : Evict(b)
     \/ Crash

Spec == Init /\ [][Next]_vars

\* The disk answers, some process that can go on runs, and system calls end
\* after a finite number of writes. No single process is favoured: spin locks are
\* not fair.
FairSpec ==
  /\ Spec
  /\ WF_vars(~panicked /\ (Commit \/ \E t \in Thread : LogRecord(t) \/ EndCommit(t)))
  /\ SF_vars(~panicked /\ \E t \in Thread : EndOp(t) \/ EndOpCommit(t))

-----------------------------------------------------------------------------
\* What recovery would make of the disk.
Recovered ==
  [b \in Blocks |->
     IF \E i \in DOMAIN head : head[i] = b
       THEN logdata[CHOOSE i \in DOMAIN head : head[i] = b] ELSE home[b]]

\* Group commit: the system calls of a transaction reach the disk together or
\* not at all, wherever the machine crashes, during commit and recovery too.
D == INSTANCE AtomicDisk WITH
       stable <- Recovered,
       volatile <- IF Recovering THEN Recovered ELSE cache,
       active <- outstanding
ImplementsAtomicDisk == D!Spec

\* The reservations of begin_op keep log_write from running out of log blocks
\* ("too big a transaction"), though it looks at lh.n without log.lock, and
\* end_op never meets a commit under way.
NoPanic == ~panicked

\* Once no call is active and the last end_op has returned, the home locations
\* have every write: nothing is left to the log, and no buffer stays pinned.
QuietIsDurable ==
  job = "idle" /\ outstanding = 0 => home = cache /\ head = <<>> /\ dirty = {}

\* A process that waits in begin_op is woken, or the machine crashes.
BeginWoken == \A t \in Thread : pc[t] = "asleep" ~> pc[t] # "asleep"

-----------------------------------------------------------------------------
(***************************************************************************)
(* The inductive invariant: calls and jobs, the log, the reservations, and *)
(* what is where.                                                          *)
(***************************************************************************)
InOp == {t \in Thread : pc[t] \in {"op", "logging"}}
CommitJobs == {"write_log", "write_head", "install", "clear", "finish"}
Entries(s) == {s[i] : i \in 1..Len(s)}
Distinct(s) == \A i, j \in 1..Len(s) : s[i] = s[j] => i = j

\* log.outstanding counts the calls; only with none is there a commit, and
\* recovery runs before any.
CallInv ==
  /\ IsFiniteSet(InOp) /\ Cardinality(InOp) = outstanding
  /\ committing <=> job \in CommitJobs
  /\ job # "idle" => outstanding = 0
  /\ Recovering => \A t \in Thread : pc[t] = "out"
  /\ \A t \in Thread :
       /\ IF pc[t] = "logging" THEN blk[t] \in wrote[t] ELSE blk[t] = NoBlock
       /\ t \notin InOp => wrote[t] = {}
       /\ IsFiniteSet(wrote[t]) /\ Cardinality(wrote[t]) <= OpBlocks

\* The log and its header on the disk list each block once, and agree from the
\* commit point to the end of the installation.
JobInv ==
  /\ Distinct(lh) /\ Distinct(head)
  /\ Len(lh) <= LOGSIZE /\ Len(head) <= LOGSIZE
  /\ job \in {"write_log", "write_head", "install", "boot_install"} => tail \in 1..Len(lh)
  /\ job = "write_head" => tail = 1
  /\ job \in {"install", "clear", "boot_install", "boot_clear"} => head = lh
  /\ job \in {"idle", "write_log", "write_head", "finish"} => head = <<>>
  /\ job \in {"boot", "finish"} => lh = <<>>
  /\ job = "idle" /\ outstanding = 0 => lh = <<>>

\* Calls that write fewer blocks than begin_op reserves, and a log with room for
\* more than one call: what log_write's own tests need.
Margin == OpBlocks < MAXOPBLOCKS /\ MAXOPBLOCKS < LOGSIZE /\ LOGSIZE <= nlog

\* Every entry of the log is of a call that goes on or of a set B of blocks which
\* leaves each call that goes on its reservation.
RoomInv ==
  job = "idle" =>
    \E B \in SUBSET Blocks :
      /\ IsFiniteSet(B) /\ Cardinality(B) + outstanding * MAXOPBLOCKS <= LOGSIZE
      /\ Margin /\ outstanding = 1 /\ B # {} => Cardinality(B) + MAXOPBLOCKS < LOGSIZE
      /\ Entries(lh) \subseteq B \cup UNION {wrote[t] : t \in InOp}

\* The pinned buffers are those of the log that are not yet installed; any other
\* block that no call is changing is on the disk as it is in the cache.
ContentInv ==
  /\ dirty = IF Recovering \/ job = "clear" THEN {}
             ELSE IF job = "install" THEN {lh[i] : i \in tail..Len(lh)} ELSE Entries(lh)
  /\ \A b \in Blocks \ dirty : (\A u \in Thread : blk[u] # b) => cache[b] = home[b]
  /\ job = "write_log" => \A i \in 1..(tail - 1) : logdata[i] = cache[lh[i]]
  /\ job \in {"write_head", "install", "clear", "boot_clear"} =>
       \A i \in 1..Len(lh) : logdata[i] = cache[lh[i]]
  /\ job = "boot_install" => \A i \in 1..(tail - 1) : logdata[i] = cache[lh[i]]

LogInv ==
  TypeOK /\ CallInv /\ JobInv /\ RoomInv /\ ContentInv /\ (Margin => ~panicked)
=============================================================================
