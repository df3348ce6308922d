------------------------------ MODULE LogProofs ------------------------------
(***************************************************************************)
(* The invariant of Log holds for every number of processes, blocks and    *)
(* contents and every size of the log: the reservations of begin_op are    *)
(* enough, and a quiet log leaves nothing to do.  And the log implements   *)
(* AtomicDisk.                                                             *)
(***************************************************************************)
EXTENDS Log, FiniteSetTheorems, TLAPS

\* The empty sequence is one over any set, and the only one without elements.
LEMMA NoElements ==
  \A S : <<>> \in Seq(S) /\ Len(<<>>) = 0 /\ \A a \in Seq(S) : a # <<>> => Len(a) # 0
OBVIOUS

\* One element at the end.
LEMMA OneMore ==
  ASSUME NEW S, NEW a \in Seq(S), NEW x \in S
  PROVE  LET b == Append(a, x)
         IN  /\ b \in Seq(S) /\ b # <<>> /\ Len(b) = Len(a) + 1
             /\ \A k \in 1..Len(a) : b[k] = a[k]
             /\ b[Len(a) + 1] = x
OBVIOUS

\* n sets of at most m elements have at most n * m elements together: what the
\* calls that go on have written. A minimal counterexample loses an element.
LEMMA UnionBound ==
  ASSUME NEW I, IsFiniteSet(I), NEW m \in Nat, NEW f,
         \A i \in I : IsFiniteSet(f[i]) /\ Cardinality(f[i]) <= m
  PROVE  LET U == UNION {f[i] : i \in I}
         IN  IsFiniteSet(U) /\ Cardinality(U) <= Cardinality(I) * m
<1> DEFINE Sum(J) == UNION {f[i] : i \in J}
           Good(J) == IsFiniteSet(Sum(J)) /\ Cardinality(Sum(J)) <= Cardinality(J) * m
           Bad == {J \in FiniteSubsetsOf(I) : ~Good(J)}
<1>1. SUFFICES Bad = {}
  <2>1. I \in FiniteSubsetsOf(I)
    BY DEF FiniteSubsetsOf
  <2> QED
    BY <2>1
<1>2. SUFFICES ASSUME Bad # {} PROVE FALSE
  BY Zenon
<1>3. PICK J \in Bad : \A K \in Bad : ~(<<K, J>> \in StrictSubsetOrdering(I))
  <2> HIDE DEF Bad
  <2>1. Bad \subseteq FiniteSubsetsOf(I)
    BY DEF Bad
  <2> QED
    BY <1>2, <2>1, WFMin, FS_StrictSubsetOrderingWellFounded
<1>4. J \in SUBSET I /\ IsFiniteSet(J) /\ ~Good(J)
  BY DEF FiniteSubsetsOf
<1>5. J # {}
  <2>1. Sum({}) = {}
    OBVIOUS
  <2>2. IsFiniteSet({}) /\ Cardinality({}) = 0
    BY FS_EmptySet
  <2>3. Good({})
    <3> HIDE DEF Sum
    <3> QED
      BY <2>1, <2>2
  <2> HIDE DEF Good
  <2> QED
    BY <1>4, <2>3
<1>6. PICK x \in J : TRUE
  BY <1>5
<1> DEFINE K == J \ {x}
<1>7. IsFiniteSet(K) /\ Cardinality(K) = Cardinality(J) - 1 /\ Cardinality(J) \in Nat
  BY <1>4, <1>6, FS_RemoveElement, FS_CardinalityType
<1>8. Good(K)
  <2>1. K \in FiniteSubsetsOf(I)
    BY <1>4, <1>7 DEF FiniteSubsetsOf
  <2>2. <<K, J>> \in StrictSubsetOrdering(I)
    BY <1>4, <1>6 DEF StrictSubsetOrdering
  <2> QED
    BY Zenon, <1>3, <2>1, <2>2
<1>9. Sum(J) = Sum(K) \cup f[x]
  BY <1>6
<1>10. /\ IsFiniteSet(Sum(K) \cup f[x])
       /\ Cardinality(Sum(K) \cup f[x]) <= Cardinality(Sum(K)) + Cardinality(f[x])
  <2>1. IsFiniteSet(Sum(K)) /\ IsFiniteSet(f[x])
    BY <1>4, <1>6, <1>8
  <2> HIDE DEF Sum, K
  <2>2. /\ IsFiniteSet(Sum(K) \cup f[x])
        /\ Cardinality(Sum(K) \cup f[x])
             = Cardinality(Sum(K)) + Cardinality(f[x]) - Cardinality(Sum(K) \cap f[x])
    BY Zenon, <2>1, FS_Union
  <2>3. IsFiniteSet(Sum(K) \cap f[x])
    BY Zenon, <2>1, FS_Intersection
  <2>4. /\ Cardinality(Sum(K) \cap f[x]) \in Nat /\ Cardinality(Sum(K)) \in Nat
        /\ Cardinality(f[x]) \in Nat
    BY <2>1, <2>3, FS_CardinalityType
  <2> QED
    BY <2>2, <2>4
<1>11. Cardinality(Sum(K) \cup f[x]) <= Cardinality(J) * m
  <2> DEFINE a == Cardinality(Sum(K))
             c == Cardinality(f[x])
             n == Cardinality(J)
             u == Cardinality(Sum(K) \cup f[x])
  <2>1. a \in Nat /\ c \in Nat /\ n \in Nat /\ u \in Nat
    BY <1>4, <1>6, <1>7, <1>8, <1>10, FS_CardinalityType
  <2>2. u <= a + c /\ a <= (n - 1) * m /\ c <= m
    BY <1>4, <1>6, <1>7, <1>8, <1>10
  <2> HIDE DEF a, c, n, u
  <2>3. (n - 1) * m + m = n * m
    BY <2>1
  <2>4. (n - 1) * m \in Int /\ n * m \in Int
    BY <2>1
  <2>5. u <= n * m
    BY <2>1, <2>2, <2>3, <2>4
  <2> QED
    BY <2>5 DEF n, u
<1> QED
  BY Zenon, <1>4, <1>9, <1>10, <1>11
\* A log that lists each block once is no longer than any set of blocks that has
\* its entries.
LEMMA DistinctBound ==
  ASSUME NEW s \in Seq(Blocks), Distinct(s), NEW T, IsFiniteSet(T), Entries(s) \subseteq T
  PROVE  Len(s) <= Cardinality(T)
<1> DEFINE n == Len(s)
           f == [i \in 1..n |-> s[i]]
<1>1. n \in Nat
  OBVIOUS
<1>2. f \in Injection(1..n, T)
  <2>1. f \in [1..n -> T]
    BY <1>1 DEF Entries
  <2>2. IsInjective(f)
    BY <1>1 DEF IsInjective, Distinct
  <2> QED
    BY <2>1, <2>2 DEF Injection
<1> HIDE DEF n, f
<1>3. IsFiniteSet(1..n) /\ Cardinality(1..n) = n
  BY <1>1, FS_Interval
<1>4. Cardinality(1..n) <= Cardinality(T)
  BY <1>2, FS_Injection
<1> QED
  BY <1>3, <1>4 DEF n

\* A log has no more entries than its length.
LEMMA EntriesBound ==
  ASSUME NEW s \in Seq(Blocks)
  PROVE  IsFiniteSet(Entries(s)) /\ Cardinality(Entries(s)) <= Len(s)
<1> DEFINE n == Len(s)
           f == [i \in 1..n |-> s[i]]
<1>1. n \in Nat
  OBVIOUS
<1>2. f \in Surjection(1..n, Entries(s))
  BY <1>1 DEF Surjection, Entries
<1> HIDE DEF n, f
<1>3. IsFiniteSet(1..n) /\ Cardinality(1..n) = n
  BY <1>1, FS_Interval
<1>4. IsFiniteSet(Entries(s)) /\ Cardinality(Entries(s)) <= Cardinality(1..n)
  BY <1>2, <1>3, FS_Surjection
<1> QED
  BY <1>3, <1>4 DEF n

\* A set of blocks and the writes of the calls in I bound the length of the log.
LEMMA LogBound ==
  ASSUME NEW s \in Seq(Blocks), Distinct(s), NEW I, IsFiniteSet(I), NEW w,
         \A t \in I : IsFiniteSet(w[t]) /\ Cardinality(w[t]) <= OpBlocks,
         NEW B, IsFiniteSet(B), Entries(s) \subseteq B \cup UNION {w[t] : t \in I}
  PROVE  Len(s) <= Cardinality(B) + Cardinality(I) * OpBlocks
<1> DEFINE U == UNION {w[t] : t \in I}
<1>1. OpBlocks \in Nat
  BY SizeAssumption
<1>2. IsFiniteSet(U) /\ Cardinality(U) <= Cardinality(I) * OpBlocks
  BY <1>1, UnionBound
<1>3. Entries(s) \subseteq B \cup U
  OBVIOUS
<1> HIDE DEF U
<1>4. /\ IsFiniteSet(B \cup U)
      /\ Cardinality(B \cup U) = Cardinality(B) + Cardinality(U) - Cardinality(B \cap U)
  BY Zenon, <1>2, FS_Union
<1>5. IsFiniteSet(B \cap U)
  BY Zenon, FS_Intersection
<1>6. /\ Cardinality(B) \in Nat /\ Cardinality(U) \in Nat /\ Cardinality(I) \in Nat
      /\ Cardinality(B \cap U) \in Nat
  BY <1>2, <1>5, FS_CardinalityType
<1>7. Len(s) <= Cardinality(B \cup U)
  BY <1>3, <1>4, DistinctBound
<1>8. Len(s) \in Nat
  OBVIOUS
<1>9. Cardinality(I) * OpBlocks \in Nat
  BY <1>1, <1>6
<1> QED
  BY <1>2, <1>4, <1>6, <1>7, <1>8, <1>9

\* What the reservations leave: the log never overflows, and where Margin holds a
\* call finds a free entry each time it comes to log_write.
LEMMA Fits ==
  ASSUME NEW s \in Seq(Blocks), Distinct(s), NEW I, IsFiniteSet(I), NEW w,
         \A t \in I : IsFiniteSet(w[t]) /\ Cardinality(w[t]) <= OpBlocks,
         NEW B, IsFiniteSet(B), Entries(s) \subseteq B \cup UNION {w[t] : t \in I},
         Cardinality(B) + Cardinality(I) * MAXOPBLOCKS <= LOGSIZE,
         Margin /\ Cardinality(I) = 1 /\ B # {} => Cardinality(B) + MAXOPBLOCKS < LOGSIZE
  PROVE  /\ Len(s) <= LOGSIZE
         /\ Margin /\ I # {} => Len(s) < LOGSIZE /\ Len(s) + 1 < nlog
<1> DEFINE k == Cardinality(I)
           c == Cardinality(B)
           d == MAXOPBLOCKS - OpBlocks
<1>1. Len(s) <= c + k * OpBlocks
  BY LogBound
<1>2. k \in Nat /\ c \in Nat /\ Len(s) \in Nat
  BY FS_CardinalityType
<1>3. /\ OpBlocks \in Nat /\ MAXOPBLOCKS \in Nat /\ LOGSIZE \in Nat /\ nlog \in Nat
      /\ d \in Nat
  BY SizeAssumption
<1>4. I # {} => k # 0
  BY FS_EmptySet
<1>5. B = {} => c = 0
  BY FS_EmptySet
<1>6. c + k * MAXOPBLOCKS <= LOGSIZE
  OBVIOUS
<1>7. k * MAXOPBLOCKS = k * OpBlocks + k * d
  BY <1>2, <1>3
<1>8. k * MAXOPBLOCKS \in Nat /\ k * OpBlocks \in Nat /\ k * d \in Nat
  BY <1>2, <1>3
<1>9. Len(s) + k * d <= LOGSIZE
  <2> HIDE DEF k, c, d
  <2> QED
    BY <1>1, <1>2, <1>3, <1>6, <1>7, <1>8
<1>10. ASSUME Margin, I # {}
       PROVE  Len(s) + 2 <= LOGSIZE /\ LOGSIZE <= nlog
  <2>1. OpBlocks < MAXOPBLOCKS /\ MAXOPBLOCKS < LOGSIZE /\ LOGSIZE <= nlog
    BY <1>10 DEF Margin
  <2>2. CASE k = 1
    <3>1. B # {} => c + MAXOPBLOCKS < LOGSIZE
      BY <1>10, <2>2
    <3>2. Len(s) <= c + OpBlocks
      BY <1>1, <1>2, <1>3, <2>2
    <3> HIDE DEF k, c, d
    <3> QED
      BY <1>2, <1>3, <1>5, <2>1, <3>1, <3>2
  <2>3. CASE k # 1
    <3>1. k >= 2
      BY <1>2, <1>4, <1>10, <2>3
    <3>2. d >= 1
      BY <1>3, <2>1
    <3> HIDE DEF k, c, d
    <3>3. k * d >= 2
      <4>1. PICK j \in Nat : k = j + 2
        BY <1>2, <3>1
      <4>2. PICK e \in Nat : d = e + 1
        BY <1>3, <3>2
      <4>3. k * d = j * e + j + 2 * e + 2
        BY <4>1, <4>2
      <4>4. j * e \in Nat
        BY <4>1, <4>2
      <4> QED
        BY <4>1, <4>2, <4>3, <4>4
    <3> QED
      BY <1>2, <1>3, <1>8, <1>9, <2>1, <3>3
  <2> QED
    BY <2>2, <2>3
<1>11. Len(s) <= LOGSIZE
  <2> HIDE DEF k, c, d
  <2> QED
    BY <1>2, <1>3, <1>8, <1>9
<1> QED
  BY <1>2, <1>3, <1>10, <1>11
-----------------------------------------------------------------------------
\* A call that goes on is counted: nothing commits or recovers meanwhile.
LEMMA CallActive ==
  ASSUME TypeOK, CallInv, NEW t \in InOp
  PROVE  outstanding >= 1 /\ job = "idle" /\ ~committing
<1>1. outstanding # 0
  BY FS_EmptySet DEF CallInv
<1> QED
  BY <1>1 DEF CallInv, TypeOK, CommitJobs

\* Outside a call that goes on the log is idle too, once begin_op has not slept.
LEMMA BeginIdle ==
  ASSUME TypeOK, CallInv, NEW t \in Thread, pc[t] = "begin", ~committing
  PROVE  job = "idle" /\ t \notin InOp
BY DEF CallInv, TypeOK, CommitJobs, Recovering, InOp, Jobs

\* Each step keeps the types: the indices into the log blocks are in range.
LEMMA TypeStep ==
  ASSUME TypeOK, CallInv, JobInv, Next
  PROVE  TypeOK'
<1>1. ASSUME NEW t \in Thread, Call(t) \/ BeginOp(t) \/ BeginSleep(t)
      PROVE  TypeOK'
  BY <1>1 DEF TypeOK, Call, BeginOp, BeginSleep, disk
<1> DEFINE PC == {"out", "begin", "asleep", "op", "logging", "commit"}
<1>0. ASSUME NEW t \in Thread, NEW c \in PC
      PROVE  /\ [pc EXCEPT ![t] = c] \in [Thread -> PC]
             /\ Woken([pc EXCEPT ![t] = c]) \in [Thread -> PC]
  BY DEF TypeOK, Woken
<1>2. ASSUME NEW t \in Thread, NEW b \in Blocks, NEW v \in Values, LogWrite(t, b, v)
      PROVE  TypeOK'
  BY <1>2 DEF TypeOK, LogWrite, disk
<1>3. ASSUME NEW t \in Thread, LogRecord(t)
      PROVE  TypeOK'
  <2>1. blk[t] \in Blocks
    BY <1>3 DEF TypeOK, CallInv, LogRecord
  <2> QED
    BY <1>3, <2>1 DEF TypeOK, LogRecord, disk
<1>4. ASSUME NEW t \in Thread, EndOp(t) \/ EndOpCommit(t)
      PROVE  TypeOK'
  <2>1. pc' \in [Thread -> PC]
    <3>1. CASE EndOp(t)
      BY Zenon, <1>0, <3>1 DEF EndOp
    <3>2. CASE EndOpCommit(t)
      BY Zenon, <1>0, <3>2 DEF EndOpCommit
    <3> QED
      BY <1>4, <3>1, <3>2
  <2>2. wrote' \in [Thread -> SUBSET Blocks] /\ outstanding' \in Nat
    BY <1>4 DEF TypeOK, EndOp, EndOpCommit
  <2>3. job' \in Jobs /\ tail' \in Nat
    BY <1>4 DEF TypeOK, EndOp, EndOpCommit, Jobs
  <2>4. committing' \in BOOLEAN /\ panicked' \in BOOLEAN
    BY Zenon, <1>4 DEF TypeOK, EndOp, EndOpCommit
  <2> QED
    BY <1>4, <2>1, <2>2, <2>3, <2>4 DEF TypeOK, EndOp, EndOpCommit, disk
<1>11. ASSUME NEW t \in Thread, EndCommit(t)
      PROVE  TypeOK'
  <2>1. pc' \in [Thread -> PC]
    BY Zenon, <1>0, <1>11 DEF EndCommit
  <2> QED
    BY Zenon, <1>11, <2>1 DEF TypeOK, EndCommit, disk, Jobs
<1>5. ASSUME job \in {"write_log", "install", "boot_install"}
      PROVE  /\ tail \in 1..LOGSIZE /\ lh[tail] \in Blocks /\ logdata[tail] \in Values
             /\ cache[lh[tail]] \in Values
  BY <1>5, SizeAssumption DEF TypeOK, JobInv
<1>6. CASE WriteLog
  BY <1>5, <1>6 DEF TypeOK, WriteLog, thread, Jobs
<1>7. CASE InstallTrans
  <2>1. home' \in [Blocks -> Values] /\ cache' \in [Blocks -> Values] /\ dirty' \subseteq Blocks
    BY <1>5, <1>7 DEF TypeOK, InstallTrans
  <2>2. job' \in Jobs /\ tail' \in Nat
    BY <1>7 DEF TypeOK, InstallTrans, Jobs
  <2> QED
    BY <1>7, <2>1, <2>2 DEF TypeOK, InstallTrans, thread
<1>8. CASE WriteHead \/ ReadHead \/ ClearHead
  <2>1. lh' \in Seq(Blocks) /\ head' \in Seq(Blocks)
    BY Zenon, <1>8, NoElements DEF TypeOK, WriteHead, ReadHead, ClearHead, disk
  <2>2. job' \in Jobs /\ tail' \in Nat
    BY <1>8 DEF TypeOK, WriteHead, ReadHead, ClearHead, Jobs
  <2> QED
    BY <1>8, <2>1, <2>2 DEF TypeOK, WriteHead, ReadHead, ClearHead, thread, disk
<1>9. CASE \E b \in Blocks : Evict(b)
  <2>1. PICK b \in Blocks : Evict(b)
    BY <1>9
  <2> QED
    BY <2>1 DEF TypeOK, Evict, thread, disk
<1>10. CASE Crash
  <2>1. lh' \in Seq(Blocks)
    BY <1>10, NoElements DEF Crash
  <2>2. /\ pc' \in [Thread -> PC] /\ wrote' \in [Thread -> SUBSET Blocks]
        /\ blk' \in [Thread -> Blocks \cup {NoBlock}]
    BY <1>10 DEF Crash
  <2> QED
    BY Zenon, <1>10, <2>1, <2>2 DEF TypeOK, Crash, disk, Jobs
<1> QED
  BY <1>1, <1>2, <1>3, <1>4, <1>6, <1>7, <1>8, <1>9, <1>10, <1>11 DEF Next, Commit

\* Each step keeps the count of the calls, and the job to what they allow.
LEMMA CallStep ==
  ASSUME TypeOK, CallInv, JobInv, Next
  PROVE  CallInv'
<1> USE DEF CommitJobs, Recovering
<1>1. ASSUME NEW t \in Thread, Call(t) \/ BeginSleep(t)
      PROVE  CallInv'
  <2>1. InOp' = InOp
    BY <1>1 DEF InOp, Call, BeginSleep, TypeOK
  <2> QED
    BY <1>1, <2>1 DEF CallInv, Call, BeginSleep, TypeOK
<1>2. ASSUME NEW t \in Thread, BeginOp(t)
      PROVE  CallInv'
  <2>1. job = "idle" /\ t \notin InOp
    BY <1>2, BeginIdle DEF BeginOp, MayBegin
  <2>2. InOp' = InOp \cup {t}
    BY <1>2 DEF InOp, BeginOp, TypeOK
  <2>3. IsFiniteSet(InOp') /\ Cardinality(InOp') = outstanding'
    BY <1>2, <2>1, <2>2, FS_AddElement DEF CallInv, BeginOp
  <2> QED
    BY <1>2, <2>1, <2>2, <2>3 DEF CallInv, BeginOp, TypeOK
<1>3. ASSUME NEW t \in Thread, NEW b \in Blocks, NEW v \in Values, LogWrite(t, b, v)
      PROVE  CallInv'
  <2>1. InOp' = InOp /\ t \in InOp
    BY <1>3 DEF InOp, LogWrite, TypeOK
  <2>2. IsFiniteSet(wrote[t] \cup {b})
    BY Zenon, FS_AddElement DEF CallInv
  <2>3. /\ wrote'[t] = wrote[t] \cup {b} /\ blk'[t] = b /\ pc'[t] = "logging"
        /\ \A u \in Thread \ {t} : /\ wrote'[u] = wrote[u] /\ blk'[u] = blk[u]
                                    /\ pc'[u] = pc[u]
    BY <1>3 DEF LogWrite, TypeOK
  <2>4. job = "idle" /\ job' = job /\ committing' = committing /\ outstanding' = outstanding
    BY <1>3, <2>1, CallActive DEF LogWrite
  <2>5. \A u \in Thread :
          /\ IF pc'[u] = "logging" THEN blk'[u] \in wrote'[u] ELSE blk'[u] = NoBlock
          /\ u \notin InOp' => wrote'[u] = {}
          /\ IsFiniteSet(wrote'[u]) /\ Cardinality(wrote'[u]) <= OpBlocks
    BY <1>3, <2>1, <2>2, <2>3 DEF CallInv, LogWrite
  <2> QED
    BY <2>1, <2>4, <2>5 DEF CallInv
<1>4. ASSUME NEW t \in Thread, LogRecord(t)
      PROVE  CallInv'
  <2>1. InOp' = InOp
    BY <1>4 DEF InOp, LogRecord, TypeOK
  <2>2. t \in InOp
    BY <1>4 DEF InOp, LogRecord
  <2>3. job = "idle"
    BY <2>2, CallActive
  <2> QED
    BY <1>4, <2>1, <2>3 DEF CallInv, LogRecord, TypeOK
<1>5. ASSUME NEW t \in Thread, EndOp(t) \/ EndOpCommit(t)
      PROVE  CallInv'
  <2>1. t \in InOp
    BY <1>5 DEF InOp, EndOp, EndOpCommit
  <2>2. job = "idle" /\ ~committing
    BY <2>1, CallActive
  <2>3. InOp' = InOp \ {t}
    BY <1>5 DEF InOp, EndOp, EndOpCommit, Woken, TypeOK
  <2>4. IsFiniteSet(InOp') /\ Cardinality(InOp') = outstanding'
    BY <1>5, <2>1, <2>3, FS_RemoveElement DEF CallInv, EndOp, EndOpCommit
  <2>5. IsFiniteSet({}) /\ Cardinality({}) <= OpBlocks
    BY FS_EmptySet, SizeAssumption
  <2>6. /\ wrote'[t] = {} /\ blk'[t] = NoBlock /\ pc'[t] # "logging"
        /\ \A u \in Thread \ {t} :
             /\ wrote'[u] = wrote[u] /\ blk'[u] = blk[u]
             /\ pc'[u] = "logging" <=> pc[u] = "logging"
    BY <1>5 DEF CallInv, EndOp, EndOpCommit, Woken, TypeOK
  <2>7. \A u \in Thread :
          /\ IF pc'[u] = "logging" THEN blk'[u] \in wrote'[u] ELSE blk'[u] = NoBlock
          /\ u \notin InOp' => wrote'[u] = {}
          /\ IsFiniteSet(wrote'[u]) /\ Cardinality(wrote'[u]) <= OpBlocks
    BY Zenon, <2>3, <2>5, <2>6 DEF CallInv
  <2>8. /\ committing' <=> job' \in CommitJobs
        /\ job' # "idle" => outstanding' = 0
        /\ ~Recovering'
    BY <1>5, <2>2 DEF EndOp, EndOpCommit
  <2> QED
    BY <2>4, <2>7, <2>8 DEF CallInv
<1>6. ASSUME NEW t \in Thread, EndCommit(t)
      PROVE  CallInv'
  <2>1. InOp' = InOp
    BY <1>6 DEF InOp, EndCommit, Woken, TypeOK
  <2> QED
    BY <1>6, <2>1 DEF CallInv, EndCommit, Woken, TypeOK
<1>7. CASE Commit \/ \E b \in Blocks : Evict(b)
  <2>1. UNCHANGED <<pc, blk, wrote, outstanding, committing>>
    BY <1>7 DEF Commit, WriteLog, WriteHead, InstallTrans, ClearHead, ReadHead, Evict, thread
  <2>2. InOp' = InOp
    BY <2>1 DEF InOp
  <2>3. /\ job' \in CommitJobs <=> job \in CommitJobs
        /\ job' # "idle" => job # "idle"
        /\ Recovering' => Recovering
    BY <1>7 DEF Commit, WriteLog, WriteHead, InstallTrans, ClearHead, ReadHead, Evict
  <2> QED
    BY <2>1, <2>2, <2>3 DEF CallInv
<1>8. CASE Crash
  <2>1. InOp' = {}
    BY <1>8 DEF InOp, Crash
  <2>2. IsFiniteSet({}) /\ Cardinality({}) = 0
    BY FS_EmptySet
  <2> QED
    BY <1>8, <2>1, <2>2, SizeAssumption DEF CallInv, Crash
<1> QED
  BY <1>1, <1>2, <1>3, <1>4, <1>5, <1>6, <1>7, <1>8 DEF Next
\* What LogRecord makes of the log: each block once, and only the caller's new.
LEMMA RecordEntries ==
  ASSUME NEW s \in Seq(Blocks), NEW b \in Blocks, Distinct(s),
         NEW r, r = IF \E i \in DOMAIN s : s[i] = b THEN s ELSE Append(s, b)
  PROVE  Distinct(r) /\ Entries(r) = Entries(s) \cup {b} /\ r # <<>>
<1>1. Len(s) \in Nat /\ DOMAIN s = 1..Len(s)
  OBVIOUS
<1>2. CASE \E i \in DOMAIN s : s[i] = b
  <2>1. r = s
    BY <1>2
  <2>2. s # <<>>
    BY <1>2
  <2>3. b \in Entries(s)
    BY <1>1, <1>2 DEF Entries
  <2> QED
    BY <2>1, <2>2, <2>3
<1>3. CASE ~ \E i \in DOMAIN s : s[i] = b
  <2>1. r = Append(s, b)
    BY <1>3
  <2>2. /\ r # <<>> /\ Len(r) = Len(s) + 1 /\ r[Len(s) + 1] = b
        /\ \A i \in 1..Len(s) : r[i] = s[i]
    BY <2>1, OneMore
  <2>3. \A i \in 1..Len(s) : s[i] # b
    BY <1>1, <1>3
  <2>4. Distinct(r)
    BY <1>1, <2>2, <2>3 DEF Distinct
  <2>5. Entries(r) = Entries(s) \cup {b}
    BY <1>1, <2>2 DEF Entries
  <2> QED
    BY <2>2, <2>4, <2>5
<1> QED
  BY <1>2, <1>3

\* Each step keeps the reservations: a call that begins finds its own, one that
\* returns leaves its blocks to B, whose share of the log it had reserved.
LEMMA RoomStep ==
  ASSUME TypeOK, CallInv, JobInv, RoomInv, Next
  PROVE  RoomInv'
<1> DEFINE W == UNION {wrote[t] : t \in InOp}
           Room(B, n) == /\ IsFiniteSet(B)
                         /\ Cardinality(B) + n * MAXOPBLOCKS <= LOGSIZE
                         /\ Margin /\ n = 1 /\ B # {} => Cardinality(B) + MAXOPBLOCKS < LOGSIZE
<1>a. /\ OpBlocks \in Nat /\ MAXOPBLOCKS \in Nat /\ LOGSIZE \in Nat
      /\ OpBlocks <= MAXOPBLOCKS
  BY SizeAssumption
<1>b. ASSUME NEW B \in SUBSET Blocks, Room(B, outstanding'),
             Entries(lh') \subseteq B \cup W'
      PROVE  RoomInv'
  BY <1>b DEF RoomInv, Margin
<1>1. ASSUME NEW t \in Thread, Call(t) \/ BeginSleep(t)
      PROVE  RoomInv'
  <2>1. InOp' = InOp
    BY <1>1 DEF InOp, Call, BeginSleep, TypeOK
  <2> QED
    BY <1>1, <2>1 DEF RoomInv, Call, BeginSleep, Margin
<1>2. ASSUME NEW t \in Thread, BeginOp(t)
      PROVE  RoomInv'
  <2>1. job = "idle"
    BY <1>2, BeginIdle DEF BeginOp, MayBegin
  <2>2. /\ outstanding' = outstanding + 1 /\ lh' = lh /\ outstanding \in Nat
        /\ Len(lh) + outstanding' * MAXOPBLOCKS <= LOGSIZE
    BY <1>2 DEF BeginOp, MayBegin, TypeOK
  <2>3. IsFiniteSet(Entries(lh)) /\ Cardinality(Entries(lh)) <= Len(lh)
    BY EntriesBound DEF TypeOK
  <2>4. Cardinality(Entries(lh)) \in Nat /\ Len(lh) \in Nat
    BY <2>3, FS_CardinalityType DEF TypeOK
  <2>5. Entries(lh) \in SUBSET Blocks
    BY <2>4 DEF Entries, TypeOK
  <2>6. outstanding' = 1 => Entries(lh) = {}
    BY <2>1, <2>2 DEF JobInv, Entries
  <2>7. outstanding' * MAXOPBLOCKS \in Nat
    BY <1>a, <2>2
  <2>8. Room(Entries(lh), outstanding')
    BY <1>a, <2>2, <2>3, <2>4, <2>6, <2>7
  <2> QED
    BY <1>b, <2>2, <2>5, <2>8
<1>3. ASSUME NEW t \in Thread, NEW b \in Blocks, NEW v \in Values, LogWrite(t, b, v)
      PROVE  RoomInv'
  <2>1. InOp' = InOp
    BY <1>3 DEF InOp, LogWrite, TypeOK
  <2>2. \A u \in Thread : wrote[u] \subseteq wrote'[u]
    BY <1>3 DEF LogWrite, TypeOK
  <2>3. W \subseteq W'
    BY <2>1, <2>2 DEF InOp
  <2> QED
    BY <1>3, <2>3 DEF RoomInv, LogWrite, Margin
<1>4. ASSUME NEW t \in Thread, LogRecord(t)
      PROVE  RoomInv'
  <2>1. InOp' = InOp /\ t \in InOp
    BY <1>4 DEF InOp, LogRecord, TypeOK
  <2>2. blk[t] \in W /\ blk[t] \in Blocks
    BY <1>4, <2>1 DEF LogRecord, CallInv, TypeOK
  <2>3. Entries(lh') = Entries(lh) \cup {blk[t]}
    BY Zenon, <1>4, <2>2, RecordEntries DEF LogRecord, TypeOK, JobInv
  <2> QED
    BY <1>4, <2>1, <2>2, <2>3 DEF RoomInv, LogRecord, Margin
<1>5. ASSUME NEW t \in Thread, EndOp(t)
      PROVE  RoomInv'
  <2>1. t \in InOp /\ InOp' = InOp \ {t} /\ wrote[t] \in SUBSET Blocks
    BY <1>5 DEF InOp, EndOp, Woken, TypeOK
  <2>2. job = "idle"
    BY <2>1, CallActive
  <2>3. PICK B \in SUBSET Blocks : Room(B, outstanding) /\ Entries(lh) \subseteq B \cup W
    BY <2>2 DEF RoomInv
  <2>4. /\ outstanding' = outstanding - 1 /\ outstanding \in Nat /\ outstanding > 1
        /\ lh' = lh
    BY <1>5 DEF EndOp, TypeOK
  <2>5. W \subseteq wrote[t] \cup W'
    BY Zenon, <1>5, <2>1 DEF EndOp, TypeOK, InOp
  <2>6. IsFiniteSet(wrote[t]) /\ Cardinality(wrote[t]) <= OpBlocks
    BY <2>1 DEF CallInv, InOp
  <2> DEFINE c == Cardinality(B)
             w == Cardinality(wrote[t])
             u == Cardinality(B \cup wrote[t])
  <2>7. /\ IsFiniteSet(B \cup wrote[t]) /\ u = c + w - Cardinality(B \cap wrote[t])
        /\ IsFiniteSet(B \cap wrote[t])
    BY Zenon, <2>3, <2>6, FS_Union, FS_Intersection
  <2>8. c \in Nat /\ w \in Nat /\ u \in Nat /\ Cardinality(B \cap wrote[t]) \in Nat
    BY <2>3, <2>6, <2>7, FS_CardinalityType
  <2>9. u <= c + OpBlocks
    BY <1>a, <2>6, <2>7, <2>8
  <2>10. outstanding * MAXOPBLOCKS = outstanding' * MAXOPBLOCKS + MAXOPBLOCKS
    BY <1>a, <2>4
  <2>11. outstanding' * MAXOPBLOCKS \in Nat /\ outstanding * MAXOPBLOCKS \in Nat
    BY <1>a, <2>4
  <2>12. c + outstanding * MAXOPBLOCKS <= LOGSIZE
    BY <2>3
  <2>13. u + outstanding' * MAXOPBLOCKS <= LOGSIZE
    <3> HIDE DEF c, u, w
    <3> QED
      BY <1>a, <2>8, <2>9, <2>10, <2>11, <2>12
  <2>14. Margin /\ outstanding' = 1 => u + MAXOPBLOCKS < LOGSIZE
    <3> HIDE DEF c, u, w
    <3>1. Margin => OpBlocks < MAXOPBLOCKS
      BY DEF Margin
    <3>2. outstanding' = 1 => outstanding' * MAXOPBLOCKS = MAXOPBLOCKS
      BY <1>a
    <3> QED
      BY <1>a, <2>8, <2>9, <2>10, <2>11, <2>12, <3>1, <3>2
  <2>15. Room(B \cup wrote[t], outstanding')
    BY <2>7, <2>13, <2>14
  <2>16. Entries(lh') \subseteq (B \cup wrote[t]) \cup W'
    BY <2>3, <2>4, <2>5
  <2>17. B \cup wrote[t] \in SUBSET Blocks
    BY <2>1
  <2> HIDE DEF Room, W
  <2> QED
    BY <1>b, <2>15, <2>16, <2>17
<1>6. CASE \/ \E t \in Thread : EndOpCommit(t)
           \/ WriteLog \/ WriteHead \/ InstallTrans \/ ReadHead \/ Crash
  BY <1>6 DEF EndOpCommit, WriteLog, WriteHead, InstallTrans, ReadHead, Crash, RoomInv
<1>7. CASE ClearHead \/ \E t \in Thread : EndCommit(t)
  <2>1. lh' = <<>> /\ outstanding' = 0
    BY Zenon, <1>7 DEF ClearHead, EndCommit, JobInv, CallInv
  <2>2. IsFiniteSet({}) /\ Cardinality({}) = 0
    BY FS_EmptySet
  <2>3. Room({}, outstanding')
    BY <1>a, <2>1, <2>2
  <2>4. Entries(lh') = {}
    BY <2>1 DEF Entries
  <2> QED
    BY <1>b, <2>3, <2>4
<1>8. CASE \E b \in Blocks : Evict(b)
  <2>1. UNCHANGED <<lh, outstanding, job, pc, wrote>>
    BY <1>8 DEF Evict, thread
  <2> QED
    BY <2>1 DEF RoomInv, InOp, Margin
<1> QED
  BY <1>1, <1>2, <1>3, <1>4, <1>5, <1>6, <1>7, <1>8 DEF Next, Commit
\* Each step keeps the log and its header in order.
LEMMA JobStep ==
  ASSUME TypeOK, CallInv, JobInv, Next, TypeOK', CallInv', RoomInv'
  PROVE  JobInv'
<1>1. CASE \E t \in Thread :
             \/ Call(t) \/ BeginOp(t) \/ BeginSleep(t) \/ EndOp(t)
             \/ \E b \in Blocks, v \in Values : LogWrite(t, b, v)
  <2>1. UNCHANGED <<lh, head, job, tail>>
    BY Zenon, <1>1 DEF Call, BeginOp, BeginSleep, EndOp, LogWrite, disk
  <2>2. outstanding' = 0 => outstanding = 0
    <3>1. \/ outstanding' = outstanding
          \/ outstanding' = outstanding + 1
          \/ outstanding > 1 /\ outstanding' = outstanding - 1
      BY Zenon, <1>1 DEF Call, BeginOp, BeginSleep, EndOp, LogWrite
    <3>2. outstanding \in Nat
      BY DEF TypeOK
    <3> QED
      BY <3>1, <3>2
  <2> QED
    BY <2>1, <2>2 DEF JobInv
<1>2. ASSUME NEW t \in Thread, LogRecord(t)
      PROVE  JobInv'
  <2>1. t \in InOp'
    BY <1>2 DEF InOp, LogRecord, TypeOK
  <2>2. outstanding' >= 1 /\ job' = "idle"
    <3>1. Cardinality(InOp') # 0
      BY <2>1, FS_EmptySet DEF CallInv
    <3> QED
      BY <3>1 DEF CallInv, TypeOK
  <2>3. blk[t] \in Blocks
    BY <1>2 DEF LogRecord, CallInv, TypeOK
  <2>4. Distinct(lh')
    BY Zenon, <1>2, <2>3, RecordEntries DEF LogRecord, TypeOK, JobInv
  <2>5. PICK B \in SUBSET Blocks :
          /\ IsFiniteSet(B) /\ Cardinality(B) + outstanding' * MAXOPBLOCKS <= LOGSIZE
          /\ Margin /\ outstanding' = 1 /\ B # {} => Cardinality(B) + MAXOPBLOCKS < LOGSIZE
          /\ Entries(lh') \subseteq B \cup UNION {wrote'[u] : u \in InOp'}
    BY <2>2 DEF RoomInv, Margin
  <2>6. /\ IsFiniteSet(InOp') /\ Cardinality(InOp') = outstanding'
        /\ \A u \in InOp' : IsFiniteSet(wrote'[u]) /\ Cardinality(wrote'[u]) <= OpBlocks
    BY DEF CallInv, InOp
  <2>7. lh' \in Seq(Blocks)
    BY DEF TypeOK
  <2>8. Len(lh') <= LOGSIZE
    BY <2>4, <2>5, <2>6, <2>7, Fits
  <2>9. head' = head /\ job' = job
    BY <1>2 DEF LogRecord, disk
  <2> QED
    BY <2>2, <2>4, <2>8, <2>9 DEF JobInv
<1>3. ASSUME NEW t \in Thread, EndOpCommit(t)
      PROVE  JobInv'
  <2>1. t \in InOp
    BY <1>3 DEF InOp, EndOpCommit
  <2>2. job = "idle"
    BY <2>1, CallActive
  <2>3. lh' = lh /\ head' = head /\ tail' = 1
    BY <1>3 DEF EndOpCommit, disk
  <2>4. lh # <<>> => 1 \in 1..Len(lh)
    BY DEF TypeOK
  <2>5. job' \in {"write_log", "finish"} /\ (job' = "finish" <=> lh = <<>>)
    BY <1>3 DEF EndOpCommit
  <2> QED
    BY <2>2, <2>3, <2>4, <2>5 DEF JobInv
<1>4. CASE WriteLog
  <2>1. lh # <<>> => 1 \in 1..Len(lh)
    BY DEF TypeOK
  <2>2. tail \in 1..Len(lh) /\ head = <<>>
    BY <1>4 DEF WriteLog, JobInv
  <2>3. lh' = lh /\ head' = head /\ tail' \in 1..Len(lh)
    BY <1>4, <2>1, <2>2 DEF WriteLog, TypeOK
  <2>4. job' = "write_log" \/ (job' = "write_head" /\ tail' = 1)
    BY <1>4 DEF WriteLog
  <2> QED
    BY <2>2, <2>3, <2>4 DEF JobInv
<1>5. CASE WriteHead
  BY <1>5 DEF WriteHead, JobInv
<1>6. CASE ReadHead
  <2>1. head # <<>> => 1 \in 1..Len(head)
    BY DEF TypeOK
  <2>2. lh' = head /\ head' = head /\ tail' = 1
    BY <1>6 DEF ReadHead, disk
  <2>3. job' \in {"boot_clear", "boot_install"} /\ (job' = "boot_install" => head # <<>>)
    BY <1>6 DEF ReadHead
  <2> QED
    BY <2>1, <2>2, <2>3 DEF JobInv
<1>7. CASE InstallTrans
  <2>1. tail \in 1..Len(lh) /\ head = lh
    BY <1>7 DEF InstallTrans, JobInv
  <2>2. lh' = lh /\ head' = head
    BY <1>7 DEF InstallTrans
  <2>3. \/ job' \in {"clear", "boot_clear"}
        \/ job' \in {"install", "boot_install"} /\ tail' \in 1..Len(lh)
    BY <1>7, <2>1 DEF InstallTrans, TypeOK
  <2> QED
    BY <2>1, <2>2, <2>3 DEF JobInv
<1>8. CASE ClearHead
  <2>1. lh' = <<>> /\ head' = <<>> /\ job' \in {"finish", "idle"}
    BY <1>8 DEF ClearHead
  <2>2. Len(<<>>) = 0 /\ 0 <= LOGSIZE
    BY SizeAssumption
  <2> QED
    BY <2>1, <2>2 DEF JobInv, Distinct
<1>9. CASE \E t \in Thread : EndCommit(t)
  BY <1>9 DEF EndCommit, JobInv, disk
<1>10. CASE \E b \in Blocks : Evict(b)
  BY <1>10 DEF Evict, JobInv, disk
<1>11. CASE Crash
  <2>1. Len(<<>>) = 0 /\ 0 <= LOGSIZE
    BY SizeAssumption
  <2>2. lh' = <<>> /\ head' = head /\ job' = "boot"
    BY <1>11 DEF Crash, disk
  <2> QED
    BY <2>1, <2>2 DEF JobInv, Distinct
<1> QED
  BY <1>1, <1>2, <1>3, <1>4, <1>5, <1>6, <1>7, <1>8, <1>9, <1>10, <1>11 DEF Next, Commit
-----------------------------------------------------------------------------
\* Each step of a call keeps the contents where they belong.
LEMMA ContentCalls ==
  ASSUME TypeOK, CallInv, JobInv, ContentInv,
         NEW t \in Thread,
         \/ Call(t) \/ BeginOp(t) \/ BeginSleep(t) \/ LogRecord(t)
         \/ EndOp(t) \/ EndOpCommit(t) \/ EndCommit(t)
         \/ \E b \in Blocks, v \in Values : LogWrite(t, b, v)
  PROVE  ContentInv'
<1> USE DEF Recovering
<1>1. CASE Call(t) \/ BeginOp(t) \/ BeginSleep(t) \/ EndOp(t)
  <2>1. UNCHANGED <<home, logdata, cache, dirty, lh, blk, job, tail>>
    BY <1>1 DEF Call, BeginOp, BeginSleep, EndOp, disk
  <2> QED
    BY Zenon, <2>1 DEF ContentInv, Entries
<1>2. ASSUME NEW b \in Blocks, NEW v \in Values, LogWrite(t, b, v)
      PROVE  ContentInv'
  <2>1. UNCHANGED <<home, logdata, dirty, lh, job, tail>>
    BY Zenon, <1>2 DEF LogWrite, disk
  <2>2. t \in InOp
    BY <1>2 DEF InOp, LogWrite
  <2>3. job = "idle"
    BY <2>2, CallActive
  <2>4. blk[t] = NoBlock
    BY Zenon, <1>2 DEF LogWrite, CallInv
  <2>5. ASSUME NEW c \in Blocks \ dirty, \A u \in Thread : blk'[u] # c
        PROVE  cache'[c] = home'[c]
    <3>1. c # b
      BY <1>2, <2>5 DEF LogWrite, TypeOK
    <3>2. \A u \in Thread : blk[u] # c
      BY <1>2, <2>4, <2>5, SizeAssumption DEF LogWrite, TypeOK
    <3> QED
      BY Zenon, <1>2, <2>1, <3>1, <3>2 DEF LogWrite, TypeOK, ContentInv
  <2>6. dirty' = Entries(lh')
    BY Zenon, <2>1, <2>3 DEF ContentInv
  <2> QED
    BY Zenon, <2>1, <2>3, <2>5, <2>6 DEF ContentInv
<1>3. CASE LogRecord(t)
  <2>1. UNCHANGED <<home, logdata, cache, job, tail>>
    BY <1>3 DEF LogRecord, disk
  <2>2. t \in InOp
    BY <1>3 DEF InOp, LogRecord
  <2>3. job = "idle"
    BY <2>2, CallActive
  <2>4. blk[t] \in Blocks
    BY Zenon, <1>3 DEF LogRecord, CallInv, TypeOK
  <2>5. Entries(lh') = Entries(lh) \cup {blk[t]}
    BY Zenon, <1>3, <2>4, RecordEntries DEF LogRecord, TypeOK, JobInv
  <2>6. dirty' = Entries(lh')
    BY Zenon, <1>3, <2>3, <2>5 DEF ContentInv, LogRecord
  <2>7. ASSUME NEW c \in Blocks \ dirty', \A u \in Thread : blk'[u] # c
        PROVE  cache'[c] = home'[c]
    <3>1. c \notin dirty /\ c # blk[t]
      BY Zenon, <1>3, <2>7 DEF LogRecord
    <3>2. \A u \in Thread : blk[u] # c
      BY Zenon, <1>3, <2>7, <3>1 DEF LogRecord, TypeOK
    <3> QED
      BY Zenon, <2>1, <3>1, <3>2 DEF ContentInv
  <2> QED
    BY Zenon, <2>1, <2>3, <2>6, <2>7 DEF ContentInv
<1>4. CASE EndOpCommit(t)
  <2>1. UNCHANGED <<home, logdata, cache, dirty, lh, blk>> /\ tail' = 1
    BY <1>4 DEF EndOpCommit, disk
  <2>2. t \in InOp
    BY <1>4 DEF InOp, EndOpCommit
  <2>3. job = "idle"
    BY <2>2, CallActive
  <2>4. job' \in {"write_log", "finish"}
    BY <1>4 DEF EndOpCommit
  <2>5. dirty' = Entries(lh')
    BY <2>1, <2>3 DEF ContentInv
  <2>6. \A b \in Blocks \ dirty' : (\A u \in Thread : blk'[u] # b) => cache'[b] = home'[b]
    BY <2>1 DEF ContentInv
  <2>7. 1..(tail' - 1) = {}
    BY <2>1
  <2> QED
    BY Zenon, <2>4, <2>5, <2>6, <2>7 DEF ContentInv
<1>5. CASE EndCommit(t)
  <2>1. UNCHANGED <<home, logdata, cache, dirty, lh, blk>> /\ job = "finish" /\ job' = "idle"
    BY <1>5 DEF EndCommit, disk
  <2>2. dirty' = Entries(lh')
    BY Zenon, <2>1 DEF ContentInv
  <2> QED
    BY Zenon, <2>1, <2>2 DEF ContentInv
<1> QED
  BY <1>1, <1>2, <1>3, <1>4, <1>5

\* Each step of commit, of recovery and of the cache, and a crash, too. A buffer
\* that is recycled has what its block has on the disk: nothing is lost.
LEMMA ContentDisk ==
  ASSUME TypeOK, CallInv, JobInv, ContentInv,
         Commit \/ (\E b \in Blocks : Evict(b)) \/ Crash
  PROVE  ContentInv'
<1> USE DEF Recovering
<1>1. CASE WriteLog
  <2>1. /\ UNCHANGED <<home, cache, dirty, lh, blk>> /\ job = "write_log"
        /\ job' \in {"write_log", "write_head"}
    BY Zenon, <1>1 DEF WriteLog, thread
  <2>2. tail \in 1..Len(lh) /\ tail \in 1..LOGSIZE /\ Len(lh) \in Nat
    BY <2>1, SizeAssumption DEF JobInv, TypeOK
  <2>3. \A i \in 1..tail : logdata'[i] = cache[lh[i]]
    <3> SUFFICES ASSUME NEW i \in 1..tail
                 PROVE  logdata'[i] = cache[lh[i]]
      OBVIOUS
    <3>1. i \in 1..LOGSIZE /\ (i = tail \/ i \in 1..(tail - 1))
      BY <2>2, SizeAssumption
    <3>2. logdata'[i] = IF i = tail THEN cache[lh[tail]] ELSE logdata[i]
      BY <1>1, <3>1 DEF WriteLog, TypeOK
    <3> QED
      BY <2>1, <3>1, <3>2 DEF ContentInv
  <2>4. \/ job' = "write_head" /\ tail = Len(lh)
        \/ job' = "write_log" /\ tail' = tail + 1
    BY <1>1 DEF WriteLog
  <2>5. dirty' = Entries(lh')
    BY <2>1 DEF ContentInv
  <2>6. job' = "write_log" => \A i \in 1..(tail' - 1) : logdata'[i] = cache'[lh'[i]]
    BY <2>1, <2>2, <2>3, <2>4
  <2>7. job' = "write_head" => \A i \in 1..Len(lh') : logdata'[i] = cache'[lh'[i]]
    BY <2>1, <2>2, <2>3, <2>4
  <2> QED
    BY Zenon, <2>1, <2>5, <2>6, <2>7 DEF ContentInv
<1>2. CASE WriteHead
  <2>1. /\ UNCHANGED <<home, logdata, cache, dirty, lh, blk>> /\ job = "write_head"
        /\ job' = "install" /\ tail = 1 /\ tail' = 1
    BY <1>2 DEF WriteHead, thread, JobInv
  <2>2. dirty' = {lh'[i] : i \in tail'..Len(lh')}
    BY <2>1 DEF ContentInv, Entries
  <2> QED
    BY <2>1, <2>2 DEF ContentInv
<1>3. CASE ReadHead
  <2>1. /\ UNCHANGED <<home, logdata, cache, dirty, blk>> /\ job = "boot"
        /\ lh' = head /\ tail' = 1 /\ job' \in {"boot_clear", "boot_install"}
        /\ job' = "boot_clear" => head = <<>>
    BY <1>3 DEF ReadHead, thread, disk
  <2> QED
    BY <2>1 DEF ContentInv
<1>4. CASE InstallTrans
  <2>1. /\ UNCHANGED <<logdata, lh, blk>> /\ job \in {"install", "boot_install"}
        /\ dirty' = dirty \ {lh[tail]}
    BY <1>4 DEF InstallTrans, thread
  <2>2. tail \in 1..Len(lh) /\ tail \in 1..LOGSIZE /\ Len(lh) \in Nat
    BY <2>1, SizeAssumption DEF JobInv, TypeOK
  <2>3. \A b \in Blocks : /\ cache'[b] = IF b = lh[tail] THEN logdata[tail] ELSE cache[b]
                          /\ home'[b] = IF b = lh[tail] THEN logdata[tail] ELSE home[b]
    BY <1>4 DEF InstallTrans, TypeOK
  <2>4. \A i \in 1..Len(lh) : lh[i] \in Blocks /\ (lh[i] = lh[tail] => i = tail)
    BY <2>2 DEF TypeOK, JobInv, Distinct
  <2>5. \A b \in Blocks \ dirty' : (\A u \in Thread : blk'[u] # b) => cache'[b] = home'[b]
    <3> SUFFICES ASSUME NEW b \in Blocks \ dirty', \A u \in Thread : blk'[u] # b
                 PROVE  cache'[b] = home'[b]
      OBVIOUS
    <3>1. CASE b = lh[tail]
      BY <2>3, <3>1
    <3>2. CASE b # lh[tail]
      <4>1. b \in Blocks \ dirty /\ \A u \in Thread : blk[u] # b
        BY <2>1, <3>2
      <4>2. cache[b] = home[b]
        BY <4>1 DEF ContentInv
      <4> QED
        BY <2>3, <3>2, <4>2
    <3> QED
      BY <3>1, <3>2
  <2>6. \/ tail = Len(lh) /\ job' = (IF job = "install" THEN "clear" ELSE "boot_clear")
        \/ tail # Len(lh) /\ job' = job /\ tail' = tail + 1
    BY <1>4 DEF InstallTrans
  <2>7. CASE job = "install"
    <3>1. \A i \in 1..Len(lh) : logdata[i] = cache[lh[i]]
      BY <2>7 DEF ContentInv
    <3>2. \A i \in 1..Len(lh) : logdata'[i] = cache'[lh[i]]
      BY <2>1, <2>3, <2>4, <3>1
    <3>3. dirty = {lh[i] : i \in tail..Len(lh)}
      BY Zenon, <2>7 DEF ContentInv
    <3>4. dirty' = {lh[i] : i \in (tail + 1)..Len(lh)}
      <4>1. \A i \in tail..Len(lh) :
              i \in 1..Len(lh) /\ (i = tail \/ i \in (tail + 1)..Len(lh))
        BY <2>2
      <4>2. \A i \in (tail + 1)..Len(lh) :
              i \in tail..Len(lh) /\ i \in 1..Len(lh) /\ i # tail
        BY <2>2
      <4> QED
        BY <2>1, <2>4, <3>3, <4>1, <4>2
    <3>5. tail = Len(lh) => dirty' = {}
      BY <2>2, <3>4
    <3>6. CASE tail = Len(lh) /\ job' = "clear"
      BY <2>1, <2>5, <3>2, <3>5, <3>6 DEF ContentInv
    <3>7. CASE job' = "install" /\ tail' = tail + 1
      <4>1. dirty' = {lh'[i] : i \in tail'..Len(lh')}
        BY <2>1, <3>4, <3>7
      <4> QED
        BY <2>1, <2>5, <3>2, <3>7, <4>1 DEF ContentInv
    <3> QED
      BY <2>6, <2>7, <3>6, <3>7
  <2>8. CASE job = "boot_install"
    <3>1. dirty' = {}
      BY <2>1, <2>8 DEF ContentInv
    <3>2. \A i \in 1..tail : logdata'[i] = cache'[lh[i]]
      <4> SUFFICES ASSUME NEW i \in 1..tail
                   PROVE  logdata'[i] = cache'[lh[i]]
        OBVIOUS
      <4>1. i \in 1..Len(lh) /\ (i = tail \/ i \in 1..(tail - 1))
        BY <2>2
      <4>2. i # tail => logdata[i] = cache[lh[i]]
        BY <2>8, <4>1 DEF ContentInv
      <4> QED
        BY <2>1, <2>3, <2>4, <4>1, <4>2
    <3>3. job' \in {"boot_install", "boot_clear"}
      BY <2>6, <2>8
    <3>4. job' = "boot_install" => \A i \in 1..(tail' - 1) : logdata'[i] = cache'[lh'[i]]
      BY <2>1, <2>2, <2>6, <2>8, <3>2
    <3>5. job' = "boot_clear" => \A i \in 1..Len(lh') : logdata'[i] = cache'[lh'[i]]
      BY <2>1, <2>2, <2>6, <2>8, <3>2
    <3> QED
      BY <2>5, <3>1, <3>3, <3>4, <3>5 DEF ContentInv
  <2> QED
    BY <2>1, <2>7, <2>8
<1>5. CASE ClearHead
  <2>1. /\ UNCHANGED <<home, logdata, cache, dirty, blk>> /\ job \in {"clear", "boot_clear"}
        /\ lh' = <<>> /\ job' \in {"finish", "idle"}
    BY <1>5 DEF ClearHead, thread
  <2>2. dirty = {}
    BY <2>1 DEF ContentInv
  <2>3. Entries(lh') = {}
    BY <2>1 DEF Entries
  <2> QED
    BY <2>1, <2>2, <2>3 DEF ContentInv
<1>6. ASSUME NEW b \in Blocks, Evict(b)
      PROVE  ContentInv'
  <2>1. UNCHANGED <<home, logdata, dirty, lh, blk, job, tail>>
    BY Zenon, <1>6 DEF Evict, thread, disk
  <2>2. cache[b] = home[b]
    BY Zenon, <1>6 DEF Evict, ContentInv
  <2>3. cache' = cache
    BY <1>6, <2>2 DEF Evict, TypeOK
  <2> QED
    BY Zenon, <2>1, <2>3 DEF ContentInv, Entries
<1>7. CASE Crash
  <2>1. job' = "boot" /\ dirty' = {} /\ cache' = home /\ home' = home
    BY <1>7 DEF Crash, disk
  <2> QED
    BY <2>1 DEF ContentInv
<1> QED
  BY <1>1, <1>2, <1>3, <1>4, <1>5, <1>6, <1>7 DEF Commit
\* log_write and end_op never panic where calls keep below their reservation.
LEMMA PanicStep ==
  ASSUME LogInv, Next, Margin
  PROVE  ~panicked'
<1>1. ~panicked
  BY DEF LogInv
<1>2. ASSUME NEW t \in Thread, NEW b \in Blocks, NEW v \in Values, LogWrite(t, b, v)
      PROVE  ~panicked'
  <2>1. t \in InOp /\ InOp # {}
    BY <1>2 DEF InOp, LogWrite
  <2>2. outstanding >= 1 /\ job = "idle"
    BY <2>1, CallActive DEF LogInv
  <2>3. PICK B \in SUBSET Blocks :
          /\ IsFiniteSet(B) /\ Cardinality(B) + outstanding * MAXOPBLOCKS <= LOGSIZE
          /\ Margin /\ outstanding = 1 /\ B # {} => Cardinality(B) + MAXOPBLOCKS < LOGSIZE
          /\ Entries(lh) \subseteq B \cup UNION {wrote[u] : u \in InOp}
    BY <2>2 DEF LogInv, RoomInv
  <2>4. /\ IsFiniteSet(InOp) /\ Cardinality(InOp) = outstanding
        /\ \A u \in InOp : IsFiniteSet(wrote[u]) /\ Cardinality(wrote[u]) <= OpBlocks
    BY DEF LogInv, CallInv, InOp
  <2>5. lh \in Seq(Blocks) /\ Distinct(lh)
    BY DEF LogInv, TypeOK, JobInv
  <2>6. Len(lh) < LOGSIZE /\ Len(lh) + 1 < nlog
    <3>1. /\ Cardinality(B) + Cardinality(InOp) * MAXOPBLOCKS <= LOGSIZE
          /\ Margin /\ Cardinality(InOp) = 1 /\ B # {} =>
               Cardinality(B) + MAXOPBLOCKS < LOGSIZE
      BY <2>3, <2>4
    <3>2. Margin /\ InOp # {} => Len(lh) < LOGSIZE /\ Len(lh) + 1 < nlog
      <4>1. /\ IsFiniteSet(B) /\ Entries(lh) \subseteq B \cup UNION {wrote[u] : u \in InOp}
            /\ IsFiniteSet(InOp)
            /\ \A u \in InOp : IsFiniteSet(wrote[u]) /\ Cardinality(wrote[u]) <= OpBlocks
        BY <2>3, <2>4
      <4> QED
        BY ONLY <2>5, <3>1, <4>1, Fits
    <3> QED
      BY <2>1, <3>2
  <2>7. Len(lh) \in Nat /\ LOGSIZE \in Nat /\ nlog \in Nat /\ outstanding \in Nat
    BY SizeAssumption DEF LogInv, TypeOK
  <2>8. ~(Len(lh) >= LOGSIZE) /\ ~(Len(lh) + 1 >= nlog) /\ ~(outstanding < 1)
    BY <2>2, <2>6, <2>7
  <2> QED
    BY <1>2, <2>8, Zenon DEF LogWrite
<1>3. ASSUME NEW t \in Thread, EndOp(t) \/ EndOpCommit(t)
      PROVE  ~panicked'
  <2>1. t \in InOp
    BY <1>3 DEF InOp, EndOp, EndOpCommit
  <2>2. ~committing
    BY <2>1, CallActive DEF LogInv
  <2> QED
    BY <1>3, <2>2 DEF EndOp, EndOpCommit
<1>4. CASE \/ \E t \in Thread : Call(t) \/ BeginOp(t) \/ BeginSleep(t) \/ LogRecord(t) \/ EndCommit(t)
           \/ Commit \/ (\E b \in Blocks : Evict(b)) \/ Crash
  <2>1. panicked' = panicked
    BY Zenon, <1>4 DEF Call, BeginOp, BeginSleep, LogRecord, EndCommit, Commit, WriteLog, WriteHead,
                InstallTrans, ClearHead, ReadHead, Evict, Crash
  <2> QED
    BY <1>1, <2>1
<1> QED
  BY <1>2, <1>3, <1>4 DEF Next

\* The invariant holds when the machine boots on a fresh disk.
LEMMA LogInit == Init => LogInv
<1> SUFFICES ASSUME Init PROVE LogInv
  OBVIOUS
<1>1. TypeOK
  <2>1. PICK v \in Values : home = [b \in Blocks |-> v] /\ logdata = [i \in 1..LOGSIZE |-> v]
    BY DEF Init
  <2>2. home \in [Blocks -> Values] /\ logdata \in [1..LOGSIZE -> Values]
    BY <2>1
  <2>3. head \in Seq(Blocks) /\ lh \in Seq(Blocks)
    BY NoElements DEF Init
  <2> QED
    BY Zenon, <2>2, <2>3 DEF Init, TypeOK, Jobs
<1>2. CallInv
  <2>1. InOp = {}
    BY DEF Init, InOp
  <2>2. IsFiniteSet({}) /\ Cardinality({}) = 0
    BY FS_EmptySet
  <2> QED
    BY <2>1, <2>2, SizeAssumption DEF Init, CallInv, CommitJobs, Recovering
<1>3. JobInv
  <2>1. Len(<<>>) = 0 /\ 0 <= LOGSIZE
    BY SizeAssumption
  <2> QED
    BY <2>1 DEF Init, JobInv, Distinct
<1>4. RoomInv /\ ContentInv /\ ~panicked
  BY DEF Init, RoomInv, ContentInv, Recovering
<1> QED
  BY <1>1, <1>2, <1>3, <1>4 DEF LogInv

\* Every step of the program keeps the invariant.
LEMMA LogInductive == LogInv /\ [Next]_vars => LogInv'
<1> SUFFICES ASSUME LogInv, [Next]_vars PROVE LogInv'
  OBVIOUS
<1>1. CASE Next
  <2>1. TypeOK' /\ CallInv'
    BY <1>1, TypeStep, CallStep DEF LogInv
  <2>2. RoomInv'
    BY <1>1, RoomStep DEF LogInv
  <2>3. JobInv'
    BY <1>1, <2>1, <2>2, JobStep DEF LogInv
  <2>4. ContentInv'
    BY <1>1, ContentCalls, ContentDisk DEF LogInv, Next
  <2>5. (Margin => ~panicked)'
    BY <1>1, PanicStep DEF Margin
  <2> QED
    BY <2>1, <2>2, <2>3, <2>4, <2>5 DEF LogInv
<1>2. CASE UNCHANGED vars
  <2> USE <1>2 DEF vars, LogInv, InOp, Recovering
  <2>1. TypeOK' /\ CallInv'
    BY DEF TypeOK, CallInv
  <2>2. JobInv' /\ ContentInv'
    <3>1. JobInv'
      BY DEF JobInv
    <3>2. ContentInv'
      BY DEF ContentInv
    <3> QED
      BY <3>1, <3>2
  <2>3. RoomInv'
    <3>1. UNCHANGED <<lh, outstanding, job, pc, wrote>>
      OBVIOUS
    <3> QED
      BY Zenon, <3>1 DEF RoomInv, Margin
  <2> QED
    BY <2>1, <2>2, <2>3 DEF Margin
<1> QED
  BY <1>1, <1>2

\* The invariant always holds.
LEMMA LogAlways == Spec => []LogInv
BY LogInit, LogInductive, PTL DEF Spec

\* Whatever the number of calls that run together and the size of the log: if a
\* call writes fewer blocks than begin_op reserves for it (and the log holds more
\* than one reservation), log_write never finds the log full and end_op never a
\* commit under way, so neither panics.
THEOREM ReservationsSuffice == Margin => (Spec => []NoPanic)
<1> SUFFICES ASSUME Margin PROVE Spec => []NoPanic
  OBVIOUS
<1>1. LogInv => NoPanic
  BY DEF LogInv, NoPanic
<1> QED
  BY <1>1, LogAlways, PTL

\* When the last end_op has returned and no call is active, every block is at home
\* on the disk as the calls left it, the log is empty and no buffer is pinned.
THEOREM QuietLogIsInstalled == Spec => []QuietIsDurable
<1>1. LogInv => QuietIsDurable
  <2> SUFFICES ASSUME LogInv, job = "idle", outstanding = 0
               PROVE  home = cache /\ head = <<>> /\ dirty = {}
    BY DEF QuietIsDurable
  <2>1. lh = <<>> /\ head = <<>>
    BY DEF LogInv, JobInv
  <2>2. dirty = {}
    <3>1. Entries(lh) = {}
      BY <2>1 DEF Entries
    <3>2. dirty = Entries(lh)
      BY DEF LogInv, ContentInv, Recovering
    <3> QED
      BY <3>1, <3>2
  <2>3. InOp = {}
    BY FS_EmptySet DEF LogInv, CallInv
  <2>4. \A u \in Thread : blk[u] = NoBlock
    BY <2>3 DEF LogInv, CallInv, InOp
  <2>5. \A b \in Blocks : cache[b] = home[b]
    BY <2>2, <2>4, SizeAssumption DEF LogInv, ContentInv
  <2>6. cache = home
    BY <2>5 DEF LogInv, TypeOK
  <2> QED
    BY <2>1, <2>2, <2>6
<1> QED
  BY <1>1, LogAlways, PTL

-----------------------------------------------------------------------------
(***************************************************************************)
(* The log implements AtomicDisk: wherever the machine crashes, recovery   *)
(* finds all of a transaction or nothing of it.                            *)
(***************************************************************************)

\* The disk that recovery makes of a header, log blocks and home blocks.
Replayed(h, l, d) ==
  [b \in Blocks |-> IF \E i \in DOMAIN h : h[i] = b
                     THEN l[CHOOSE i \in DOMAIN h : h[i] = b] ELSE d[b]]

\* What recovery reads: the log block of each block of the header, and of any
\* other block its home location.
LEMMA ReplayedValue ==
  ASSUME NEW h \in Seq(Blocks), Distinct(h), NEW l, NEW d
  PROVE  /\ \A i \in 1..Len(h) : Replayed(h, l, d)[h[i]] = l[i]
         /\ \A b \in Blocks \ Entries(h) : Replayed(h, l, d)[b] = d[b]
<1>1. DOMAIN h = 1..Len(h)
  OBVIOUS
<1>2. ASSUME NEW i \in 1..Len(h)
      PROVE  Replayed(h, l, d)[h[i]] = l[i]
  <2>1. h[i] \in Blocks
    OBVIOUS
  <2>2. (CHOOSE j \in DOMAIN h : h[j] = h[i]) = i
    BY <1>1 DEF Distinct
  <2> QED
    BY Zenon, <1>1, <2>1, <2>2 DEF Replayed
<1>3. ASSUME NEW b \in Blocks \ Entries(h)
      PROVE  Replayed(h, l, d)[b] = d[b]
  BY <1>1 DEF Entries, Replayed
<1> QED
  BY <1>2, <1>3

\* The disk after recovery, block by block.
LEMMA RecoveredNow ==
  ASSUME TypeOK, JobInv
  PROVE  /\ \A i \in 1..Len(head) : Recovered[head[i]] = logdata[i]
         /\ \A b \in Blocks \ Entries(head) : Recovered[b] = home[b]
<1>1. head \in Seq(Blocks) /\ Distinct(head)
  BY DEF TypeOK, JobInv
<1>2. Recovered = Replayed(head, logdata, home)
  BY DEF Recovered, Replayed
<1> QED
  BY <1>1, <1>2, ReplayedValue

\* The disk after recovery from a crash in the next state.
LEMMA RecoveredNext ==
  ASSUME TypeOK', JobInv'
  PROVE  /\ \A i \in 1..Len(head') : Recovered'[head'[i]] = logdata'[i]
         /\ \A b \in Blocks \ Entries(head') : Recovered'[b] = home'[b]
<1>1. head' \in Seq(Blocks) /\ Distinct(head')
  BY DEF TypeOK, JobInv
<1>2. Recovered' = Replayed(head', logdata', home')
  BY DEF Recovered, Replayed
<1> QED
  BY <1>1, <1>2, ReplayedValue

\* With an empty header recovery leaves the disk as it is.
LEMMA RecoveredHome ==
  ASSUME TypeOK, head = <<>>
  PROVE  Recovered = home
BY DEF Recovered, TypeOK

\* The same after the step.
LEMMA RecoveredHomeNext ==
  ASSUME TypeOK', head' = <<>>
  PROVE  Recovered' = home'
BY DEF Recovered, TypeOK

\* Two outcomes of recovery are the same function when they agree on each block.
LEMMA RecoveredEqual ==
  ASSUME NEW f \in [Blocks -> Values]
  PROVE  /\ (\A b \in Blocks : Recovered[b] = f[b]) => Recovered = f
         /\ (\A b \in Blocks : Recovered'[b] = f[b]) => Recovered' = f
         /\ (\A b \in Blocks : Recovered'[b] = Recovered[b]) => Recovered' = Recovered
BY DEF Recovered

\* AtomicDisk's view of the blocks in memory.
Volatile == IF Recovering THEN Recovered ELSE cache

\* The steps of calls are the abstract disk's Begin, Write and End, or invisible.
LEMMA CallsRefine ==
  ASSUME LogInv, NEW t \in Thread,
         \/ Call(t) \/ BeginOp(t) \/ BeginSleep(t) \/ LogRecord(t)
         \/ EndOp(t) \/ EndOpCommit(t) \/ EndCommit(t)
         \/ \E b \in Blocks, v \in Values : LogWrite(t, b, v)
  PROVE  D!Next \/ UNCHANGED <<Recovered, Volatile, outstanding>>
<1> USE DEF LogInv
<1>1. Recovered' = Recovered
  <2>1. UNCHANGED <<home, logdata, head>>
    BY Zenon DEF Call, BeginOp, BeginSleep, LogRecord, EndOp, EndOpCommit, EndCommit, LogWrite, disk
  <2> QED
    BY <2>1 DEF Recovered
<1>2. CASE Call(t) \/ BeginSleep(t) \/ LogRecord(t) \/ EndCommit(t)
  <2>1. cache' = cache /\ outstanding' = outstanding
    BY Zenon, <1>2 DEF Call, BeginSleep, LogRecord, EndCommit
  <2>2. Recovering' = Recovering
    <3>1. CASE Call(t)
      BY <3>1 DEF Call, Recovering
    <3>2. CASE BeginSleep(t)
      BY <3>2 DEF BeginSleep, Recovering
    <3>3. CASE LogRecord(t)
      BY <3>3 DEF LogRecord, Recovering
    <3>4. CASE EndCommit(t)
      BY <3>4 DEF EndCommit, Recovering
    <3> QED
      BY <1>2, <3>1, <3>2, <3>3, <3>4
  <2> QED
    BY <1>1, <2>1, <2>2 DEF Volatile
<1>3. CASE BeginOp(t)
  <2>1. cache' = cache /\ outstanding' = outstanding + 1 /\ Recovering' = Recovering
    BY <1>3 DEF BeginOp, Recovering
  <2> QED
    BY <1>1, <2>1 DEF D!Next, D!Begin
<1>4. ASSUME NEW b \in Blocks, NEW v \in Values, LogWrite(t, b, v)
      PROVE  D!Next
  <2>1. t \in InOp
    BY <1>4 DEF InOp, LogWrite
  <2>2. outstanding >= 1 /\ job = "idle"
    BY <2>1, CallActive
  <2>3. ~Recovering /\ ~Recovering'
    BY Zenon, <1>4, <2>2 DEF LogWrite, Recovering
  <2>4. outstanding > 0 /\ outstanding' = outstanding /\ cache' = [cache EXCEPT ![b] = v]
    BY <1>4, <2>2 DEF LogWrite, TypeOK
  <2>5. D!Write(b, v)
    BY <1>1, <2>3, <2>4 DEF D!Write
  <2> QED
    BY <2>5 DEF D!Next
<1>5. CASE EndOp(t) \/ EndOpCommit(t)
  <2>1. t \in InOp
    BY <1>5 DEF InOp, EndOp, EndOpCommit
  <2>2. outstanding >= 1 /\ job = "idle"
    BY <2>1, CallActive
  <2>3. ~Recovering /\ ~Recovering'
    BY <1>5, <2>2 DEF EndOp, EndOpCommit, Recovering
  <2>4. outstanding > 0 /\ outstanding' = outstanding - 1 /\ cache' = cache
    BY <1>5, <2>2 DEF EndOp, EndOpCommit, TypeOK
  <2> QED
    BY <1>1, <2>3, <2>4 DEF D!Next, D!End
<1> QED
  BY <1>2, <1>3, <1>4, <1>5

\* Of commit and recovery one write is visible, the header's: it is the abstract
\* disk's Commit. Copying to the log, installing and clearing the header are not.
LEMMA CommitRefines ==
  ASSUME LogInv, LogInv', Commit
  PROVE  D!Next \/ UNCHANGED <<Recovered, Volatile, outstanding>>
<1> USE DEF LogInv, Recovering
<1>1. outstanding' = outstanding
  BY DEF Commit, WriteLog, WriteHead, InstallTrans, ClearHead, ReadHead
<1>2. CASE WriteLog
  <2>1. /\ head = <<>> /\ head' = <<>> /\ home' = home /\ cache' = cache
        /\ ~Recovering /\ ~Recovering'
    BY <1>2 DEF WriteLog, JobInv
  <2>2. Recovered' = Recovered
    BY <2>1, RecoveredHome, RecoveredHomeNext
  <2> QED
    BY <1>1, <2>1, <2>2 DEF Volatile
<1>3. CASE WriteHead
  <2>1. /\ head' = lh /\ UNCHANGED <<home, logdata, cache, lh>>
        /\ job = "write_head" /\ job' = "install"
    BY <1>3 DEF WriteHead
  <2>2. outstanding = 0
    BY <2>1 DEF CallInv
  <2>3. \A u \in Thread : blk[u] = NoBlock
    <3>1. InOp = {}
      BY Zenon, <2>2, FS_EmptySet DEF CallInv
    <3> QED
      BY Zenon, <3>1 DEF CallInv, InOp
  <2>4. \A i \in 1..Len(lh) : Recovered'[lh[i]] = cache[lh[i]]
    <3>1. \A i \in 1..Len(lh) : logdata[i] = cache[lh[i]]
      BY <2>1 DEF ContentInv
    <3>2. \A i \in 1..Len(lh) : Recovered'[lh[i]] = logdata[i]
      BY <2>1, RecoveredNext
    <3> QED
      BY ONLY <3>1, <3>2
  <2>5. \A b \in Blocks \ Entries(lh) : Recovered'[b] = cache[b]
    <3>1. dirty = Entries(lh)
      BY Zenon, <2>1 DEF ContentInv
    <3>2. \A b \in Blocks \ Entries(lh) : Recovered'[b] = home[b]
      BY Zenon, <2>1, RecoveredNext
    <3> QED
      BY <2>3, <3>1, <3>2, SizeAssumption DEF ContentInv
  <2>6. \A b \in Blocks : Recovered'[b] = cache[b]
    BY Zenon, <2>4, <2>5 DEF Entries
  <2>7. Recovered' = cache
    BY Zenon, <2>6, RecoveredEqual DEF TypeOK
  <2> QED
    BY <1>1, <2>1, <2>2, <2>7 DEF D!Next, D!Commit
<1>4. CASE ReadHead
  <2>1. UNCHANGED <<home, logdata, head>> /\ Recovering /\ Recovering'
    BY <1>4 DEF ReadHead, disk
  <2>2. Recovered' = Recovered
    BY <2>1 DEF Recovered
  <2> QED
    BY <1>1, <2>1, <2>2 DEF Volatile
<1>5. CASE InstallTrans
  <2>1. UNCHANGED <<logdata, head, lh>> /\ job \in {"install", "boot_install"} /\ head = lh
    BY <1>5 DEF InstallTrans, JobInv
  <2>2. tail \in 1..Len(lh) /\ lh[tail] \in Blocks /\ lh[tail] \in Entries(lh)
    BY <2>1 DEF JobInv, TypeOK, Entries
  <2>3. \A b \in Blocks \ Entries(lh) : home'[b] = home[b]
    BY <1>5, <2>2 DEF InstallTrans, TypeOK
  <2>4. \A b \in Blocks : Recovered'[b] = Recovered[b]
    <3>1. \A i \in 1..Len(lh) : Recovered'[lh[i]] = Recovered[lh[i]]
      <4>1. \A i \in 1..Len(lh) : Recovered[lh[i]] = logdata[i]
        BY Zenon, <2>1, RecoveredNow
      <4>2. \A i \in 1..Len(lh) : Recovered'[lh[i]] = logdata[i]
        BY Zenon, <2>1, RecoveredNext
      <4> QED
        BY <4>1, <4>2
    <3>2. \A b \in Blocks \ Entries(lh) : Recovered'[b] = Recovered[b]
      BY Zenon, <2>1, <2>3, RecoveredNow, RecoveredNext
    <3> QED
      BY <3>1, <3>2 DEF Entries
  <2>5. Recovered' = Recovered
    BY <2>4 DEF Recovered
  <2>6. CASE job = "boot_install"
    <3>1. Recovering /\ Recovering'
      BY <1>5, <2>6 DEF InstallTrans
    <3> QED
      BY <1>1, <2>5, <3>1 DEF Volatile
  <2>7. CASE job = "install"
    <3>1. ~Recovering /\ ~Recovering'
      BY <1>5, <2>7 DEF InstallTrans
    <3>2. cache[lh[tail]] = logdata[tail]
      BY <2>2, <2>7 DEF ContentInv
    <3>3. cache' = cache
      BY <1>5, <3>2 DEF InstallTrans, TypeOK
    <3> QED
      BY <1>1, <2>5, <3>1, <3>3 DEF Volatile
  <2> QED
    BY <2>1, <2>6, <2>7
<1>6. CASE ClearHead
  <2>1. /\ UNCHANGED <<home, logdata, cache>> /\ head' = <<>> /\ head = lh
        /\ job \in {"clear", "boot_clear"} /\ ~Recovering'
    BY <1>6 DEF ClearHead, JobInv
  <2>2. dirty = {} /\ outstanding = 0
    BY Zenon, <2>1 DEF ContentInv, CallInv
  <2>3. \A u \in Thread : blk[u] = NoBlock
    <3>1. InOp = {}
      BY Zenon, <2>2, FS_EmptySet DEF CallInv
    <3> QED
      BY Zenon, <3>1 DEF CallInv, InOp
  <2>4. \A b \in Blocks : cache[b] = home[b]
    BY <2>2, <2>3, SizeAssumption DEF ContentInv
  <2>5. \A i \in 1..Len(lh) : Recovered[lh[i]] = cache[lh[i]]
    <3>1. \A i \in 1..Len(lh) : logdata[i] = cache[lh[i]]
      BY <2>1 DEF ContentInv
    <3>2. \A i \in 1..Len(lh) : Recovered[lh[i]] = logdata[i]
      BY <2>1, RecoveredNow
    <3> QED
      BY ONLY <3>1, <3>2
  <2>6. \A b \in Blocks \ Entries(lh) : Recovered[b] = cache[b]
    BY Zenon, <2>1, <2>4, RecoveredNow
  <2>7. \A b \in Blocks : Recovered[b] = cache[b]
    BY Zenon, <2>5, <2>6 DEF Entries
  <2>8. Recovered = cache /\ cache = home
    BY <2>4, <2>7, RecoveredEqual DEF TypeOK
  <2>9. Recovered' = home
    BY <2>1, RecoveredHomeNext
  <2> QED
    BY <1>1, <2>1, <2>8, <2>9 DEF Volatile
<1> QED
  BY <1>2, <1>3, <1>4, <1>5, <1>6 DEF Commit

\* A recycled buffer is read back unchanged, and a crash is the abstract one.
LEMMA CrashRefines ==
  ASSUME LogInv, (\E b \in Blocks : Evict(b)) \/ Crash
  PROVE  D!Next \/ UNCHANGED <<Recovered, Volatile, outstanding>>
<1> USE DEF LogInv, Recovering
<1>1. Recovered' = Recovered
  <2>1. UNCHANGED <<home, logdata, head>>
    BY DEF Evict, Crash, disk
  <2> QED
    BY <2>1 DEF Recovered
<1>2. ASSUME NEW b \in Blocks, Evict(b)
      PROVE  UNCHANGED <<Recovered, Volatile, outstanding>>
  <2>1. outstanding' = outstanding /\ job' = job
    BY <1>2 DEF Evict
  <2>2. cache[b] = home[b]
    BY Zenon, <1>2 DEF Evict, ContentInv
  <2>3. cache' = cache
    BY <1>2, <2>2 DEF Evict, TypeOK
  <2> QED
    BY <1>1, <2>1, <2>3 DEF Volatile
<1>3. CASE Crash
  <2>1. Recovering' /\ outstanding' = 0
    BY <1>3 DEF Crash
  <2> QED
    BY <1>1, <2>1 DEF D!Next, D!Crash
<1> QED
  BY <1>2, <1>3

\* Every step of the log is a step of the abstract disk or invisible to it.
LEMMA LogStep ==
  ASSUME LogInv, LogInv', [Next]_vars
  PROVE  [D!Next]_<<Recovered, Volatile, outstanding>>
<1>1. CASE Next
  BY <1>1, CallsRefine, CommitRefines, CrashRefines DEF Next
<1>2. CASE UNCHANGED vars
  BY <1>2 DEF vars, Recovered, Volatile, Recovering
<1> QED
  BY <1>1, <1>2

\* Group commit is atomic for every number of processes, blocks and log entries:
\* the writes of the calls of a transaction reach the disk together, when none of
\* them is active, or not at all, wherever the machine crashes, during commit and
\* during recovery too.
THEOREM CrashSafety == Spec => ImplementsAtomicDisk
<1>1. Init => D!Init
  <2> SUFFICES ASSUME Init PROVE D!Init
    OBVIOUS
  <2>1. TypeOK /\ head = <<>> /\ outstanding = 0 /\ Recovering
    BY LogInit DEF LogInv, Init, Recovering
  <2>2. Recovered = home /\ home \in [Blocks -> Values]
    BY <2>1, RecoveredHome DEF TypeOK
  <2> QED
    BY <2>1, <2>2 DEF D!Init
<1>2. LogInv /\ LogInv' /\ [Next]_vars =>
        [D!Next]_<<Recovered, IF Recovering THEN Recovered ELSE cache, outstanding>>
  BY LogStep DEF Volatile
<1> QED
  BY <1>1, <1>2, LogAlways, PTL DEF Spec, ImplementsAtomicDisk, D!Spec
=============================================================================
