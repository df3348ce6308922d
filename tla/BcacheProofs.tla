---------------------------- MODULE BcacheProofs ----------------------------
(***************************************************************************)
(* Proofs about Bcache: the cache is coherent with the disk, and as long   *)
(* as the log leaves a buffer to every thread none is ever missing.        *)
(***************************************************************************)
EXTENDS Bcache, FiniteSetTheorems, TLAPS

Inv == TypeOK /\ UseInv /\ QueueInv /\ DataInv

-----------------------------------------------------------------------------
(***************************************************************************)
(* What an assignment to the fields of one buffer leaves.                  *)
(***************************************************************************)
\* The reference count of a buffer.
LEMMA SetRefcnt ==
  ASSUME NEW F \in [Buf -> BufType], NEW i \in Buf, NEW n \in Nat,
         NEW G, G = [F EXCEPT ![i].refcnt = n]
  PROVE  /\ G \in [Buf -> BufType]
         /\ \A j \in Buf \ {i} : G[j] = F[j]
         /\ G[i].blockno = F[i].blockno /\ G[i].valid = F[i].valid
         /\ G[i].dirty = F[i].dirty /\ G[i].refcnt = n
         /\ G[i].fresh = F[i].fresh /\ G[i].owner = F[i].owner
BY DEF BufType

\* The owner of its sleep lock.
LEMMA SetOwner ==
  ASSUME NEW F \in [Buf -> BufType], NEW i \in Buf, NEW o \in Thread \cup {None},
         NEW G, G = [F EXCEPT ![i].owner = o]
  PROVE  /\ G \in [Buf -> BufType]
         /\ \A j \in Buf \ {i} : G[j] = F[j]
         /\ G[i].blockno = F[i].blockno /\ G[i].valid = F[i].valid
         /\ G[i].dirty = F[i].dirty /\ G[i].refcnt = F[i].refcnt
         /\ G[i].fresh = F[i].fresh /\ G[i].owner = o
BY DEF BufType

\* A recycled buffer is for another block.
LEMMA SetBlock ==
  ASSUME NEW F \in [Buf -> BufType], NEW i \in Buf, NEW blk \in Block,
         NEW G, G = [F EXCEPT ![i] = [blockno |-> blk, valid |-> FALSE, dirty |-> FALSE,
                                      refcnt |-> 1, fresh |-> FALSE, owner |-> @.owner]]
  PROVE  /\ G \in [Buf -> BufType]
         /\ \A j \in Buf \ {i} : G[j] = F[j]
         /\ G[i].blockno = blk /\ G[i].valid = FALSE
         /\ G[i].dirty = FALSE /\ G[i].refcnt = 1
         /\ G[i].fresh = FALSE /\ G[i].owner = F[i].owner
BY DEF BufType

-----------------------------------------------------------------------------
(***************************************************************************)
(* The threads that use a buffer.                                          *)
(***************************************************************************)
\* A set of threads has a size, which says whether it is empty.
LEMMA ThreadSets ==
  ASSUME NEW S \in SUBSET Thread
  PROVE  IsFiniteSet(S) /\ Cardinality(S) \in Nat /\ (Cardinality(S) = 0 <=> S = {})
BY SizesAssumption, FS_Subset, FS_CardinalityType, FS_EmptySet

\* bget adds a thread to the users of one buffer and leaves those of the others.
LEMMA UserAdded ==
  ASSUME TypeOK, NEW t \in Thread, NEW i \in Buf, b[t] = None, b' = [b EXCEPT ![t] = i]
  PROVE  /\ Cardinality(Users(i)') = Cardinality(Users(i)) + 1
         /\ \A j \in Buf \ {i} : Users(j)' = Users(j)
<1>1. None \notin Buf
  BY NoneAssumption
<1>2. Users(i)' = Users(i) \cup {t} /\ t \notin Users(i)
  BY <1>1 DEF Users, TypeOK
<1>3. IsFiniteSet(Users(i))
  BY ThreadSets DEF Users
<1>4. Cardinality(Users(i)') = Cardinality(Users(i)) + 1
  BY <1>2, <1>3, FS_AddElement
<1>0. \A j \in Buf \ {i} : Users(j)' = Users(j)
  BY <1>1 DEF Users, TypeOK
<1> QED
  BY <1>4, <1>0

\* brelse takes it away again.
LEMMA UserGone ==
  ASSUME TypeOK, NEW t \in Thread, b[t] \in Buf, b' = [b EXCEPT ![t] = None]
  PROVE  /\ Cardinality(Users(b[t])) \in Nat \ {0}
         /\ Cardinality({u \in Thread : b'[u] = b[t]}) = Cardinality(Users(b[t])) - 1
         /\ \A j \in Buf \ {b[t]} : Users(j)' = Users(j)
<1>1. None \notin Buf
  BY NoneAssumption
<1>2. {u \in Thread : b'[u] = b[t]} = Users(b[t]) \ {t} /\ t \in Users(b[t])
  BY <1>1 DEF Users, TypeOK
<1>3. IsFiniteSet(Users(b[t])) /\ Cardinality(Users(b[t])) \in Nat \ {0}
  BY <1>2, ThreadSets DEF Users
<1>4. Cardinality({u \in Thread : b'[u] = b[t]}) = Cardinality(Users(b[t])) - 1
  BY <1>2, <1>3, FS_RemoveElement
<1>0. \A j \in Buf \ {b[t]} : Users(j)' = Users(j)
  BY <1>1 DEF Users, TypeOK
<1> QED
  BY <1>3, <1>4, <1>0

-----------------------------------------------------------------------------
(***************************************************************************)
(* The invariant holds initially.                                          *)
(***************************************************************************)
\* What binit leaves satisfies the invariant.
LEMMA InitInv == Init => Inv
<1> SUFFICES ASSUME Init PROVE Inv
  OBVIOUS
<1>1. TypeOK
  <2>1. \A i \in Buf : NBUF + 1 - i \in Buf /\ NBUF + 1 - (NBUF + 1 - i) = i
    BY SizesAssumption DEF Buf
  <2> QED
    BY <2>1 DEF Init, TypeOK, BufType, Labels
<1>2. UseInv
  <2>1. \A i \in Buf : Users(i) = {}
    BY NoneAssumption DEF Init, Users
  <2> QED
    BY <2>1, FS_EmptySet, NoneAssumption DEF Init, UseInv, Owning
<1>3. QueueInv
  BY DEF Init, QueueInv
<1>4. DataInv
  BY DEF Init, DataInv
<1> QED
  BY <1>1, <1>2, <1>3, <1>4 DEF Inv

\* UseInv for one thread.
Uses(u) == /\ b[u] = None <=> pc[u] \in {"out", "panic"}
           /\ b[u] # None => buf[b[u]].blockno # None
           /\ pc[u] \in Owning => buf[b[u]].owner = u
           /\ \A i \in Buf : buf[i].owner = u => b[u] = i /\ pc[u] \in Owning

\* A thread whose buffer keeps its owner and a block is not disturbed by a step
\* of another.
LEMMA UseFrame ==
  ASSUME Inv, NEW u \in Thread, pc'[u] = pc[u], b'[u] = b[u],
         \A j \in Buf : buf'[j].owner = u <=> buf[j].owner = u,
         \A j \in Buf : buf[j].blockno # None => buf'[j].blockno # None
  PROVE  Uses(u)'
<1>1. Uses(u)
  BY DEF Inv, UseInv, Uses
<1>2. b[u] # None => b[u] \in Buf
  BY DEF Inv, TypeOK
<1>3. pc[u] \in Owning => b[u] # None
  BY <1>1 DEF Uses, Owning
<1>4. b'[u] # None => buf'[b'[u]].blockno # None
  BY <1>1, <1>2 DEF Uses
<1>5. pc'[u] \in Owning => buf'[b'[u]].owner = u
  BY <1>1, <1>2, <1>3 DEF Uses
<1>6. \A j \in Buf : buf'[j].owner = u => b'[u] = j /\ pc'[u] \in Owning
  BY <1>1 DEF Uses
<1> QED
  BY <1>1, <1>4, <1>5, <1>6 DEF Uses

\* A step of a thread outside iderw's sleep that leaves the data of the buffers
\* of the other threads leaves the queue as it should be.
LEMMA QueueFrame ==
  ASSUME Inv, NEW t \in Thread, UNCHANGED <<idequeue, device>>,
         pc[t] # "asleep", pc'[t] # "asleep",
         \A u \in Thread \ {t} : pc'[u] = pc[u] /\ b'[u] = b[u],
         \A u \in Thread \ {t} : pc[u] \in Owning =>
            /\ buf'[b[u]].blockno = buf[b[u]].blockno /\ buf'[b[u]].valid = buf[b[u]].valid
            /\ buf'[b[u]].dirty = buf[b[u]].dirty /\ buf'[b[u]].fresh = buf[b[u]].fresh,
         pc'[t] = "iderw" => ~Done(b[t])', pc'[t] = "wait" => Done(b[t])',
         pc'[t] = "have" => buf'[b'[t]].valid
  PROVE  QueueInv'
<1>1. /\ \A k, l \in DOMAIN idequeue : idequeue[k] = idequeue[l] => k = l
      /\ \A k \in DOMAIN idequeue : \E u \in Thread \ {t} : b[u] = idequeue[k] /\ pc[u] = "asleep"
      /\ \A u \in Thread : pc[u] = "asleep" => \E k \in DOMAIN idequeue : idequeue[k] = b[u]
      /\ device = IF idequeue = <<>> THEN None ELSE idestart(Head(idequeue))
  BY DEF Inv, QueueInv
<1>2. \A u \in Thread \ {t} : pc[u] \in Owning =>
            (Done(b[u])' <=> Done(b[u])) /\ idestart(b[u])' = idestart(b[u])
  BY DEF Done, idestart
<1>3. device' = IF idequeue' = <<>> THEN None ELSE idestart(Head(idequeue))'
  <2>1. CASE idequeue = <<>>
    BY <1>1, <2>1
  <2>2. CASE idequeue # <<>>
    <3>1. 1 \in DOMAIN idequeue /\ Head(idequeue) = idequeue[1]
      BY <2>2 DEF Inv, TypeOK
    <3>2. PICK u \in Thread \ {t} : b[u] = idequeue[1] /\ pc[u] = "asleep"
      BY <3>1, <1>1
    <3>3. idestart(b[u])' = idestart(Head(idequeue))
      BY <1>2, <3>1, <3>2 DEF Owning
    <3> QED
      BY <1>1, <2>2, <3>1, <3>2, <3>3 DEF idestart
  <2> QED
    BY <2>1, <2>2
<1>4. ASSUME NEW u \in Thread
      PROVE  /\ pc'[u] = "asleep" => \E k \in DOMAIN idequeue : idequeue[k] = b'[u]
             /\ pc'[u] \in {"iderw", "asleep"} => ~Done(b[u])'
             /\ pc'[u] = "wait" => Done(b[u])'
             /\ pc'[u] = "have" => buf'[b'[u]].valid
  <2>1. CASE u = t
    BY <2>1
  <2>2. CASE u # t
    BY <2>2, <1>1, <1>2 DEF Inv, QueueInv, Owning, Done
  <2> QED
    BY <2>1, <2>2
<1>5. \A k \in DOMAIN idequeue : \E u \in Thread : b'[u] = idequeue[k] /\ pc'[u] = "asleep"
  BY <1>1
<1> QED
  BY <1>1, <1>3, <1>4, <1>5 DEF QueueInv

\* What a thread that does not own a buffer knows.
LEMMA NotOwner ==
  ASSUME Inv, NEW t \in Thread, pc[t] \notin Owning
  PROVE  \A j \in Buf : buf[j].owner # t
BY DEF Inv, UseInv

\* A buffer with one owner at most: a step of t that sets the owner of b[t], and
\* nothing else, between None and t.
LEMMA OwnerStep ==
  ASSUME Inv, NEW t \in Thread, b[t] \in Buf, NEW o \in {t, None},
         My(t).owner \in {t, None}, buf' = [buf EXCEPT ![b[t]].owner = o],
         UNCHANGED <<mru, b, idequeue, device, disk, bad>>,
         NEW l \in Labels, pc' = [pc EXCEPT ![t] = l], pc[t] # "asleep", pc[t] # "out",
         pc[t] # "panic", l \notin {"asleep", "out", "panic", "wait"},
         l \in Owning <=> o = t,
         l = "iderw" => ~My(t).valid, l = "have" => My(t).valid
  PROVE  Inv'
<1>1. None # t
  BY NoneAssumption
<1>2. /\ buf' \in [Buf -> BufType]
      /\ \A j \in Buf : /\ buf'[j].blockno = buf[j].blockno /\ buf'[j].valid = buf[j].valid
                        /\ buf'[j].dirty = buf[j].dirty /\ buf'[j].fresh = buf[j].fresh
                        /\ buf'[j].refcnt = buf[j].refcnt
      /\ buf'[b[t]].owner = o
      /\ \A j \in Buf \ {b[t]} : buf'[j].owner = buf[j].owner
  <2>1. buf \in [Buf -> BufType] /\ o \in Thread \cup {None}
    BY DEF Inv, TypeOK
  <2>2. /\ buf' \in [Buf -> BufType]
        /\ \A j \in Buf \ {b[t]} : buf'[j] = buf[j]
        /\ buf'[b[t]].blockno = buf[b[t]].blockno /\ buf'[b[t]].valid = buf[b[t]].valid
        /\ buf'[b[t]].dirty = buf[b[t]].dirty /\ buf'[b[t]].refcnt = buf[b[t]].refcnt
        /\ buf'[b[t]].fresh = buf[b[t]].fresh /\ buf'[b[t]].owner = o
    <3> DEFINE i == b[t]
    <3>1. i \in Buf /\ buf' = [buf EXCEPT ![i].owner = o]
      OBVIOUS
    <3> HIDE DEF i
    <3>2. /\ buf' \in [Buf -> BufType]
          /\ \A j \in Buf \ {i} : buf'[j] = buf[j]
          /\ buf'[i].blockno = buf[i].blockno /\ buf'[i].valid = buf[i].valid
          /\ buf'[i].dirty = buf[i].dirty /\ buf'[i].refcnt = buf[i].refcnt
          /\ buf'[i].fresh = buf[i].fresh /\ buf'[i].owner = o
      BY ONLY <2>1, <3>1, SetOwner
    <3> QED
      BY <3>2 DEF i
  <2> QED
    BY <2>2
<1>3. pc'[t] = l /\ \A u \in Thread \ {t} : pc'[u] = pc[u] /\ b'[u] = b[u]
  BY DEF Inv, TypeOK
<1>4. TypeOK'
  BY <1>2 DEF Inv, TypeOK
<1>5. UseInv'
  <2>1. \A j \in Buf : buf'[j].refcnt = Cardinality(Users(j)')
    BY <1>2 DEF Inv, UseInv, Users
  <2>2. ASSUME NEW u \in Thread
        PROVE  Uses(u)'
    <3>1. CASE u = t
      <4>1. \A j \in Buf \ {b[t]} : buf'[j].owner # t
        BY <1>2 DEF Inv, UseInv
      <4>2. buf'[b[t]].blockno # None /\ b[t] # None
        BY <1>2, NoneAssumption DEF Inv, UseInv
      <4> QED
        BY <3>1, <4>1, <4>2, <1>1, <1>2, <1>3 DEF Uses
    <3>2. CASE u # t
      <4>1. \A j \in Buf : buf'[j].owner = u <=> buf[j].owner = u
        BY <3>2, <1>2, NoneAssumption DEF My
      <4> QED
        BY <3>2, <4>1, <1>2, <1>3, UseFrame
    <3> QED
      BY <3>1, <3>2
  <2> QED
    BY <2>1, <2>2 DEF UseInv, Uses
<1>6. QueueInv'
  <2>1. \A u \in Thread \ {t} : pc[u] \in Owning =>
            /\ buf'[b[u]].blockno = buf[b[u]].blockno /\ buf'[b[u]].valid = buf[b[u]].valid
            /\ buf'[b[u]].dirty = buf[b[u]].dirty /\ buf'[b[u]].fresh = buf[b[u]].fresh
    BY <1>2 DEF Inv, UseInv, TypeOK, Owning
  <2>2. /\ pc'[t] = "iderw" => ~Done(b[t])'
        /\ pc'[t] = "have" => buf'[b'[t]].valid
        /\ pc'[t] # "asleep" /\ pc'[t] # "wait"
    BY <1>2, <1>3 DEF Done, My
  <2> QED
    BY <2>1, <2>2, <1>3, QueueFrame
<1>7. DataInv'
  BY <1>2 DEF Inv, DataInv
<1> QED
  BY <1>4, <1>5, <1>6, <1>7 DEF Inv

-----------------------------------------------------------------------------
(***************************************************************************)
(* bget and bread                                                          *)
(***************************************************************************)
\* A hit changes a count and the thread that is counted.
LEMMA BgetHitInv ==
  ASSUME Inv, NEW t \in Thread, NEW blk \in Block, BgetHit(t, blk)
  PROVE  Inv'
<1>1. PICK i \in Buf : /\ buf[i].blockno = blk
                        /\ buf' = [buf EXCEPT ![i].refcnt = @ + 1]
                        /\ b' = [b EXCEPT ![t] = i]
  BY DEF BgetHit, Inv, TypeOK
<1>2. UNCHANGED <<mru, idequeue, device, disk, bad>> /\ pc[t] = "out"
      /\ pc' = [pc EXCEPT ![t] = "lock"]
  BY DEF BgetHit, diskVars, Goto
<1>3. b[t] = None /\ i # None /\ blk # None
  BY <1>2, NoneAssumption DEF Inv, UseInv
<1>4. /\ buf' \in [Buf -> BufType]
      /\ \A j \in Buf : /\ buf'[j].blockno = buf[j].blockno /\ buf'[j].valid = buf[j].valid
                        /\ buf'[j].dirty = buf[j].dirty /\ buf'[j].fresh = buf[j].fresh
                        /\ buf'[j].owner = buf[j].owner
      /\ buf'[i].refcnt = buf[i].refcnt + 1
      /\ \A j \in Buf \ {i} : buf'[j].refcnt = buf[j].refcnt
  <2>1. buf \in [Buf -> BufType]
    BY DEF Inv, TypeOK
  <2> DEFINE n == buf[i].refcnt + 1
  <2>2. n \in Nat /\ buf' = [buf EXCEPT ![i].refcnt = n]
    BY <1>1, <2>1 DEF BufType
  <2> HIDE DEF n
  <2>3. /\ buf' \in [Buf -> BufType]
        /\ \A j \in Buf \ {i} : buf'[j] = buf[j]
        /\ buf'[i].blockno = buf[i].blockno /\ buf'[i].valid = buf[i].valid
        /\ buf'[i].dirty = buf[i].dirty /\ buf'[i].refcnt = n
        /\ buf'[i].fresh = buf[i].fresh /\ buf'[i].owner = buf[i].owner
    BY <2>1, <2>2, SetRefcnt
  <2> QED
    BY <2>3 DEF n
<1>5. /\ pc'[t] = "lock" /\ b'[t] = i
      /\ \A u \in Thread \ {t} : pc'[u] = pc[u] /\ b'[u] = b[u]
  BY <1>1, <1>2 DEF Inv, TypeOK
<1>6. TypeOK'
  BY <1>1, <1>2, <1>4 DEF Labels, Inv, TypeOK
<1>7. UseInv'
  <2>1. \A j \in Buf : buf'[j].refcnt = Cardinality(Users(j)')
    <3>1. /\ Cardinality(Users(i)') = Cardinality(Users(i)) + 1
          /\ \A j \in Buf \ {i} : Users(j)' = Users(j)
      BY <1>1, <1>3, UserAdded DEF Inv
    <3> QED
      BY <3>1, <1>4 DEF Inv, UseInv
  <2>2. ASSUME NEW u \in Thread
        PROVE  Uses(u)'
    <3>1. CASE u = t
      <4>1. \A j \in Buf : buf[j].owner # t
        BY <1>2 DEF Inv, UseInv, Owning
      <4> QED
        BY <3>1, <4>1, <1>1, <1>3, <1>4, <1>5 DEF Uses, Owning
    <3>2. CASE u # t
      BY <3>2, <1>4, <1>5, UseFrame
    <3> QED
      BY <3>1, <3>2
  <2> QED
    BY <2>1, <2>2 DEF UseInv, Uses
<1>8. QueueInv'
  <2>1. \A u \in Thread \ {t} : pc[u] \in Owning =>
            /\ buf'[b[u]].blockno = buf[b[u]].blockno /\ buf'[b[u]].valid = buf[b[u]].valid
            /\ buf'[b[u]].dirty = buf[b[u]].dirty /\ buf'[b[u]].fresh = buf[b[u]].fresh
    BY <1>4 DEF Inv, UseInv, TypeOK, Owning
  <2> QED
    BY <2>1, <1>2, <1>5, QueueFrame
<1>9. DataInv'
  BY <1>2, <1>4 DEF Inv, DataInv
<1> QED
  BY <1>6, <1>7, <1>8, <1>9 DEF Inv

\* A miss recycles a buffer that nobody uses and that is not dirty, or panics.
LEMMA BgetMissInv ==
  ASSUME Inv, NEW t \in Thread, NEW blk \in Block, BgetMiss(t, blk)
  PROVE  Inv'
<1>1. UNCHANGED <<mru, idequeue, device, disk, bad>> /\ pc[t] = "out" /\ b[t] = None
      /\ blk # None /\ \A j \in Buf : buf[j].blockno # blk
  BY NoneAssumption DEF BgetMiss, diskVars, Inv, UseInv
<1>2. \A j \in Buf : buf[j].owner # t
  BY <1>1, NotOwner DEF Owning
<1>3. CASE \E i \in Buf : Recyclable(i)
  <2>1. PICK i \in Buf :
             /\ Recyclable(i)
             /\ buf' = [buf EXCEPT ![i] = [blockno |-> blk, valid |-> FALSE, dirty |-> FALSE,
                                           refcnt |-> 1, fresh |-> FALSE, owner |-> @.owner]]
             /\ b' = [b EXCEPT ![t] = i]
    BY <1>3 DEF BgetMiss, Inv, TypeOK
  <2>2. pc' = [pc EXCEPT ![t] = "lock"] /\ i # None
    BY <1>3, NoneAssumption DEF BgetMiss, Goto
  <2>3. /\ buf' \in [Buf -> BufType]
        /\ \A j \in Buf \ {i} : buf'[j] = buf[j]
        /\ buf'[i].blockno = blk /\ buf'[i].valid = FALSE
        /\ buf'[i].dirty = FALSE /\ buf'[i].refcnt = 1
        /\ buf'[i].fresh = FALSE /\ buf'[i].owner = buf[i].owner
    <3>1. buf \in [Buf -> BufType]
      BY DEF Inv, TypeOK
    <3> QED
      BY <2>1, <3>1, SetBlock
  <2>4. /\ pc'[t] = "lock" /\ b'[t] = i
        /\ \A u \in Thread \ {t} : pc'[u] = pc[u] /\ b'[u] = b[u]
    BY <2>1, <2>2 DEF Inv, TypeOK
  <2>5. Users(i) = {} /\ buf[i].refcnt = 0 /\ ~buf[i].dirty
    <3>1. Cardinality(Users(i)) = 0 /\ ~buf[i].dirty
      BY <2>1 DEF Recyclable, Inv, UseInv
    <3> QED
      BY <2>1, <3>1, ThreadSets DEF Users, Recyclable
  <2>6. TypeOK'
    BY <1>1, <2>1, <2>2, <2>3 DEF Labels, Inv, TypeOK
  <2>7. UseInv'
    <3>1. \A j \in Buf : buf'[j].refcnt = Cardinality(Users(j)')
      <4>1. /\ Cardinality(Users(i)') = Cardinality(Users(i)) + 1
            /\ \A j \in Buf \ {i} : Users(j)' = Users(j)
        BY <1>1, <2>1, UserAdded DEF Inv
      <4>2. Cardinality(Users(i)) = 0
        BY <2>5, FS_EmptySet
      <4> QED
        BY <4>1, <4>2, <2>3 DEF Inv, UseInv
    <3>2. ASSUME NEW u \in Thread
          PROVE  Uses(u)'
      <4>1. CASE u = t
        BY <4>1, <1>1, <1>2, <2>2, <2>3, <2>4 DEF Uses, Owning
      <4>2. CASE u # t
        BY <4>2, <1>1, <2>3, <2>4, UseFrame
      <4> QED
        BY <4>1, <4>2
    <3> QED
      BY <3>1, <3>2 DEF UseInv, Uses
  <2>8. QueueInv'
    <3>1. \A u \in Thread \ {t} : pc[u] \in Owning => buf'[b[u]] = buf[b[u]]
      <4>1. \A u \in Thread : pc[u] \in Owning => b[u] \in Buf
        BY DEF Inv, UseInv, TypeOK, Owning
      <4> QED
        BY <4>1, <2>3, <2>5 DEF Users
    <3> QED
      BY <3>1, <1>1, <2>4, QueueFrame
  <2>9. DataInv'
    <3>1. \A j, l \in Buf : buf'[j].blockno = buf'[l].blockno /\ buf'[j].blockno # None => j = l
      BY <1>1, <2>3 DEF Inv, DataInv
    <3>2. \A j \in Buf : /\ buf'[j].dirty => buf'[j].valid /\ buf'[j].fresh /\ buf'[j].blockno # None
                         /\ buf'[j].valid /\ j \notin bad' => buf'[j].fresh
      BY <1>1, <2>3 DEF Inv, DataInv
    <3>3. \A x \in Block \ disk' : \E j \in Buf : buf'[j].blockno = x /\ buf'[j].dirty
      BY <1>1, <2>3, <2>5 DEF Inv, DataInv
    <3> QED
      BY <3>1, <3>2, <3>3 DEF DataInv
  <2> QED
    BY <2>6, <2>7, <2>8, <2>9 DEF Inv
<1>4. CASE ~\E i \in Buf : Recyclable(i)
  <2>1. pc' = [pc EXCEPT ![t] = "panic"] /\ UNCHANGED <<buf, b>>
    BY <1>4 DEF BgetMiss, Goto
  <2>2. pc'[t] = "panic" /\ \A u \in Thread \ {t} : pc'[u] = pc[u] /\ b'[u] = b[u]
    BY <2>1 DEF Inv, TypeOK
  <2>3. TypeOK'
    BY <1>1, <2>1 DEF Labels, Inv, TypeOK
  <2>4. UseInv'
    <3>1. ASSUME NEW u \in Thread
          PROVE  Uses(u)'
      <4>1. CASE u = t
        BY <4>1, <1>1, <1>2, <2>1, <2>2 DEF Uses, Owning
      <4>2. CASE u # t
        BY <4>2, <2>1, <2>2, UseFrame
      <4> QED
        BY <4>1, <4>2
    <3>2. \A j \in Buf : buf'[j].refcnt = Cardinality(Users(j)')
      BY <2>1 DEF Inv, UseInv, Users
    <3> QED
      BY <3>1, <3>2 DEF UseInv, Uses
  <2>5. QueueInv'
    BY <1>1, <2>1, <2>2, QueueFrame
  <2>6. DataInv'
    BY <1>1, <2>1 DEF Inv, DataInv
  <2> QED
    BY <2>3, <2>4, <2>5, <2>6 DEF Inv
<1> QED
  BY <1>3, <1>4

\* bread takes the lock of the buffer.
LEMMA BreadInv ==
  ASSUME Inv, NEW t \in Thread, Bread(t)
  PROVE  Inv'
<1> DEFINE l == IF My(t).valid THEN "have" ELSE "iderw"
<1>1. l \in Labels /\ l \in Owning /\ l \notin {"asleep", "out", "panic", "wait"}
      /\ (l = "iderw" => ~My(t).valid) /\ (l = "have" => My(t).valid)
  BY DEF Labels, Owning
<1>2. pc[t] = "lock" /\ My(t).owner = None /\ buf' = [buf EXCEPT ![b[t]].owner = t]
      /\ pc' = [pc EXCEPT ![t] = l] /\ UNCHANGED <<mru, b, idequeue, device, disk, bad>>
  BY DEF Bread, Goto, diskVars
<1> HIDE DEF l
<1>3. b[t] \in Buf
  BY <1>2 DEF Inv, TypeOK, UseInv
<1>4. t \in {t, None} /\ My(t).owner \in {t, None} /\ (l \in Owning <=> t = t)
      /\ pc[t] # "asleep" /\ pc[t] # "out" /\ pc[t] # "panic"
  BY <1>1, <1>2
<1> QED
  BY <1>1, <1>2, <1>3, <1>4, OwnerStep

\* brelse gives it up.
LEMMA BrelseInv ==
  ASSUME Inv, NEW t \in Thread, Brelse(t)
  PROVE  Inv'
<1>1. pc[t] = "have" /\ buf' = [buf EXCEPT ![b[t]].owner = None]
      /\ pc' = [pc EXCEPT ![t] = "unref"] /\ UNCHANGED <<mru, b, idequeue, device, disk, bad>>
  BY DEF Brelse, Goto, diskVars
<1>2. b[t] \in Buf /\ My(t).owner = t /\ None # t
  BY <1>1, NoneAssumption DEF Inv, TypeOK, UseInv, My, Owning
<1>3. "unref" \in Labels /\ "unref" \notin Owning
  BY DEF Labels, Owning
<1> QED
  BY <1>1, <1>2, <1>3, OwnerStep

-----------------------------------------------------------------------------
(***************************************************************************)
(* bwrite, log_write and the end of brelse                                 *)
(***************************************************************************)
\* Both writes leave the last data in a dirty buffer.
LEMMA ModifyInv ==
  ASSUME Inv, NEW t \in Thread, Modify(t), NEW l \in {"iderw", "have"}, Goto(t, l)
  PROVE  Inv'
<1>0. b[t] \in Buf
  BY DEF Modify, Inv, UseInv, TypeOK
<1> PICK i \in Buf : i = b[t]
  BY <1>0
<1>1. /\ pc[t] = "have" /\ disk' = disk \ {buf[i].blockno} /\ bad' = bad \ {i}
      /\ buf' = [buf EXCEPT ![i].fresh = TRUE, ![i].dirty = TRUE]
      /\ UNCHANGED <<mru, b, idequeue, device>> /\ pc' = [pc EXCEPT ![t] = l]
  BY DEF Modify, My, Goto
<1>2. i \in Buf /\ buf[i].owner = t /\ buf[i].valid /\ buf[i].blockno # None
  <2>1. Uses(t) /\ buf[b[t]].valid
    BY <1>1 DEF Inv, UseInv, QueueInv, Uses
  <2> QED
    BY <2>1, <1>0, <1>1, NoneAssumption DEF Uses, Owning
<1>3. /\ buf' \in [Buf -> BufType]
      /\ \A j \in Buf \ {i} : buf'[j] = buf[j]
      /\ buf'[i].blockno = buf[i].blockno /\ buf'[i].valid = buf[i].valid
      /\ buf'[i].dirty = TRUE /\ buf'[i].refcnt = buf[i].refcnt
      /\ buf'[i].fresh = TRUE /\ buf'[i].owner = buf[i].owner
  <2>1. buf \in [Buf -> BufType]
    BY DEF Inv, TypeOK
  <2> QED
    <3>1. i \in Buf /\ buf' = [buf EXCEPT ![i].fresh = TRUE, ![i].dirty = TRUE]
      BY <1>1, <1>2
    <3> QED
      BY ONLY <2>1, <3>1 DEF BufType
<1>4. b'[t] = i /\ pc'[t] = l /\ \A u \in Thread \ {t} : pc'[u] = pc[u] /\ b'[u] = b[u]
  BY <1>1 DEF Inv, TypeOK
<1>5. TypeOK'
  BY <1>1, <1>3 DEF Inv, TypeOK, Labels
<1>6. UseInv'
  <2>1. \A j \in Buf : /\ buf'[j].blockno = buf[j].blockno /\ buf'[j].owner = buf[j].owner
                       /\ buf'[j].refcnt = buf[j].refcnt
    BY <1>3
  <2>2. \A j \in Buf : buf'[j].refcnt = Cardinality(Users(j)')
    <3>1. \A j \in Buf : Users(j)' = Users(j)
      BY <1>1 DEF Users
    <3> QED
      BY <3>1, <2>1 DEF Inv, UseInv
  <2>3. ASSUME NEW u \in Thread
        PROVE  Uses(u)'
    <3>1. CASE u = t
      <4>1. \A j \in Buf \ {i} : buf[j].owner # t
        BY DEF Inv, UseInv
      <4> QED
        BY <3>1, <4>1, <2>1, <1>2, <1>4, NoneAssumption DEF Uses, Owning
    <3>2. CASE u # t
      BY <3>2, <2>1, <1>4, UseFrame
    <3> QED
      BY <3>1, <3>2
  <2> QED
    BY <2>2, <2>3 DEF UseInv, Uses
<1>7. QueueInv'
  <2>1. \A u \in Thread \ {t} : pc[u] \in Owning => buf'[b[u]] = buf[b[u]]
    <3>1. \A u \in Thread \ {t} : pc[u] \in Owning => b[u] \in Buf /\ b[u] # i
      BY <1>2 DEF Inv, UseInv, TypeOK, Owning
    <3> QED
      BY <3>1, <1>3
  <2>2. l = "iderw" => ~Done(b[t])'
    BY <1>3, <1>4 DEF Done
  <2>3. buf'[b'[t]].valid
    BY <1>2, <1>3, <1>4
  <2> QED
    BY <2>1, <2>2, <2>3, <1>1, <1>4, QueueFrame
<1>8. DataInv'
  <2>1. \A j, m \in Buf : buf'[j].blockno = buf'[m].blockno /\ buf'[j].blockno # None => j = m
    BY <1>3 DEF Inv, DataInv
  <2>2. \A j \in Buf : /\ buf'[j].dirty => buf'[j].valid /\ buf'[j].fresh /\ buf'[j].blockno # None
                       /\ buf'[j].valid /\ j \notin bad' => buf'[j].fresh
    BY <1>1, <1>2, <1>3 DEF Inv, DataInv
  <2>3. \A x \in Block \ disk' : \E j \in Buf : buf'[j].blockno = x /\ buf'[j].dirty
    BY <1>1, <1>2, <1>3 DEF Inv, DataInv
  <2> QED
    BY <2>1, <2>2, <2>3 DEF DataInv
<1> QED
  BY <1>5, <1>6, <1>7, <1>8 DEF Inv

\* The list keeps every buffer when one moves to its front.
LEMMA MovedList ==
  ASSUME TypeOK, NEW k \in Buf
  PROVE  MoveToFront(k) \in [Buf -> Buf] /\ \A i \in Buf : \E j \in Buf : MoveToFront(k)[j] = i
<1> DEFINE m == MoveToFront(k)
<1>1. DOMAIN mru = Buf /\ \A j \in Buf : mru[j] \in Buf
  BY DEF TypeOK
<1>2. /\ \A j \in Buf : j # 1 /\ j <= k => j - 1 \in Buf
      /\ \A j \in Buf : j < k => j + 1 \in Buf /\ j + 1 # 1 /\ j + 1 <= k /\ (j + 1) - 1 = j
      /\ \A j \in Buf : j < k \/ j = k \/ (j # 1 /\ ~(j <= k))
      /\ 1 \in Buf
  BY SizesAssumption DEF Buf
<1>3. m \in [Buf -> Buf]
  BY <1>1, <1>2 DEF MoveToFront
<1>4. ASSUME NEW i \in Buf
      PROVE  \E j \in Buf : m[j] = i
  <2>1. PICK j \in Buf : mru[j] = i
    BY DEF TypeOK
  <2>2. CASE j = k
    <3>1. m[1] = mru[k]
      BY <1>1, <1>2 DEF MoveToFront
    <3> QED
      BY <2>1, <2>2, <3>1, <1>2
  <2>3. CASE j < k
    <3>1. m[j+1] = i /\ j + 1 \in Buf
      BY <2>1, <2>3, <1>1, <1>2 DEF MoveToFront
    <3> QED
      BY <3>1
  <2>4. CASE j # 1 /\ ~(j <= k)
    <3>1. m[j] = i
      BY <2>1, <2>4, <1>1 DEF MoveToFront
    <3> QED
      BY <3>1
  <2>5. j < k \/ j = k \/ (j # 1 /\ ~(j <= k))
    BY <1>2
  <2> HIDE DEF m
  <2> QED
    BY <2>2, <2>3, <2>4, <2>5
<1> QED
  BY <1>3, <1>4

\* The last reference gone, the buffer is the most recently used one.
LEMMA BrelseUnrefInv ==
  ASSUME Inv, NEW t \in Thread, BrelseUnref(t)
  PROVE  Inv'
<1>0. pc[t] = "unref" /\ b[t] \in Buf
  BY DEF BrelseUnref, Inv, UseInv, TypeOK
<1> PICK i \in Buf : i = b[t]
  BY <1>0
<1> DEFINE n == buf[i].refcnt - 1
<1>1. /\ pc[t] = "unref" /\ buf' = [buf EXCEPT ![i].refcnt = n]
      /\ \E k \in DOMAIN mru : mru' = MoveToFront(k) \/ mru' = mru
      /\ b' = [b EXCEPT ![t] = None] /\ pc' = [pc EXCEPT ![t] = "out"]
      /\ UNCHANGED <<idequeue, device, disk, bad>>
  BY DEF BrelseUnref, Goto, diskVars
<1>2. i \in Buf
  OBVIOUS
<1>3. /\ Cardinality(Users(i)) \in Nat \ {0}
      /\ Cardinality({u \in Thread : b'[u] = i}) = Cardinality(Users(i)) - 1
      /\ \A j \in Buf \ {i} : Users(j)' = Users(j)
  BY <1>1, <1>2, UserGone DEF Inv
<1>4. /\ n \in Nat /\ n = Cardinality({u \in Thread : b'[u] = i})
  BY <1>2, <1>3 DEF Inv, UseInv
<1> HIDE DEF n
<1>5. /\ buf' \in [Buf -> BufType]
      /\ \A j \in Buf \ {i} : buf'[j] = buf[j]
      /\ buf'[i].blockno = buf[i].blockno /\ buf'[i].valid = buf[i].valid
      /\ buf'[i].dirty = buf[i].dirty /\ buf'[i].refcnt = n
      /\ buf'[i].fresh = buf[i].fresh /\ buf'[i].owner = buf[i].owner
  <2>1. buf \in [Buf -> BufType] /\ buf' = [buf EXCEPT ![i].refcnt = n]
    BY <1>1 DEF Inv, TypeOK
  <2> QED
    BY ONLY <1>2, <1>4, <2>1 DEF BufType
<1>6. \A j \in Buf : /\ buf'[j].blockno = buf[j].blockno /\ buf'[j].valid = buf[j].valid
                     /\ buf'[j].dirty = buf[j].dirty /\ buf'[j].fresh = buf[j].fresh
                     /\ buf'[j].owner = buf[j].owner
  BY <1>5
<1>7. b'[t] = None /\ pc'[t] = "out" /\ \A u \in Thread \ {t} : pc'[u] = pc[u] /\ b'[u] = b[u]
  BY <1>1 DEF Inv, TypeOK
<1>8. TypeOK'
  <2>1. DOMAIN mru = Buf /\ TypeOK
    BY DEF Inv, TypeOK
  <2>2. mru' \in [Buf -> Buf] /\ \A j \in Buf : \E k \in Buf : mru'[k] = j
    <3>1. CASE mru' = mru
      BY <2>1, <3>1 DEF TypeOK
    <3>2. CASE \E k \in Buf : mru' = MoveToFront(k)
      <4>1. PICK k \in Buf : mru' = MoveToFront(k)
        BY <3>2
      <4>2. /\ MoveToFront(k) \in [Buf -> Buf]
            /\ \A j \in Buf : \E x \in Buf : MoveToFront(k)[x] = j
        BY <2>1, MovedList
      <4> QED
        BY <4>1, <4>2
    <3> QED
      BY <1>1, <2>1, <3>1, <3>2
  <2> QED
    BY <1>1, <1>5, <2>1, <2>2 DEF TypeOK, Labels
<1>9. UseInv'
  <2>1. \A j \in Buf : buf'[j].refcnt = Cardinality(Users(j)')
    <3>1. Users(i)' = {u \in Thread : b'[u] = i}
      BY DEF Users
    <3>2. \A j \in Buf \ {i} : buf[j].refcnt = Cardinality(Users(j)')
      BY <1>3 DEF Inv, UseInv
    <3> QED
      BY <3>1, <3>2, <1>4, <1>5
  <2>2. ASSUME NEW u \in Thread
        PROVE  Uses(u)'
    <3>1. CASE u = t
      <4>1. \A j \in Buf : buf[j].owner # t
        BY <1>1, NotOwner DEF Owning
      <4> QED
        BY <3>1, <4>1, <1>6, <1>7 DEF Uses, Owning
    <3>2. CASE u # t
      BY <3>2, <1>6, <1>7, UseFrame
    <3> QED
      BY <3>1, <3>2
  <2> QED
    BY <2>1, <2>2 DEF UseInv, Uses
<1>10. QueueInv'
  <2>1. \A u \in Thread \ {t} : pc[u] \in Owning =>
            /\ buf'[b[u]].blockno = buf[b[u]].blockno /\ buf'[b[u]].valid = buf[b[u]].valid
            /\ buf'[b[u]].dirty = buf[b[u]].dirty /\ buf'[b[u]].fresh = buf[b[u]].fresh
    BY <1>6 DEF Inv, UseInv, TypeOK, Owning
  <2> QED
    BY <2>1, <1>1, <1>7, QueueFrame
<1>11. DataInv'
  BY <1>1, <1>6 DEF Inv, DataInv
<1> QED
  BY <1>8, <1>9, <1>10, <1>11 DEF Inv

-----------------------------------------------------------------------------
(***************************************************************************)
(* iderw and ideintr                                                       *)
(***************************************************************************)
\* A thread that asks for its buffer finds it outside the queue.
LEMMA IderwInv ==
  ASSUME Inv, NEW t \in Thread, Iderw(t)
  PROVE  Inv'
<1>0. pc[t] = "iderw" /\ b[t] \in Buf
  BY DEF Iderw, Inv, UseInv, TypeOK
<1> PICK i \in Buf : i = b[t]
  BY <1>0
<1>1. /\ idequeue' = Append(idequeue, i)
      /\ device' = IF idequeue = <<>> THEN idestart(i) ELSE device
      /\ pc' = [pc EXCEPT ![t] = "asleep"]
      /\ UNCHANGED <<buf, mru, b, disk, bad>>
  BY DEF Iderw, Goto, cacheVars
<1>2. pc'[t] = "asleep" /\ \A u \in Thread \ {t} : pc'[u] = pc[u]
  BY <1>1 DEF Inv, TypeOK
<1>3. \A u \in Thread \ {t} : pc[u] \in Owning => b[u] # i
  BY <1>0 DEF Inv, UseInv, Owning
<1>4. /\ idequeue \in Seq(Buf) /\ Len(idequeue) \in Nat
      /\ DOMAIN idequeue = 1..Len(idequeue)
      /\ DOMAIN idequeue' = 1..(Len(idequeue) + 1)
      /\ \A k \in 1..Len(idequeue) : idequeue'[k] = idequeue[k]
      /\ idequeue'[Len(idequeue) + 1] = i
  BY <1>1 DEF Inv, TypeOK
<1>5. TypeOK'
  <2>1. idestart(i) \in Request
    <3>1. buf[i].blockno \in Block /\ buf[i].dirty \in BOOLEAN /\ buf[i].fresh \in BOOLEAN
      BY <1>0, NoneAssumption DEF Inv, TypeOK, UseInv, BufType
    <3> QED
      BY <3>1 DEF idestart, Request
  <2> QED
    BY <1>1, <2>1 DEF Inv, TypeOK, Labels
<1>6. UseInv'
  <2>1. ASSUME NEW u \in Thread
        PROVE  Uses(u)'
    <3>1. pc'[u] \in {"out", "panic"} <=> pc[u] \in {"out", "panic"}
      BY <1>0, <1>2
    <3>2. pc'[u] \in Owning <=> pc[u] \in Owning
      BY <1>0, <1>2 DEF Owning
    <3> QED
      BY <1>1, <3>1, <3>2 DEF Inv, UseInv, Uses
  <2>2. \A j \in Buf : buf'[j].refcnt = Cardinality(Users(j)')
    BY <1>1 DEF Inv, UseInv, Users
  <2> QED
    BY <2>1, <2>2 DEF UseInv, Uses
<1>7. QueueInv'
  <2>1. \A k \in DOMAIN idequeue : \E u \in Thread \ {t} : b[u] = idequeue[k] /\ pc[u] = "asleep"
    BY <1>0 DEF Inv, QueueInv
  <2>2. \A k \in DOMAIN idequeue : idequeue[k] # i
    BY <2>1, <1>3 DEF Owning
  <2>3. \A k, l \in DOMAIN idequeue' : idequeue'[k] = idequeue'[l] => k = l
    BY <1>4, <2>2 DEF Inv, QueueInv
  <2>4. \A k \in DOMAIN idequeue' : \E u \in Thread : b'[u] = idequeue'[k] /\ pc'[u] = "asleep"
    BY <1>1, <1>2, <1>4, <2>1
  <2>5. ASSUME NEW u \in Thread
        PROVE  /\ pc'[u] = "asleep" => \E k \in DOMAIN idequeue' : idequeue'[k] = b'[u]
               /\ pc'[u] \in {"iderw", "asleep"} => ~Done(b[u])'
               /\ pc'[u] = "wait" => Done(b[u])'
               /\ pc'[u] = "have" => buf'[b'[u]].valid
    <3>1. Done(b[u])' <=> Done(b[u])
      BY <1>1 DEF Done
    <3>2. CASE u = t
      <4>1. ~Done(b[t]) /\ Len(idequeue) + 1 \in DOMAIN idequeue'
        BY <1>0, <1>4 DEF Inv, QueueInv
      <4> QED
        BY <3>1, <3>2, <4>1, <1>1, <1>2, <1>4
    <3>3. CASE u # t
      <4>1. pc[u] = "asleep" => \E k \in DOMAIN idequeue' : idequeue'[k] = b[u]
        BY <1>4 DEF Inv, QueueInv
      <4> QED
        BY <3>1, <3>3, <4>1, <1>1, <1>2 DEF Inv, QueueInv
    <3> QED
      BY <3>2, <3>3
  <2>6. device' = IF idequeue' = <<>> THEN None ELSE idestart(Head(idequeue'))
    BY <1>1, <1>4 DEF Inv, QueueInv
  <2>7. idestart(Head(idequeue))' = idestart(Head(idequeue'))
    BY <1>1 DEF idestart
  <2> QED
    BY <2>3, <2>4, <2>5, <2>6, <2>7 DEF QueueInv
<1>8. DataInv'
  BY <1>1 DEF Inv, DataInv
<1> QED
  BY <1>5, <1>6, <1>7, <1>8 DEF Inv

\* The thread that is woken finds its request done.
LEMMA IderwWaitInv ==
  ASSUME Inv, NEW t \in Thread, IderwWait(t)
  PROVE  Inv'
<1>1. pc[t] = "wait" /\ Done(b[t]) /\ pc' = [pc EXCEPT ![t] = "have"]
      /\ UNCHANGED <<buf, mru, b, idequeue, device, disk, bad>>
  BY DEF IderwWait, Goto, cacheVars, diskVars, Inv, QueueInv
<1>2. pc'[t] = "have" /\ \A u \in Thread \ {t} : pc'[u] = pc[u] /\ b'[u] = b[u]
  BY <1>1 DEF Inv, TypeOK
<1>3. TypeOK'
  BY <1>1 DEF Inv, TypeOK, Labels
<1>4. UseInv'
  <2>1. ASSUME NEW u \in Thread
        PROVE  Uses(u)'
    <3>1. pc'[u] \in {"out", "panic"} <=> pc[u] \in {"out", "panic"}
      BY <1>1, <1>2
    <3>2. pc'[u] \in Owning <=> pc[u] \in Owning
      BY <1>1, <1>2 DEF Owning
    <3> QED
      BY <1>1, <3>1, <3>2 DEF Inv, UseInv, Uses
  <2>2. \A j \in Buf : buf'[j].refcnt = Cardinality(Users(j)')
    BY <1>1 DEF Inv, UseInv, Users
  <2> QED
    BY <2>1, <2>2 DEF UseInv, Uses
<1>5. QueueInv'
  <2>1. buf'[b'[t]].valid
    BY <1>1 DEF Done
  <2> QED
    BY <2>1, <1>1, <1>2, QueueFrame
<1>6. DataInv'
  BY <1>1 DEF Inv, DataInv
<1> QED
  BY <1>3, <1>4, <1>5, <1>6 DEF Inv

\* The first request is done and leaves the queue, and its owner wakes up.
LEMMA IdeintrInv ==
  ASSUME Inv, Ideintr
  PROVE  Inv'
<1>1. /\ idequeue # <<>> /\ idequeue \in Seq(Buf) /\ device = idestart(Head(idequeue))
      /\ Head(idequeue) = idequeue[1] /\ Head(idequeue) \in Buf /\ 1 \in DOMAIN idequeue
  BY DEF Ideintr, Inv, QueueInv, TypeOK
<1> PICK i \in Buf : i = Head(idequeue)
  BY <1>1
<1>2. PICK t \in Thread : b[t] = i /\ pc[t] = "asleep"
  BY <1>1 DEF Inv, QueueInv
<1>3. buf[i].owner = t /\ buf[i].blockno \in Block /\ i # None
  BY <1>2, NoneAssumption DEF Inv, UseInv, TypeOK, BufType, Owning
<1>4. /\ device.write = buf[i].dirty /\ device.blockno = buf[i].blockno
      /\ device.fresh = (buf[i].dirty /\ buf[i].fresh)
  BY <1>1 DEF idestart
<1>5. PICK failed \in BOOLEAN :
        /\ device.write => ~failed
        /\ buf' = [buf EXCEPT ![i].valid = TRUE, ![i].dirty = FALSE,
                              ![i].fresh = IF device.write \/ failed THEN @
                                           ELSE device.blockno \in disk]
        /\ disk' = disk \cup IF device.fresh THEN {device.blockno} ELSE {}
        /\ bad' = IF failed THEN bad \cup {i} ELSE bad \ {i}
        /\ idequeue' = Tail(idequeue)
        /\ device' = IF Tail(idequeue) = <<>> THEN None ELSE idestart(Head(Tail(idequeue)))
  BY DEF Ideintr
<1>6. Wakeup(i) /\ UNCHANGED <<mru, b>>
  BY DEF Ideintr
<1> DEFINE d == IF buf[i].dirty \/ failed THEN buf[i].fresh ELSE buf[i].blockno \in disk
<1>7. /\ buf' \in [Buf -> BufType]
      /\ \A j \in Buf \ {i} : buf'[j] = buf[j]
      /\ buf'[i].blockno = buf[i].blockno /\ buf'[i].valid = TRUE
      /\ buf'[i].dirty = FALSE /\ buf'[i].refcnt = buf[i].refcnt
      /\ buf'[i].fresh = d /\ buf'[i].owner = buf[i].owner
  <2>1. buf \in [Buf -> BufType] /\ d \in BOOLEAN
    <3>1. buf \in [Buf -> BufType]
      BY DEF Inv, TypeOK
    <3>2. buf[i].fresh \in BOOLEAN
      BY <3>1 DEF BufType
    <3>3. CASE buf[i].dirty \/ failed
      BY <3>1, <3>2, <3>3
    <3>4. CASE ~(buf[i].dirty \/ failed)
      <4>1. d = (buf[i].blockno \in disk)
        BY <3>4
      <4>2. (buf[i].blockno \in disk) \in BOOLEAN
        OBVIOUS
      <4> QED
        BY ONLY <4>1, <4>2, <3>1
    <3> QED
      BY <3>3, <3>4
  <2>2. buf' = [buf EXCEPT ![i].valid = TRUE, ![i].dirty = FALSE, ![i].fresh = d]
    BY <1>4, <1>5
  <2> HIDE DEF d
  <2>3. i \in Buf
    OBVIOUS
  <2> QED
    BY ONLY <2>1, <2>2, <2>3 DEF BufType
<1>8. pc'[t] = "wait" /\ \A u \in Thread \ {t} : pc'[u] = pc[u] /\ (pc[u] \in Owning => b[u] # i)
  <2>1. \A u \in Thread \ {t} : pc[u] \in Owning => b[u] # i
    BY <1>3 DEF Inv, UseInv, Owning
  <2> QED
    BY <1>2, <1>6, <2>1 DEF Wakeup, Owning
<1>9. TypeOK'
  <2>1. disk' \subseteq Block /\ bad' \subseteq Buf
    BY <1>3, <1>4, <1>5 DEF Inv, TypeOK
  <2>2. pc' \in [Thread -> Labels]
    BY <1>6 DEF Wakeup, Labels, Inv, TypeOK
  <2>3. idequeue' \in Seq(Buf) /\ (idequeue' # <<>> => Head(idequeue') = idequeue[2] /\ 2 \in DOMAIN idequeue)
    BY <1>1, <1>5
  <2>4. device' \in Request \cup {None}
    <3>1. CASE idequeue' = <<>>
      BY <3>1, <1>5
    <3>2. CASE idequeue' # <<>>
      <4>1. PICK u \in Thread : b[u] = Head(idequeue')
        BY <3>2, <2>3 DEF Inv, QueueInv
      <4>2. b[u] \in Buf
        BY <4>1, <3>2, <2>3
      <4>3. buf[b[u]].blockno \in Block /\ buf[b[u]].dirty \in BOOLEAN /\ buf[b[u]].fresh \in BOOLEAN
        <5>1. buf[b[u]] \in BufType /\ buf[b[u]].blockno # None
          BY <4>2, NoneAssumption DEF Inv, TypeOK, UseInv
        <5> QED
          BY <5>1 DEF BufType
      <4> QED
        BY <4>1, <4>3, <3>2, <1>5 DEF idestart, Request
    <3> QED
      BY <3>1, <3>2
  <2> QED
    BY <1>6, <1>7, <2>1, <2>2, <2>3, <2>4 DEF Inv, TypeOK
<1>10. UseInv'
  <2>1. \A j \in Buf : /\ buf'[j].blockno = buf[j].blockno /\ buf'[j].owner = buf[j].owner
                       /\ buf'[j].refcnt = buf[j].refcnt
    BY <1>7
  <2>2. \A j \in Buf : buf'[j].refcnt = Cardinality(Users(j)')
    <3>1. \A j \in Buf : Users(j)' = Users(j)
      BY <1>6 DEF Users
    <3> QED
      BY <3>1, <2>1 DEF Inv, UseInv
  <2>3. ASSUME NEW u \in Thread
        PROVE  Uses(u)'
    <3>1. CASE u = t
      <4>1. \A j \in Buf \ {i} : buf[j].owner # t
        BY <1>2 DEF Inv, UseInv
      <4> QED
        <5>1. b'[u] = i /\ pc'[u] = "wait" /\ i # None
          BY <3>1, <1>2, <1>3, <1>6, <1>8, NoneAssumption
        <5>2. buf'[i].blockno # None /\ buf'[i].owner = u
          BY <3>1, <2>1, <1>2, <1>3 DEF Inv, UseInv, Owning
        <5>3. \A j \in Buf : buf'[j].owner = u => j = i
          BY <3>1, <4>1, <2>1
        <5> QED
          BY ONLY <5>1, <5>2, <5>3 DEF Uses, Owning
    <3>2. CASE u # t
      BY <3>2, <2>1, <1>6, <1>8, UseFrame
    <3> QED
      BY <3>1, <3>2
  <2> QED
    BY <2>2, <2>3 DEF UseInv, Uses
<1>11. QueueInv'
  <2> DEFINE q == idequeue
  <2>1. /\ DOMAIN q = 1..Len(q) /\ Len(q) \in Nat /\ DOMAIN q' = 1..(Len(q) - 1)
        /\ \A k \in DOMAIN q' : k + 1 \in DOMAIN q /\ q'[k] = q[k+1]
        /\ \A k \in DOMAIN q : k # 1 => k - 1 \in DOMAIN q' /\ q'[k-1] = q[k]
    BY <1>1, <1>5
  <2>2. \A k, l \in DOMAIN q : q[k] = q[l] => k = l
    BY DEF Inv, QueueInv
  <2>3. \A k \in DOMAIN q' : q'[k] # i
    <3>1. \A k \in DOMAIN q' : k + 1 # 1
      BY <2>1
    <3> QED
      BY <3>1, <2>1, <2>2, <1>1
  <2>4. \A k, l \in DOMAIN q' : q'[k] = q'[l] => k = l
    <3> SUFFICES ASSUME NEW k \in DOMAIN q', NEW l \in DOMAIN q', q'[k] = q'[l]
                 PROVE  k = l
      OBVIOUS
    <3>1. k + 1 = l + 1
      BY <2>1, <2>2
    <3> QED
      BY <2>1, <3>1
  <2>5. \A k \in DOMAIN q' : \E u \in Thread \ {t} : b[u] = q'[k] /\ pc[u] = "asleep"
    BY <2>1, <2>3, <1>2 DEF Inv, QueueInv
  <2>6. \A k \in DOMAIN q' : \E u \in Thread : b'[u] = q'[k] /\ pc'[u] = "asleep"
    BY <2>5, <1>6, <1>8
  <2>7. ASSUME NEW u \in Thread
        PROVE  /\ pc'[u] = "asleep" => \E k \in DOMAIN q' : q'[k] = b'[u]
               /\ pc'[u] \in {"iderw", "asleep"} => ~Done(b[u])'
               /\ pc'[u] = "wait" => Done(b[u])'
               /\ pc'[u] = "have" => buf'[b'[u]].valid
    <3>1. CASE u = t
      BY <3>1, <1>2, <1>6, <1>7, <1>8 DEF Done
    <3>2. CASE u # t
      <4>1. pc[u] \in Owning => b[u] \in Buf /\ b[u] # i /\ buf'[b[u]] = buf[b[u]]
        BY <3>2, <1>7, <1>8 DEF Inv, TypeOK, UseInv, Owning
      <4>2. pc[u] = "asleep" => \E k \in DOMAIN q' : q'[k] = b[u]
        <5>1. pc[u] = "asleep" => \E k \in DOMAIN q : q[k] = b[u] /\ k # 1
          BY <4>1, <1>1 DEF Inv, QueueInv, Owning
        <5> QED
          BY <5>1, <2>1
      <4>3. /\ pc[u] \in {"iderw", "asleep"} => ~Done(b[u])
            /\ pc[u] = "wait" => Done(b[u])
            /\ pc[u] = "have" => buf[b[u]].valid
        BY DEF Inv, QueueInv
      <4>4. pc[u] \in Owning => (Done(b[u])' <=> Done(b[u]))
        BY <4>1, <1>6 DEF Done
      <4> QED
        BY <3>2, <4>1, <4>2, <4>3, <4>4, <1>6, <1>8 DEF Owning
    <3> QED
      BY <3>1, <3>2
  <2>8. device' = IF q' = <<>> THEN None ELSE idestart(Head(idequeue))'
    <3>1. CASE q' = <<>>
      BY <3>1, <1>5
    <3>2. CASE q' # <<>>
      <4>1. 1 \in DOMAIN q' /\ Head(q') = q'[1] /\ q'[1] \in Buf
        BY <3>2, <1>9 DEF TypeOK
      <4>2. buf'[Head(q')] = buf[Head(q')]
        BY <4>1, <2>3, <1>7
      <4> QED
        BY <3>2, <4>2, <1>5 DEF idestart
    <3> QED
      BY <3>1, <3>2
  <2> HIDE DEF q
  <2> QED
    BY <2>4, <2>6, <2>7, <2>8 DEF QueueInv, q
<1>12. DataInv'
  <2>1. \A j, m \in Buf : buf'[j].blockno = buf'[m].blockno /\ buf'[j].blockno # None => j = m
    BY <1>7 DEF Inv, DataInv
  <2>2. ~buf[i].dirty => buf[i].blockno \in disk
    BY <1>3, NoneAssumption DEF Inv, DataInv
  <2>3. buf[i].dirty => buf[i].fresh
    BY DEF Inv, DataInv
  <2>4. \A j \in Buf : /\ buf'[j].dirty => buf'[j].valid /\ buf'[j].fresh /\ buf'[j].blockno # None
                       /\ buf'[j].valid /\ j \notin bad' => buf'[j].fresh
    <3>1. i \notin bad' => d
      BY <1>4, <1>5, <2>2, <2>3
    <3>2. \A j \in Buf \ {i} : j \in bad' <=> j \in bad
      BY <1>5
    <3> HIDE DEF d
    <3> QED
      BY <3>1, <3>2, <1>7 DEF Inv, DataInv
  <2>5. \A x \in Block \ disk' : \E j \in Buf : buf'[j].blockno = x /\ buf'[j].dirty
    <3> SUFFICES ASSUME NEW x \in Block \ disk'
                 PROVE  \E j \in Buf : buf'[j].blockno = x /\ buf'[j].dirty
      OBVIOUS
    <3>1. x \notin disk /\ (buf[i].dirty => x # buf[i].blockno)
      BY <1>4, <1>5, <2>3
    <3>2. PICK j \in Buf : buf[j].blockno = x /\ buf[j].dirty
      BY <3>1 DEF Inv, DataInv
    <3>3. j # i
      BY <3>1, <3>2
    <3> QED
      BY <3>2, <3>3, <1>7
  <2> QED
    BY <2>1, <2>4, <2>5 DEF DataInv
<1> QED
  BY <1>9, <1>10, <1>11, <1>12 DEF Inv

-----------------------------------------------------------------------------
(***************************************************************************)
(* The cache is coherent.                                                  *)
(***************************************************************************)
\* Every step of the cache and of the driver keeps the invariant.
LEMMA NextInv == Inv /\ [Next]_vars => Inv'
<1> SUFFICES ASSUME Inv, [Next]_vars PROVE Inv'
  OBVIOUS
<1>1. CASE UNCHANGED vars
  <2> USE <1>1 DEF vars
  <2>1. TypeOK'
    BY DEF Inv, TypeOK
  <2>2. UseInv'
    BY DEF Inv, UseInv, Users
  <2>3. QueueInv'
    BY DEF Inv, QueueInv, Done, idestart
  <2>4. DataInv'
    BY DEF Inv, DataInv
  <2> QED
    BY ONLY <2>1, <2>2, <2>3, <2>4 DEF Inv
<1>2. ASSUME NEW t \in Thread, NEW blk \in Block, BgetHit(t, blk) \/ BgetMiss(t, blk)
      PROVE  Inv'
  BY <1>2, BgetHitInv, BgetMissInv
<1>3. ASSUME NEW t \in Thread, Bwrite(t) \/ LogWrite(t)
      PROVE  Inv'
  BY <1>3, ModifyInv DEF Bwrite, LogWrite
<1>4. ASSUME NEW t \in Thread, Progress(t)
      PROVE  Inv'
  BY <1>4, BreadInv, IderwInv, IderwWaitInv, BrelseInv, BrelseUnrefInv DEF Progress
<1>5. CASE Ideintr
  BY <1>5, IdeintrInv
<1>6. CASE IdeintrSpurious
  BY <1>1, <1>6 DEF IdeintrSpurious
<1> QED
  BY <1>1, <1>2, <1>3, <1>4, <1>5, <1>6 DEF Next

\* What bread returns is what was last written to the block, for any number of
\* threads, blocks and buffers: the disk and the cache never both miss it.
THEOREM CacheCoherence == Spec => []Coherent
<1>1. Inv => Coherent
  <2> SUFFICES ASSUME Inv, NEW blk \in Block
               PROVE  /\ Cardinality(Cached(blk)) <= 1
                      /\ \A i \in Cached(blk) : buf[i].valid /\ i \notin bad => buf[i].fresh
                      /\ (\A i \in Cached(blk) : ~buf[i].dirty) => blk \in disk
    BY DEF Coherent
  <2>1. Cardinality(Cached(blk)) <= 1
    <3>1. \A i, j \in Cached(blk) : i = j
      BY NoneAssumption DEF Inv, DataInv, Cached
    <3>2. CASE Cached(blk) = {}
      BY <3>2, FS_EmptySet
    <3>3. CASE \E i : i \in Cached(blk)
      <4>1. PICK i : Cached(blk) = {i}
        BY <3>1, <3>3
      <4>2. Cardinality({i}) = 1
        BY FS_Singleton
      <4> QED
        BY <4>1, <4>2
    <3> QED
      BY <3>2, <3>3
  <2>2. \A i \in Cached(blk) : buf[i].valid /\ i \notin bad => buf[i].fresh
    BY DEF Inv, DataInv, Cached
  <2>3. (\A i \in Cached(blk) : ~buf[i].dirty) => blk \in disk
    BY DEF Inv, DataInv, Cached
  <2> QED
    BY <2>1, <2>2, <2>3
<1> QED
  BY <1>1, InitInv, NextInv, PTL DEF Spec

-----------------------------------------------------------------------------
(***************************************************************************)
(* A buffer is never missing.                                              *)
(***************************************************************************)
\* A set of buffers has a size.
LEMMA BufSets ==
  ASSUME NEW S \in SUBSET Buf
  PROVE  IsFiniteSet(S) /\ Cardinality(S) \in Nat
<1>1. IsFiniteSet(Buf)
  BY SizesAssumption, FS_Interval DEF Buf
<1> QED
  BY <1>1, FS_Subset, FS_CardinalityType

\* The other threads and the log leave a buffer for the thread that has none.
LEMMA AlwaysRoom ==
  ASSUME Inv, PinInv, Room, NEW t \in Thread, b[t] = None
  PROVE  \E i \in Buf : Recyclable(i)
<1> SUFFICES ASSUME \A i \in Buf : ~Recyclable(i) PROVE FALSE
  OBVIOUS
<1> DEFINE T == Thread \ {t}
           I == {b[u] : u \in T}
           f == [u \in T |-> b[u]]
<1>1. IsFiniteSet(T) /\ Cardinality(T) = Cardinality(Thread) - 1 /\ Cardinality(Thread) \in Nat
  BY SizesAssumption, FS_RemoveElement, FS_CardinalityType
<1>2. IsFiniteSet(I) /\ Cardinality(I) <= Cardinality(T)
  <2>1. f \in Surjection(T, I)
    BY DEF Surjection
  <2> QED
    BY <1>1, <2>1, FS_Surjection
<1>3. Buf \subseteq I \cup Pinned
  <2> SUFFICES ASSUME NEW j \in Buf, j \notin I PROVE j \in Pinned
    OBVIOUS
  <2>1. Users(j) = {}
    BY NoneAssumption DEF Users
  <2>2. buf[j].refcnt = 0
    BY <2>1, FS_EmptySet DEF Inv, UseInv
  <2> QED
    BY <2>1, <2>2 DEF Recyclable, Pinned
<1>4. IsFiniteSet(Pinned) /\ Cardinality(Pinned) \in Nat
  BY BufSets DEF Pinned
<1>5. /\ IsFiniteSet(I \cup Pinned)
      /\ Cardinality(I \cup Pinned) = Cardinality(I) + Cardinality(Pinned) - Cardinality(I \cap Pinned)
  BY <1>2, <1>4, FS_Union
<1>6. Cardinality(I \cap Pinned) \in Nat /\ Cardinality(I) \in Nat
  <2>1. I \cap Pinned \in SUBSET Buf
    BY DEF Pinned
  <2> QED
    BY <2>1, <1>2, BufSets, FS_CardinalityType
<1>7. Cardinality(Buf) = NBUF /\ Cardinality(Buf) <= Cardinality(I \cup Pinned)
  <2>1. Cardinality(1..NBUF) = NBUF
    BY SizesAssumption, FS_Interval
  <2> QED
    BY <2>1, <1>3, <1>5, FS_Subset DEF Buf
<1>8. Cardinality(Pinned) <= MaxPins /\ Cardinality(Thread) + MaxPins <= NBUF
  BY DEF PinInv, Room
<1> HIDE DEF T, I
<1> QED
  BY ONLY <1>1, <1>2, <1>4, <1>5, <1>6, <1>7, <1>8, SizesAssumption

\* A step that dirties no buffer and takes no thread out of iderw whose buffer
\* stays dirty pins nothing.
LEMMA PinFrame ==
  ASSUME Cardinality(Pinned) <= MaxPins,
         \A j \in Buf : j \in Pinned' => buf[j].dirty,
         \A u \in Thread : pc[u] \in {"iderw", "asleep"} =>
            \/ b'[u] = b[u] /\ pc'[u] \in {"iderw", "asleep"}
            \/ ~buf'[b[u]].dirty
  PROVE  Cardinality(Pinned') <= MaxPins
<1>1. Pinned' \subseteq Pinned
  BY DEF Pinned, Users
<1>2. IsFiniteSet(Pinned) /\ Cardinality(Pinned) \in Nat
  BY BufSets DEF Pinned
<1>3. Cardinality(Pinned') <= Cardinality(Pinned) /\ Cardinality(Pinned') \in Nat
  BY <1>1, <1>2, FS_Subset, FS_CardinalityType
<1> QED
  BY <1>2, <1>3, SizesAssumption

\* What bwrite and log_write do to the pinned buffers.
LEMMA ModifyPins ==
  ASSUME Inv, PinInv, NEW t \in Thread, Bwrite(t) \/ LogWrite(t)
  PROVE  PinInv'
<1>0. pc[t] = "have" /\ b[t] \in Buf
  BY DEF Bwrite, LogWrite, Modify, Inv, UseInv, TypeOK
<1> PICK i \in Buf : i = b[t]
  BY <1>0
<1>1. PICK l \in {"have", "iderw"} :
        /\ pc' = [pc EXCEPT ![t] = l] /\ UNCHANGED b
        /\ buf' = [buf EXCEPT ![i].fresh = TRUE, ![i].dirty = TRUE]
        /\ l = "have" => buf[i].dirty \/ Cardinality({j \in Buf : buf[j].dirty}) < MaxPins
  BY DEF Bwrite, LogWrite, Modify, Goto, My
<1>2. pc'[t] = l /\ \A u \in Thread \ {t} : pc'[u] = pc[u]
  BY <1>1 DEF Inv, TypeOK
<1>3. \A j \in Buf \ {i} : buf'[j] = buf[j]
  BY <1>1 DEF Inv, TypeOK
<1>4. \A u \in Thread : pc'[u] # "panic"
  BY <1>2 DEF PinInv
<1>5. \A u \in Thread : pc[u] \in {"iderw", "asleep"} => b'[u] = b[u] /\ pc'[u] \in {"iderw", "asleep"}
  BY <1>0, <1>1, <1>2
<1>6. CASE l = "iderw" \/ buf[i].dirty
  <2>1. \A j \in Buf : j \in Pinned' => buf[j].dirty
    <3>1. l = "iderw" => i \notin Pinned'
      BY <1>1, <1>2 DEF Pinned, Users
    <3>2. \A j \in Buf : j \in Pinned' => buf'[j].dirty
      BY DEF Pinned
    <3> QED
      BY <1>3, <1>6, <3>1, <3>2
  <2> QED
    BY <2>1, <1>4, <1>5, PinFrame DEF PinInv
<1>7. CASE l = "have" /\ ~buf[i].dirty
  <2> DEFINE D == {j \in Buf : buf[j].dirty}
  <2>1. IsFiniteSet(D) /\ Cardinality(D) \in Nat /\ Cardinality(D) < MaxPins
    BY <1>1, <1>7, BufSets
  <2>2. Pinned' \subseteq D \cup {i}
    <3>1. \A j \in Pinned' : j \in Buf /\ buf'[j].dirty
      BY DEF Pinned
    <3> QED
      BY <1>3, <3>1
  <2> HIDE DEF D
  <2>3. IsFiniteSet(D \cup {i}) /\ Cardinality(D \cup {i}) <= Cardinality(D) + 1
    <3>1. IsFiniteSet(D \cup {i})
          /\ Cardinality(D \cup {i}) = IF i \in D THEN Cardinality(D) ELSE Cardinality(D) + 1
      BY <2>1, FS_AddElement
    <3> QED
      BY <2>1, <3>1
  <2>4. /\ Cardinality(Pinned') <= Cardinality(D \cup {i}) /\ Cardinality(Pinned') \in Nat
        /\ Cardinality(D \cup {i}) \in Nat
    BY <2>2, <2>3, FS_Subset, FS_CardinalityType
  <2>5. Cardinality(Pinned') <= MaxPins
    BY ONLY <2>1, <2>3, <2>4, SizesAssumption
  <2> QED
    BY <2>5, <1>4 DEF PinInv
<1> QED
  BY <1>6, <1>7

\* No other step of a thread pins a buffer, and none finds all of them taken.
LEMMA StepPins ==
  ASSUME Inv, PinInv, Room, NEW t \in Thread,
         (\E blk \in Block : BgetHit(t, blk) \/ BgetMiss(t, blk)) \/ Progress(t)
  PROVE  PinInv'
<1>1. CASE \E blk \in Block : BgetHit(t, blk)
  <2>1. PICK i \in Buf : /\ buf' = [buf EXCEPT ![i].refcnt = @ + 1] /\ b' = [b EXCEPT ![t] = i]
                          /\ pc[t] = "out" /\ pc' = [pc EXCEPT ![t] = "lock"]
    BY <1>1 DEF BgetHit, Goto, Inv, TypeOK
  <2>2. \A j \in Buf : buf'[j].dirty = buf[j].dirty
    BY <2>1 DEF Inv, TypeOK, BufType
  <2>3. \A j \in Buf : j \in Pinned' => buf[j].dirty
    BY <2>2 DEF Pinned
  <2>4. \A u \in Thread : /\ pc[u] \in {"iderw", "asleep"} => b'[u] = b[u] /\ pc'[u] = pc[u]
                          /\ pc'[u] # "panic"
    BY <2>1 DEF PinInv, Inv, TypeOK
  <2> QED
    BY <2>3, <2>4, PinFrame DEF PinInv
<1>2. CASE \E blk \in Block : BgetMiss(t, blk)
  <2>1. pc[t] = "out" /\ b[t] = None
    BY <1>2 DEF BgetMiss, Inv, UseInv
  <2>2. \E i \in Buf : Recyclable(i)
    BY <2>1, AlwaysRoom
  <2>3. PICK blk \in Block, i \in Buf :
             /\ buf' = [buf EXCEPT ![i] = [blockno |-> blk, valid |-> FALSE, dirty |-> FALSE,
                                           refcnt |-> 1, fresh |-> FALSE, owner |-> @.owner]]
             /\ b' = [b EXCEPT ![t] = i] /\ pc' = [pc EXCEPT ![t] = "lock"]
    BY <1>2, <2>2 DEF BgetMiss, Goto, Inv, TypeOK
  <2>4. \A j \in Buf : buf'[j].dirty => buf[j].dirty
    BY <2>3 DEF Inv, TypeOK
  <2>5. \A j \in Buf : j \in Pinned' => buf[j].dirty
    BY <2>4 DEF Pinned
  <2>6. \A u \in Thread : /\ pc[u] \in {"iderw", "asleep"} => b'[u] = b[u] /\ pc'[u] = pc[u]
                          /\ pc'[u] # "panic"
    BY <2>1, <2>3 DEF PinInv, Inv, TypeOK
  <2> QED
    BY <2>5, <2>6, PinFrame DEF PinInv
<1>3. CASE Progress(t)
  <2>1. \A j \in Buf : buf'[j].dirty = buf[j].dirty
    <3>1. buf \in [Buf -> BufType] /\ (pc[t] \in {"lock", "have", "unref"} => b[t] \in Buf)
      BY DEF Inv, TypeOK, UseInv
    <3>2. ASSUME NEW i \in Buf, \/ \E o : buf' = [buf EXCEPT ![i].owner = o]
                                \/ \E n : buf' = [buf EXCEPT ![i].refcnt = n]
          PROVE  \A j \in Buf : buf'[j].dirty = buf[j].dirty
      BY <3>1, <3>2 DEF BufType
    <3>3. CASE UNCHANGED buf
      BY <3>3
    <3> QED
      BY <1>3, <3>1, <3>2, <3>3 DEF Progress, Bread, Iderw, IderwWait, Brelse, BrelseUnref, cacheVars
  <2>2. \A j \in Buf : j \in Pinned' => buf[j].dirty
    BY <2>1 DEF Pinned
  <2>3. PICK l : /\ pc' = [pc EXCEPT ![t] = l] /\ l # "panic"
                 /\ pc[t] = "iderw" => l = "asleep" /\ UNCHANGED b
                 /\ pc[t] # "asleep"
    BY <1>3 DEF Progress, Bread, Iderw, IderwWait, Brelse, BrelseUnref, cacheVars, Goto
  <2>4. \A u \in Thread \ {t} : b'[u] = b[u] /\ pc'[u] = pc[u]
    BY <1>3, <2>3 DEF Progress, Bread, Iderw, IderwWait, Brelse, BrelseUnref, cacheVars, Inv, TypeOK
  <2>5. pc'[t] = l
    BY <2>3 DEF Inv, TypeOK
  <2>6. \A u \in Thread : /\ pc[u] \in {"iderw", "asleep"} => b'[u] = b[u] /\ pc'[u] \in {"iderw", "asleep"}
                          /\ pc'[u] # "panic"
    BY <2>3, <2>4, <2>5 DEF PinInv
  <2> QED
    BY <2>2, <2>6, PinFrame DEF PinInv
<1> QED
  BY <1>1, <1>2, <1>3

\* A request that is done leaves no dirty buffer behind.
LEMMA IdeintrPins ==
  ASSUME Inv, PinInv, Ideintr
  PROVE  PinInv'
<1>1. Head(idequeue) \in Buf
  BY DEF Ideintr, Inv, QueueInv, TypeOK
<1> PICK i \in Buf : i = Head(idequeue)
  BY <1>1
<1>2. Wakeup(i) /\ UNCHANGED b
      /\ \E d : buf' = [buf EXCEPT ![i].valid = TRUE, ![i].dirty = FALSE, ![i].fresh = d]
  BY DEF Ideintr
<1>3. ~buf'[i].dirty /\ \A j \in Buf \ {i} : buf'[j] = buf[j]
  BY <1>2 DEF Inv, TypeOK, BufType
<1>4. \A j \in Buf : j \in Pinned' => buf[j].dirty
  BY <1>3 DEF Pinned
<1>5. \A u \in Thread : /\ pc'[u] # "panic"
                        /\ b[u] # i => b'[u] = b[u] /\ pc'[u] = pc[u]
  BY <1>2 DEF Wakeup, PinInv
<1>6. \A u \in Thread : pc[u] \in {"iderw", "asleep"} =>
            \/ b'[u] = b[u] /\ pc'[u] \in {"iderw", "asleep"}
            \/ ~buf'[b[u]].dirty
  BY <1>3, <1>5
<1> QED
  BY <1>4, <1>5, <1>6, PinFrame DEF PinInv

\* The reference counts are exact, only sleeping owners are queued for the disk,
\* and bget finds a buffer, if each thread has one that the log does not pin.
THEOREM BuffersSuffice == Room => (Spec => []BufferAccounting)
<1> SUFFICES ASSUME Room PROVE Spec => []BufferAccounting
  OBVIOUS
<1>1. Init => PinInv
  <2> SUFFICES ASSUME Init PROVE PinInv
    OBVIOUS
  <2>1. Pinned = {} /\ \A t \in Thread : pc[t] # "panic"
    BY DEF Init, Pinned
  <2>2. Cardinality(Pinned) = 0
    BY <2>1, FS_EmptySet
  <2> QED
    BY <2>1, <2>2, SizesAssumption DEF PinInv
<1>2. Inv /\ PinInv /\ [Next]_vars => PinInv'
  <2> SUFFICES ASSUME Inv, PinInv, [Next]_vars PROVE PinInv'
    OBVIOUS
  <2>1. CASE UNCHANGED vars
    <3>1. Pinned' = Pinned /\ pc' = pc
      BY <2>1 DEF vars, Pinned, Users
    <3> QED
      BY <3>1 DEF PinInv
  <2>2. CASE Ideintr
    BY <2>2, IdeintrPins
  <2>3. CASE IdeintrSpurious
    BY <2>1, <2>3 DEF IdeintrSpurious
  <2>4. ASSUME NEW t \in Thread,
               (\E blk \in Block : BgetHit(t, blk) \/ BgetMiss(t, blk)) \/ Progress(t)
        PROVE  PinInv'
    BY <2>4, StepPins
  <2>5. ASSUME NEW t \in Thread, Bwrite(t) \/ LogWrite(t)
        PROVE  PinInv'
    BY <2>5, ModifyPins
  <2> QED
    BY <2>1, <2>2, <2>3, <2>4, <2>5 DEF Next
<1>3. Inv /\ PinInv => BufferAccounting
  <2> SUFFICES ASSUME Inv, PinInv PROVE BufferAccounting
    OBVIOUS
  <2>1. \A k \in DOMAIN idequeue : \E t \in Thread :
          b[t] = idequeue[k] /\ buf[b[t]].owner = t /\ pc[t] = "asleep"
    BY DEF Inv, QueueInv, UseInv, Owning
  <2>2. \A t \in Thread : /\ pc[t] # "panic"
                          /\ pc[t] = "have" => buf[b[t]].owner = t /\ buf[b[t]].valid
    BY DEF Inv, PinInv, QueueInv, UseInv, Owning
  <2> QED
    BY <2>1, <2>2 DEF Inv, UseInv, BufferAccounting
<1> QED
  BY <1>1, <1>2, <1>3, InitInv, NextInv, PTL DEF Spec

=============================================================================
