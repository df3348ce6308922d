------------------------------- MODULE Inode --------------------------------
(***************************************************************************)
(* The contents of inodes: the blocks of fs.c under the reads and writes   *)
(* of file.c, on an image whose first files mkfs.c has written.  A block   *)
(* is BSIZE words, that are bytes of a file or block numbers; a process    *)
(* writes bytes that tell it.  The lock of an inode is held from one chunk *)
(* of a write to the next, and a step is one block of a chunk.             *)
(***************************************************************************)
EXTENDS Integers, FiniteSets, FiniteSetsExt

CONSTANTS Proc,     \* a set of positive numbers
          File,     \* the inodes
          BSIZE, NDIRECT,
          NBLOCKS,  \* enough for all files at their largest
          Width,    \* the bits of a uint
          MaxChunk, \* what filewrite writes in one transaction
          MaxWrite, \* the largest n of a read or write
          MaxOps    \* bound on the calls of a behaviour

NINDIRECT == BSIZE
MAXFILE == NDIRECT + NINDIRECT
Block == 1..NBLOCKS
Word == 0..(BSIZE - 1)
Uint(n) == n % 2^Width

VARIABLES
  d,        \* the disk: addrs of the inodes, used blocks (bitmap), contents of blocks
  size,     \* of the inodes
  off,      \* f->off of a file that every process has open
  ilock,    \* the process that has locked an inode, 0 for none
  wr,       \* the write a process is in
  mounted,  \* mkfs is done
  ops,      \* how many calls there were
  content   \* what was written, byte by byte

vars == <<d, size, off, ilock, wr, mounted, ops, content>>

Counted == ops < MaxOps /\ ops' = ops + 1

Zero == [i \in Word |-> 0]
NoWrite == [f |-> 0, left |-> 0, n1 |-> 0, tot |-> 0]
Bytes == 0..(MAXFILE * BSIZE - 1)

Init ==
  /\ d = [addrs |-> [f \in File |-> [i \in 0..NDIRECT |-> 0]], used |-> {},
          blk |-> [b \in Block |-> Zero]]
  /\ size = [f \in File |-> 0] /\ off = [f \in File |-> 0]
  /\ ilock = [f \in File |-> 0] /\ wr = [p \in Proc |-> NoWrite]
  /\ mounted = FALSE /\ ops = 0
  /\ content = [f \in File |-> [i \in Bytes |-> 0]]

-----------------------------------------------------------------------------
(***************************************************************************)
(* balloc, bmap, itrunc: the disk they leave                               *)
(***************************************************************************)
Fresh(e) == Min(Block \ e.used)
balloc(e) == [e EXCEPT !.used = @ \cup {Fresh(e)}, !.blk[Fresh(e)] = Zero]

\* The disk after bmap(f, bn), with its blocks allocated; Addr is what it
\* returns.
bmap(e, f, bn) ==
  IF bn < NDIRECT
  THEN IF e.addrs[f][bn] # 0 THEN e
       ELSE [balloc(e) EXCEPT !.addrs[f][bn] = Fresh(e)]
  ELSE LET g == IF e.addrs[f][NDIRECT] # 0 THEN e
                ELSE [balloc(e) EXCEPT !.addrs[f][NDIRECT] = Fresh(e)]
           ind == g.addrs[f][NDIRECT]
       IN IF g.blk[ind][bn - NDIRECT] # 0 THEN g
          ELSE [balloc(g) EXCEPT !.blk[ind][bn - NDIRECT] = Fresh(g)]

Addr(e, f, bn) == IF bn < NDIRECT THEN e.addrs[f][bn]
                  ELSE e.blk[e.addrs[f][NDIRECT]][bn - NDIRECT]

\* The blocks of inode f, its indirect block included.
Direct(e, f) == {e.addrs[f][i] : i \in 0..NDIRECT} \ {0}
Indirect(e, f) == IF e.addrs[f][NDIRECT] = 0 THEN {}
                  ELSE {e.blk[e.addrs[f][NDIRECT]][i] : i \in Word} \ {0}

\* Mutant: the blocks behind the indirect block are not freed.
itruncDirect(e, f) == [e EXCEPT !.used = @ \ Direct(e, f),
                                !.addrs[f] = [i \in 0..NDIRECT |-> 0]]
itrunc(e, f) == [e EXCEPT !.used = @ \ (Direct(e, f) \cup Indirect(e, f)),
                          !.addrs[f] = [i \in 0..NDIRECT |-> 0]]

\* How much of n bytes at offset o fits into one block.
Room(o, n) == Min({n, BSIZE - (o % BSIZE)})

\* memmove of m bytes of process p at offset o of f, into its block.
Copy(e, f, o, m, p) ==
  LET b == Addr(e, f, o \div BSIZE)
  IN [e EXCEPT !.blk[b] = [i \in Word |-> IF i - (o % BSIZE) \in 0..(m - 1)
                                          THEN p ELSE @[i]]]
Written(f, o, m, p) ==
  [content EXCEPT ![f] = [i \in Bytes |-> IF i \in o..(o + m - 1) THEN p ELSE @[i]]]

-----------------------------------------------------------------------------
(***************************************************************************)
(* mkfs: iappend fills the first free block; at the end the bitmap says    *)
(* that the blocks before freeblock are used.                              *)
(***************************************************************************)
Iappend(p, f, n) ==
  /\ Counted /\ ~mounted
  /\ LET o == size[f]
         m == Room(o, n)
     IN /\ o \div BSIZE < MAXFILE
        /\ d' = Copy(bmap(d, f, o \div BSIZE), f, o, m, p)
        /\ content' = Written(f, o, m, p)
        /\ size' = [size EXCEPT ![f] = o + m]
  /\ UNCHANGED <<off, ilock, wr, mounted>>

Mount ==
  /\ ~mounted /\ mounted' = TRUE
  /\ LET freeblock == Max(d.used \cup {0}) + 1
     IN d' = [d EXCEPT !.used = 1..(freeblock - 1)]
  /\ UNCHANGED <<size, off, ilock, wr, ops, content>>

-----------------------------------------------------------------------------
(***************************************************************************)
(* filewrite, writei and fileread                                          *)
(***************************************************************************)
Filewrite(p, f, n) ==
  /\ Counted /\ mounted /\ wr[p] = NoWrite
  /\ wr' = [wr EXCEPT ![p] = [NoWrite EXCEPT !.f = f, !.left = n]]
  /\ UNCHANGED <<d, size, off, ilock, mounted, content>>

\* The checks of writei on n bytes at offset o.
Refused(f, o, n) == \/ o > size[f] \/ Uint(o + n) < o
                    \/ Uint(o + n) > MAXFILE * BSIZE

\* The next chunk: ilock, and the checks.
Chunk(p) ==
  /\ wr[p].left > 0 /\ wr[p].n1 = 0
  /\ LET f == wr[p].f
         n1 == Min({wr[p].left, MaxChunk})
     IN /\ ilock[f] = 0
        /\ IF Refused(f, off[f], n1)
           THEN wr' = [wr EXCEPT ![p] = NoWrite] /\ UNCHANGED ilock
           ELSE wr' = [wr EXCEPT ![p].n1 = n1] /\ ilock' = [ilock EXCEPT ![f] = p]
  /\ UNCHANGED <<d, size, off, mounted, ops, content>>

WriteBlock(p) ==
  /\ wr[p].tot < wr[p].n1
  /\ LET f == wr[p].f
         o == off[f] + wr[p].tot
         m == Room(o, wr[p].n1 - wr[p].tot)
     IN /\ d' = Copy(bmap(d, f, o \div BSIZE), f, o, m, p)
        /\ content' = Written(f, o, m, p)
        /\ wr' = [wr EXCEPT ![p].tot = @ + m]
  /\ UNCHANGED <<size, off, ilock, mounted, ops>>

\* The size, the offset, iunlock, and on to the next chunk.
ChunkDone(p) ==
  /\ wr[p].n1 > 0 /\ wr[p].tot = wr[p].n1
  /\ LET f == wr[p].f
         o == off[f] + wr[p].n1
     IN /\ size' = [size EXCEPT ![f] = Max({@, o})]
        /\ off' = [off EXCEPT ![f] = o]
        /\ ilock' = [ilock EXCEPT ![f] = 0]
        /\ wr' = [wr EXCEPT ![p] = IF @.left = @.n1 THEN NoWrite
                                 ELSE [NoWrite EXCEPT !.f = f, !.left = wr[p].left - wr[p].n1]]
  /\ UNCHANGED <<d, mounted, ops, content>>

\* How many bytes readi gives, -1 when it refuses.
readn(f, o, n) == IF o > size[f] \/ Uint(o + n) < o THEN -1
                  ELSE IF Uint(o + n) > size[f] THEN size[f] - o ELSE n
readi(f, o, n) == [i \in 0..(n - 1) |-> d.blk[Addr(d, f, (o + i) \div BSIZE)][(o + i) % BSIZE]]

Fileread(p, f, n) ==
  /\ Counted /\ mounted /\ wr[p] = NoWrite /\ ilock[f] = 0
  /\ off' = [off EXCEPT ![f] = @ + Max({readn(f, @, n), 0})]
  /\ UNCHANGED <<d, size, ilock, wr, mounted, content>>

\* Another open of f, once nobody uses the old one.
Reopen(f) ==
  /\ Counted /\ mounted /\ \A p \in Proc : wr[p].f # f
  /\ off' = [off EXCEPT ![f] = 0]
  /\ UNCHANGED <<d, size, ilock, wr, mounted, content>>

\* iput frees f, and ialloc and open make it anew.
Free(f) ==
  /\ Counted /\ mounted /\ \A p \in Proc : wr[p].f # f
  /\ d' = itrunc(d, f)
  /\ size' = [size EXCEPT ![f] = 0] /\ off' = [off EXCEPT ![f] = 0]
  /\ content' = [content EXCEPT ![f] = [i \in Bytes |-> 0]]
  /\ UNCHANGED <<ilock, wr, mounted>>

-----------------------------------------------------------------------------
Next ==
  \/ Mount
  \/ \E p \in Proc : Chunk(p) \/ WriteBlock(p) \/ ChunkDone(p)
  \/ \E f \in File : Reopen(f) \/ Free(f)
  \/ \E p \in Proc, f \in File, n \in 1..MaxWrite :
       Iappend(p, f, n) \/ Filewrite(p, f, n) \/ Fileread(p, f, n)

Spec == Init /\ [][Next]_vars

-----------------------------------------------------------------------------
\* The bitmap marks exactly the blocks of the inodes, and no block belongs to
\* two of them or twice to one, at every step of every write.
BlocksExact ==
  /\ d.used = UNION {Direct(d, f) \cup Indirect(d, f) : f \in File}
  /\ Cardinality(d.used) =
       Cardinality({x \in File \X (0..(NDIRECT + NINDIRECT)) :
         IF x[2] <= NDIRECT THEN d.addrs[x[1]][x[2]] # 0
         ELSE d.addrs[x[1]][NDIRECT] # 0 /\ d.blk[d.addrs[x[1]][NDIRECT]][x[2] - NDIRECT - 1] # 0})

\* What readi gives of an unlocked inode is what was last written at every
\* place, whoever wrote it and in whatever chunks, and for no offset and
\* length of a uint's width anything behind the end.
ReadBack ==
  \A f \in File : ilock[f] = 0 =>
    \A o \in 0..(2^Width - 1), n \in 0..MaxWrite \cup {2^Width - 1} :
      LET r == readn(f, o, n)
          bytes == readi(f, o, r)
      IN IF o > size[f] \/ o + n >= 2^Width THEN r = -1
         ELSE /\ r = Min({n, size[f] - o})
              /\ \A i \in 0..(r - 1) : bytes[i] = content[f][o + i]
=============================================================================
