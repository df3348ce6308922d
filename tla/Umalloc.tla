------------------------------- MODULE Umalloc ------------------------------
(***************************************************************************)
(* The user-level allocator of umalloc.c: a circular list of free blocks   *)
(* in the order of their addresses, threaded through their headers.        *)
(* Addresses and sizes count headers; the static base is at 0, the heap    *)
(* begins at 1 and grows with sbrk, which the program may call as well.    *)
(***************************************************************************)
EXTENDS Integers, FiniteSets, FiniteSetsExt

CONSTANTS HEAP,     \* where sbrk fails
          MinCore,  \* the least that morecore asks for
          MaxUnits  \* the largest block, its header included

NULL == -1

VARIABLES
  s,      \* hdr: the ptr and size of headers; freep; brk: the end of the heap
  used,   \* blocks that malloc has returned, as <<header, units>>
  others  \* what the program got from sbrk itself

vars == <<s, used, others>>

Init ==
  /\ s = [hdr |-> [a \in 0..HEAP |-> [ptr |-> 0, size |-> 0]], freep |-> NULL, brk |-> 1]
  /\ used = {} /\ others = {}

Ptr(t, a) == t.hdr[a].ptr
Size(t, a) == t.hdr[a].size

\* Where free(bp) links the block in: after p.
RECURSIVE After(_, _, _)
After(t, p, bp) ==
  IF \/ bp > p /\ bp < Ptr(t, p)
     \/ p >= Ptr(t, p) /\ (bp > p \/ bp < Ptr(t, p))
  THEN p ELSE After(t, Ptr(t, p), bp)

\* Joining with the block above, then with the one below.  A header that is
\* no longer one is cleared.
Dead == [ptr |-> 0, size |-> 0]
\* Mutant: joins with the block above without its size.
JoinUpShort(t, p, bp) ==
  IF bp + Size(t, bp) = Ptr(t, p)
  THEN [t EXCEPT !.hdr[bp].ptr = Ptr(t, Ptr(t, p)), !.hdr[Ptr(t, p)] = Dead]
  ELSE [t EXCEPT !.hdr[bp].ptr = Ptr(t, p)]
JoinUp(t, p, bp) ==
  IF bp + Size(t, bp) = Ptr(t, p)
  THEN [t EXCEPT !.hdr[bp] = [ptr |-> Ptr(t, Ptr(t, p)), size |-> @.size + Size(t, Ptr(t, p))],
                 !.hdr[Ptr(t, p)] = Dead]
  ELSE [t EXCEPT !.hdr[bp].ptr = Ptr(t, p)]
JoinDown(t, p, bp) ==
  IF p + Size(t, p) = bp
  THEN [t EXCEPT !.hdr[p] = [ptr |-> Ptr(t, bp), size |-> @.size + Size(t, bp)], !.hdr[bp] = Dead]
  ELSE [t EXCEPT !.hdr[p].ptr = bp]

free(t, bp) ==
  LET p == After(t, t.freep, bp)
  IN [JoinDown(JoinUp(t, p, bp), p, bp) EXCEPT !.freep = p]

\* sbrk, and the new core is freed.
CoreSize(n) == Max({n, MinCore})
morecore(t, n) ==
  free([t EXCEPT !.hdr[t.brk].size = CoreSize(n), !.brk = @ + CoreSize(n)], t.brk)

\* Block p, behind prevp, is unlinked, or its tail is cut off.
Take(t, prevp, p, n) ==
  LET q == p + Size(t, p) - n
  IN IF Size(t, p) = n
     THEN [t |-> [t EXCEPT !.hdr[prevp].ptr = Ptr(t, p), !.hdr[p].ptr = 0, !.freep = prevp], at |-> p]
     ELSE [t |-> [t EXCEPT !.hdr[p].size = @ - n, !.hdr[q].size = n, !.freep = prevp], at |-> q]

RECURSIVE Search(_, _, _, _)
Search(t, prevp, p, n) ==
  IF Size(t, p) >= n THEN Take(t, prevp, p, n)
  ELSE IF p # t.freep THEN Search(t, p, Ptr(t, p), n)
  ELSE IF t.brk + CoreSize(n) > HEAP THEN [t |-> t, at |-> NULL]
  ELSE LET u == morecore(t, n) IN Search(u, u.freep, Ptr(u, u.freep), n)

Malloc(n) ==
  LET t == IF s.freep # NULL THEN s ELSE [s EXCEPT !.freep = 0, !.hdr[0] = [ptr |-> 0, size |-> 0]]
      got == Search(t, t.freep, Ptr(t, t.freep), n)
  IN /\ s' = got.t
     /\ used' = IF got.at = NULL THEN used ELSE used \cup {<<got.at, n>>}
     /\ UNCHANGED others

Free(b) ==
  /\ b \in used /\ used' = used \ {b}
  /\ s' = free(s, b[1])
  /\ UNCHANGED others

\* The program moves the break itself.
OtherSbrk ==
  /\ s.brk < HEAP
  /\ s' = [s EXCEPT !.brk = @ + 1] /\ others' = others \cup {<<s.brk, 1>>}
  /\ UNCHANGED used

Next == OtherSbrk \/ (\E n \in 2..MaxUnits : Malloc(n)) \/ (\E b \in used : Free(b))

Spec == Init /\ [][Next]_vars

-----------------------------------------------------------------------------
\* The free list, from base around to base.
RECURSIVE ListFrom(_)
ListFrom(a) == IF a = 0 THEN {} ELSE {<<a, Size(s, a)>>} \cup ListFrom(Ptr(s, a))
Units(b) == b[1]..(b[1] + b[2] - 1)

\* The free blocks, the blocks in use and the memory of others tile the heap:
\* no two overlap, nothing is lost, and the headers of used blocks still tell
\* their sizes; the list is in the order of addresses, and two free blocks
\* never touch, as free joins them.
HeapTiled ==
  s.freep # NULL =>
    LET list == ListFrom(Ptr(s, 0))
        all == list \cup used \cup others
    IN /\ UNION {Units(b) : b \in all} = 1..(s.brk - 1)
       /\ \A b, c \in all : b # c => Units(b) \cap Units(c) = {}
       /\ \A b \in used : Size(s, b[1]) = b[2]
       /\ \A b, c \in list : b[1] + b[2] # c[1]
       /\ \A b \in list : Ptr(s, b[1]) > b[1] \/ Ptr(s, b[1]) = 0
=============================================================================
