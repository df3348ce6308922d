-------------------------------- MODULE Vm ----------------------------------
(***************************************************************************)
(* User memory: the page allocator of kalloc.c, the page tables of vm.c,   *)
(* and their users sbrk, fork, exec and exit.  Memory may run out at every *)
(* page, since the processes allocate page by page from one free list.     *)
(* The kernel's half of a page table is one page (ktab); addresses count   *)
(* bytes, PGSIZE to a page and NPTE pages to a page table.                 *)
(***************************************************************************)
EXTENDS Integers, FiniteSets, FiniteSetsExt, Sequences

CONSTANTS Proc,      \* process slots, the first process is 1
          NPAGES,    \* pages of memory
          PGSIZE, NPTE,
          KERNBASE,  \* the end of user memory, a multiple of PGSIZE
          Width,     \* the bits of a uint
          IntArg,    \* the ints that programs pass
          Program,   \* the files exec is given: sequences of <<vaddr, memsz>>
          ArgLen,    \* the bytes of the arguments of exec
          WORD,      \* the bytes of an int
          MaxOps     \* bound on the system calls of a behaviour

Page == 1..NPAGES
VPN == 0..(KERNBASE \div PGSIZE - 1)
Table == 0..((KERNBASE \div PGSIZE - 1) \div NPTE)
PGROUNDUP(a) == ((a + PGSIZE - 1) \div PGSIZE) * PGSIZE
Uint(n) == n % 2^Width

VARIABLES
  m,       \* the free list and the page tables: <<p, "cur">> is p->pgdir,
           \* <<p, "new">> the one that p builds in fork or exec
  sz,      \* p->sz
  job,     \* the system call p is in
  emptied, \* sbrk has unmapped all of p, and failed: p cannot run on
  leaked,  \* pages that copyuvm has dropped
  calls      \* how many system calls there were

vars == <<m, sz, job, emptied, leaked, calls>>

NoDir == [dir |-> 0, ktab |-> 0, tab |-> [t \in Table |-> 0],
          pte |-> [v \in VPN |-> 0], nouser |-> {}]
Idle == [op |-> "idle", a |-> 0, to |-> 0, old |-> 0, arg |-> <<>>]

\* userinit: one page for initcode.
Init ==
  /\ m = [free |-> Page \ 1..4,
          pd |-> [x \in Proc \X {"cur", "new"} |->
                    IF x # <<1, "cur">> THEN NoDir
                    ELSE [NoDir EXCEPT !.dir = 1, !.ktab = 2, !.tab[0] = 3, !.pte[0] = 4]]]
  /\ sz = [p \in Proc |-> IF p = 1 THEN PGSIZE ELSE 0]
  /\ job = [p \in Proc |-> Idle]
  /\ emptied = {} /\ leaked = {} /\ calls = 0

-----------------------------------------------------------------------------
(***************************************************************************)
(* kalloc, setupkvm, mappages, deallocuvm, freevm                          *)
(***************************************************************************)
kalloc(e) == Min(e.free)

\* setupkvm: the directory and the kernel's table, or nothing of both.
setupkvm(e, x) ==
  LET d == kalloc(e)
      k == Min(e.free \ {d})
  IN [e EXCEPT !.free = @ \ {d, k}, !.pd[x] = [NoDir EXCEPT !.dir = d, !.ktab = k]]

\* A page is allocated and mapped at page v of table x; mem is what stays in
\* hand when there is no page left for the page table.
mappage(e, x, v) ==
  LET mem == kalloc(e)
      t == v \div NPTE
      rest == e.free \ {mem}
  IN IF e.free = {} THEN [ok |-> FALSE, mem |-> {}, e |-> e]
     ELSE IF e.pd[x].tab[t] # 0
     THEN [ok |-> TRUE, mem |-> {}, e |-> [e EXCEPT !.free = rest, !.pd[x].pte[v] = mem]]
     ELSE IF rest = {} THEN [ok |-> FALSE, mem |-> {mem}, e |-> [e EXCEPT !.free = rest]]
     ELSE [ok |-> TRUE, mem |-> {},
           e |-> [e EXCEPT !.free = rest \ {Min(rest)}, !.pd[x].pte[v] = mem,
                           !.pd[x].tab[t] = Min(rest)]]

kfree(e, pages) == [e EXCEPT !.free = @ \cup pages]

\* The pages that deallocuvm(oldsz, newsz) unmaps.
Unmaps(oldsz, newsz) == {v \in VPN : v * PGSIZE >= PGROUNDUP(newsz) /\ v * PGSIZE < oldsz}

deallocuvm(e, x, oldsz, newsz) ==
  LET vs == Unmaps(oldsz, newsz)
  IN [kfree(e, {e.pd[x].pte[v] : v \in vs} \ {0}) EXCEPT
        !.pd[x].pte = [v \in VPN |-> IF v \in vs THEN 0 ELSE @[v]]]

\* Mutant: the page tables stay allocated.
freevmNoTables(e, x) ==
  LET g == deallocuvm(e, x, KERNBASE, 0)
  IN [kfree(g, {g.pd[x].dir, g.pd[x].ktab}) EXCEPT !.pd[x] = NoDir]
freevm(e, x) ==
  LET g == deallocuvm(e, x, KERNBASE, 0)
  IN [kfree(g, ({g.pd[x].tab[t] : t \in Table} \ {0}) \cup {g.pd[x].dir, g.pd[x].ktab})
        EXCEPT !.pd[x] = NoDir]

-----------------------------------------------------------------------------
Alive(p) == m.pd[<<p, "cur">>].dir # 0
Call(p) == Alive(p) /\ job[p] = Idle /\ p \notin emptied /\ calls < MaxOps /\ calls' = calls + 1
SetJob(p, j) == job' = [job EXCEPT ![p] = j]

(***************************************************************************)
(* sbrk: growproc                                                          *)
(***************************************************************************)
\* Shrinking is done at once.  A new size of zero is taken for an error after
\* all pages are gone, and one below zero for no change.
SbrkShrink(p, n) ==
  /\ Call(p) /\ n < 0
  /\ LET newsz == Uint(sz[p] + n)
     IN IF newsz >= sz[p] THEN UNCHANGED <<m, sz, emptied>>
        ELSE /\ m' = deallocuvm(m, <<p, "cur">>, sz[p], newsz)
             /\ sz' = [sz EXCEPT ![p] = IF newsz = 0 THEN @ ELSE newsz]
             /\ emptied' = IF newsz = 0 THEN emptied \cup {p} ELSE emptied
  /\ UNCHANGED <<job, leaked>>

\* A size that wraps around is taken for no change.
SbrkGrow(p, n) ==
  /\ Call(p) /\ n > 0 /\ Uint(sz[p] + n) \in sz[p]..(KERNBASE - 1)
  /\ SetJob(p, [op |-> "grow", a |-> PGROUNDUP(sz[p]), to |-> Uint(sz[p] + n), old |-> sz[p], arg |-> <<>>])
  /\ UNCHANGED <<m, sz, emptied, leaked>>

Target(p) == <<p, IF job[p].op = "grow" THEN "cur" ELSE "new">>

\* One page of allocuvm.  When memory runs out what this call has allocated is
\* freed, and exec frees the rest.
AllocPage(p) ==
  /\ job[p].op \in {"grow", "seg", "stack"} /\ job[p].a < job[p].to
  /\ LET x == Target(p)
         r == mappage(m, x, job[p].a \div PGSIZE)
         undone == kfree(deallocuvm(r.e, x, job[p].to, job[p].old), r.mem)
     IN IF r.ok
        THEN m' = r.e /\ SetJob(p, [job[p] EXCEPT !.a = @ + PGSIZE])
        ELSE /\ m' = IF job[p].op = "grow" THEN undone ELSE freevm(undone, x)
             /\ SetJob(p, Idle)
  /\ UNCHANGED <<sz, emptied, leaked, calls>>

GrowDone(p) ==
  /\ job[p].op = "grow" /\ job[p].a >= job[p].to
  /\ sz' = [sz EXCEPT ![p] = job[p].to]
  /\ SetJob(p, Idle)
  /\ UNCHANGED <<m, emptied, leaked, calls>>

-----------------------------------------------------------------------------
(***************************************************************************)
(* fork: copyuvm                                                           *)
(***************************************************************************)
Fork(p, c) ==
  /\ Call(p) /\ ~Alive(c) /\ \A q \in Proc : job[q].op = "fork" => job[q].arg # <<c>>
  /\ IF Cardinality(m.free) < 2 THEN UNCHANGED <<m, job>>
     ELSE m' = setupkvm(m, <<p, "new">>) /\ SetJob(p, [Idle EXCEPT !.op = "fork", !.to = sz[p], !.arg = <<c>>])
  /\ UNCHANGED <<sz, emptied, leaked>>

\* One page of copyuvm.  On failure the new table is freed, but not the page in hand.
CopyPage(p) ==
  /\ job[p].op = "fork" /\ job[p].a < job[p].to
  /\ LET v == job[p].a \div PGSIZE
         r == mappage(m, <<p, "new">>, v)
     IN IF r.ok
        THEN /\ m' = IF v \in m.pd[<<p, "cur">>].nouser
                     THEN [r.e EXCEPT !.pd[<<p, "new">>].nouser = @ \cup {v}] ELSE r.e
             /\ SetJob(p, [job[p] EXCEPT !.a = @ + PGSIZE]) /\ UNCHANGED leaked
        ELSE /\ m' = freevm(r.e, <<p, "new">>)
             /\ leaked' = leaked \cup r.mem /\ SetJob(p, Idle)
  /\ UNCHANGED <<sz, emptied, calls>>

ForkDone(p) ==
  /\ job[p].op = "fork" /\ job[p].a >= job[p].to
  /\ m' = [m EXCEPT !.pd[<<job[p].arg[1], "cur">>] = m.pd[<<p, "new">>], !.pd[<<p, "new">>] = NoDir]
  /\ sz' = [sz EXCEPT ![job[p].arg[1]] = sz[p]]
  /\ SetJob(p, Idle)
  /\ UNCHANGED <<emptied, leaked, calls>>

\* exit, and wait in the parent, which frees the memory of c.
Reap(c) ==
  /\ Alive(c) /\ c # 1 /\ job[c] = Idle /\ calls < MaxOps /\ calls' = calls + 1
  /\ m' = freevm(m, <<c, "cur">>)
  /\ sz' = [sz EXCEPT ![c] = 0] /\ emptied' = emptied \ {c}
  /\ UNCHANGED <<job, leaked>>

-----------------------------------------------------------------------------
(***************************************************************************)
(* exec: the segments, the stack, and the change of the image.  old is the *)
(* size so far, arg the segments left.                                     *)
(***************************************************************************)
Exec(p, prog) ==
  /\ Call(p)
  /\ IF Cardinality(m.free) < 2 THEN UNCHANGED <<m, job>>
     ELSE m' = setupkvm(m, <<p, "new">>) /\ SetJob(p, [Idle EXCEPT !.op = "next", !.arg = prog])
  /\ UNCHANGED <<sz, emptied, leaked>>

ExecBad(p) == m' = freevm(m, <<p, "new">>) /\ SetJob(p, Idle)

\* allocuvm(sz, newsz) for the next segment or the stack.
ExecAlloc(p, op, old, newsz) ==
  IF newsz >= KERNBASE \/ Max({old, newsz}) = 0 THEN ExecBad(p)
  ELSE /\ SetJob(p, [op |-> op, a |-> PGROUNDUP(old), to |-> Max({old, newsz}), old |-> old, arg |-> job[p].arg])
       /\ UNCHANGED m

\* A segment; its header may be unreadable or wrong.
ExecSegment(p) ==
  /\ job[p].op = "next" /\ job[p].arg # <<>>
  /\ LET vaddr == Head(job[p].arg)[1]
         end == Uint(vaddr + Head(job[p].arg)[2])
     IN \/ ExecBad(p)
        \/ end >= vaddr /\ ExecAlloc(p, "seg", job[p].old, end)
  /\ UNCHANGED <<sz, emptied, leaked, calls>>

\* loaduvm finds every page that it loads the file into.
loaduvm(x, vaddr, end) == \A v \in VPN : v * PGSIZE >= vaddr /\ v * PGSIZE < end => x.pte[v] # 0
Loads(p) == job[p].op = "seg" /\ job[p].a >= job[p].to /\ Head(job[p].arg)[1] % PGSIZE = 0

\* A segment must begin a page; the file may be too short.
SegmentDone(p) ==
  /\ job[p].op = "seg" /\ job[p].a >= job[p].to
  /\ \/ ExecBad(p)
     \/ /\ Head(job[p].arg)[1] % PGSIZE = 0
        /\ SetJob(p, [Idle EXCEPT !.op = "next", !.old = job[p].to, !.arg = Tail(job[p].arg)])
        /\ UNCHANGED m
  /\ UNCHANGED <<sz, emptied, leaked, calls>>

ExecStack(p) ==
  /\ job[p].op = "next" /\ job[p].arg = <<>>
  /\ LET old == PGROUNDUP(job[p].old) IN ExecAlloc(p, "stack", old, Uint(old + 2 * PGSIZE))
  /\ UNCHANGED <<sz, emptied, leaked, calls>>

clearpteu(x, uva) == [x EXCEPT !.nouser = {uva \div PGSIZE}]
uva2ka(x, v) == x.pte[v] # 0 /\ v \notin x.nouser
copyout(x, va, len) == \A v \in (va \div PGSIZE)..((va + len - 1) \div PGSIZE) : uva2ka(x, v)

\* The page below the stack is taken from the user, the arguments are copied
\* out unless they are too long for the stack, and the old image is freed.
ExecDone(p, len) ==
  /\ job[p].op = "stack" /\ job[p].a >= job[p].to
  /\ LET new == clearpteu(m.pd[<<p, "new">>], job[p].to - 2 * PGSIZE)
     IN IF ~copyout(new, job[p].to - len, len) THEN ExecBad(p) /\ UNCHANGED sz
        ELSE /\ m' = [freevm(m, <<p, "cur">>) EXCEPT !.pd[<<p, "cur">>] = new, !.pd[<<p, "new">>] = NoDir]
             /\ sz' = [sz EXCEPT ![p] = job[p].to] /\ SetJob(p, Idle)
  /\ UNCHANGED <<emptied, leaked, calls>>

-----------------------------------------------------------------------------
(***************************************************************************)
(* Arguments of system calls: the bytes of a process of size s that the    *)
(* kernel uses after its checks of the address a and the int n.            *)
(***************************************************************************)
fetchint(s, a) == IF a >= s \/ Uint(a + WORD) > s THEN {} ELSE a..(a + WORD - 1)
fetchstr(s, a) == a..(s - 1)
argptr(s, a, n) == IF n < 0 \/ a >= s \/ Uint(a + Uint(n)) > s THEN {} ELSE a..(a + n - 1)

\* The pages of those bytes, whatever the arguments are.
ArgPages == [s \in 0..KERNBASE |->
  {b \div PGSIZE : b \in UNION {fetchint(s, a) \cup fetchstr(s, a)
     \cup UNION {argptr(s, a, n) : n \in IntArg} : a \in 0..(2^Width - 1)}}]

-----------------------------------------------------------------------------
Next ==
  \E p \in Proc :
    \/ AllocPage(p) \/ GrowDone(p) \/ CopyPage(p) \/ ForkDone(p) \/ Reap(p)
    \/ ExecSegment(p) \/ SegmentDone(p) \/ ExecStack(p) \/ \E len \in ArgLen : ExecDone(p, len)
    \/ \E n \in IntArg : SbrkShrink(p, n) \/ SbrkGrow(p, n)
    \/ \E c \in Proc : Fork(p, c)
    \/ \E prog \in Program : Exec(p, prog)

Spec == Init /\ [][Next]_vars

-----------------------------------------------------------------------------
Entries == ({<<"dir", 0>>, <<"ktab", 0>>} \cup ({"tab"} \X Table) \cup ({"pte"} \X VPN))
PageOf(x, i) == CASE i[1] = "dir" -> m.pd[x].dir [] i[1] = "ktab" -> m.pd[x].ktab
                  [] i[1] = "tab" -> m.pd[x].tab[i[2]] [] OTHER -> m.pd[x].pte[i[2]]
InUse(x) == {i \in Entries : PageOf(x, i) # 0}

\* Every page is on the free list or in exactly one place of one page table,
\* whatever call ran out of memory and where: no page is freed twice, mapped
\* twice or lost, the pages that copyuvm drops excepted.
PagesExact ==
  LET X == DOMAIN m.pd
      used == UNION {{PageOf(x, i) : i \in InUse(x)} : x \in X}
  IN /\ m.free \cap used = {} /\ leaked \cap (m.free \cup used) = {}
     /\ m.free \cup used \cup leaked = Page
     /\ Cardinality(used) = MapThenSumSet(LAMBDA x : Cardinality(InUse(x)), X)

Mapped(p) == {v \in VPN : m.pd[<<p, "cur">>].pte[v] # 0}

\* A process has the pages below p->sz and no others, so that copyuvm finds
\* every page it copies and the kernel every byte of an argument that it has
\* checked against sz, unless sbrk has emptied the process; loaduvm does not
\* panic, and nobody is left with a page table of a call that has ended.
MappedExact ==
  \A p \in Proc :
    /\ Alive(p) /\ p \notin emptied =>
         /\ ArgPages[sz[p]] \subseteq Mapped(p)
         /\ job[p].op # "grow" => Mapped(p) = {v \in VPN : v * PGSIZE < sz[p]}
    /\ Loads(p) =>
         LET seg == Head(job[p].arg) IN loaduvm(m.pd[<<p, "new">>], seg[1], seg[1] + seg[2])
    /\ job[p] = Idle => m.pd[<<p, "new">>] = NoDir
=============================================================================
