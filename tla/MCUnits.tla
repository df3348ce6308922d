------------------------------- MODULE MCUnits ------------------------------
(***************************************************************************)
(* Eight small parts of the system for TLC, of which a behaviour runs one: *)
(* the contents of inodes, user memory, the user-level allocator, spin     *)
(* locks, console input, the shell's parser, filters and names.            *)
(***************************************************************************)
EXTENDS Integers, Sequences

VARIABLES
  unit,                                                     \* which part runs
  d, size, off, ilock, wr, mounted, ops, content,           \* Inode
  m, sz, job, emptied, leaked, calls,                       \* Vm
  s, used, others,                                          \* Umalloc
  IF_, ncli, intena, owner, stack,                          \* Spinlock
  buf, r, w, e, lock, rd, line, lines,                      \* Console
  text,                                                     \* ShellParse
  input, re, carry, out, count, cut,                        \* Filters
  path                                                      \* Names

I == INSTANCE Inode WITH Proc <- {1, 2}, File <- {1, 2}, BSIZE <- 2, NDIRECT <- 1,
       NBLOCKS <- 8, Width <- 4, MaxChunk <- 2, MaxWrite <- 3, MaxOps <- 4
V == INSTANCE Vm WITH Proc <- {1, 2}, NPAGES <- 13, PGSIZE <- 2, NPTE <- 2, KERNBASE <- 10,
       Width <- 5, IntArg <- {-16, -7, -2, -1, 1, 5, 15}, MaxOps <- 5, ArgLen <- {1, 3}, WORD <- 2,
       Program <- {<<>>, <<<<0, 3>>>>, <<<<0, 1>>, <<2, 2>>>>, <<<<1, 1>>>>, <<<<6, 26>>>>}
U == INSTANCE Umalloc WITH HEAP <- 13, MinCore <- 5, MaxUnits <- 4
L == INSTANCE Spinlock WITH Cpu <- {1, 2}, Lock <- {1, 2}
C == INSTANCE Console WITH Thread <- {1, 2}, INPUT_BUF <- 4, Wrap <- 8, MaxRead <- 2
P == INSTANCE ShellParse WITH MAXARGS <- 3, MaxTokens <- 5
F == INSTANCE Filters WITH BUFSIZE <- 5, MaxInput <- 6,
       Patterns <- {<<>>, <<"^", "a">>, <<"a", "$">>, <<"^", "a", "*", "$">>,
                    <<".", "*", "a">>, <<"a", " ", "*", "a", "$">>, <<"^", ".", "$">>}
N == INSTANCE Names WITH DIRSIZ <- 2, MaxPath <- 6

inode == <<d, size, off, ilock, wr, mounted, ops, content>>
vm == <<m, sz, job, emptied, leaked, calls>>
umalloc == <<s, used, others>>
spinlock == <<IF_, ncli, intena, owner, stack>>
console == <<buf, r, w, e, lock, rd, line, lines>>
filters == <<input, re, carry, out, count, cut>>
othertext == <<text, filters, path>>
vars == <<unit, inode, vm, umalloc, spinlock, console, othertext>>

Init ==
  /\ unit \in {"inode", "vm", "umalloc", "spinlock", "console", "parse", "filters", "names"}
  /\ I!Init /\ V!Init /\ U!Init /\ L!SpinInit /\ C!Init /\ P!Init /\ F!Init /\ N!Init
  /\ unit # "filters" => re = <<>>

\* One part takes a step, the others rest.
Next ==
  \/ /\ unit = "inode" /\ I!Next
     /\ UNCHANGED <<unit, vm, umalloc, spinlock, console, othertext>>
  \/ /\ unit = "vm" /\ V!Next
     /\ UNCHANGED <<unit, inode, umalloc, spinlock, console, othertext>>
  \/ /\ unit = "umalloc" /\ U!Next
     /\ UNCHANGED <<unit, inode, vm, spinlock, console, othertext>>
  \/ /\ unit = "spinlock" /\ L!SpinNext
     /\ UNCHANGED <<unit, inode, vm, umalloc, console, othertext>>
  \/ /\ unit = "console" /\ C!Next
     /\ UNCHANGED <<unit, inode, vm, umalloc, spinlock, othertext>>
  \/ /\ unit = "parse" /\ P!Next
     /\ UNCHANGED <<unit, inode, vm, umalloc, spinlock, console, filters, path>>
  \/ /\ unit = "filters" /\ F!Next
     /\ UNCHANGED <<unit, inode, vm, umalloc, spinlock, console, text, path>>
  \/ /\ unit = "names" /\ N!Next
     /\ UNCHANGED <<unit, inode, vm, umalloc, spinlock, console, text, filters>>

Spec == Init /\ [][Next]_vars

-----------------------------------------------------------------------------
\* The bitmap and the inodes agree, and a file reads as it was written (fs.c
\* balloc, bmap, itrunc, readi, writei; file.c; mkfs).
ContentExact == unit = "inode" => I!BlocksExact /\ I!ReadBack
\* Pages are neither lost nor used twice wherever memory runs out, and a process
\* has the pages below its size (vm.c, growproc, exec).
MemoryExact == unit = "vm" => V!PagesExact /\ V!MappedExact
\* malloc and free tile the heap (umalloc.c).
HeapTiled == unit = "umalloc" => U!HeapTiled
\* Nobody spins for a lock that waits for it, interrupts included, and pushcli
\* and popcli leave interrupts as they were (spinlock.c).
SpinSafe == unit = "spinlock" => L!NoCircle /\ L!FlagsMatch
\* Readers get what was typed and not erased, and one that sleeps can be served
\* (console.c).
ConsoleExact == unit = "console" => C!InputExact /\ C!ReaderServed
\* The shell's parser gives the tree of the grammar (sh.c).
ParsesGrammar == unit = "parse" => P!ParsesGrammar
\* grep and wc do not depend on how their input comes in pieces, and names are
\* told apart by their first DIRSIZ characters (grep.c, wc.c; fs.c skipelem,
\* string.c).
TextExact == (unit = "filters" => F!FiltersExact) /\ (unit = "names" => N!NamesExact)
=============================================================================
