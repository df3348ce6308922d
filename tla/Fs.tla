--------------------------------- MODULE Fs ---------------------------------
(***************************************************************************)
(* The name and inode layers of fs.c under the system calls of sysfile.c.  *)
(* A call is a list of instructions; one step runs one of them, from one   *)
(* wait for an inode's sleep lock to the next.  What happens to the blocks *)
(* of an inode is in module Inode; a call is one transaction of the log,   *)
(* so that what a crash leaves is what a moment without calls leaves.      *)
(***************************************************************************)
EXTENDS Naturals, Sequences, FiniteSets

CONSTANTS Proc, Name,
          NINODES,   \* the inodes of the disk; inode 1 is the root
          Made,      \* what mkdir and mknod make: "dir", "dev"
          Paths,     \* the paths of the calls, of one name or two
          MaxCalls,  \* the calls a behaviour makes
          None

Inum == 1..NINODES
Root == 1

VARIABLES
  disk,         \* the inodes on disk, a directory with its entries
  mem,          \* type and nlink of the cached inodes
  ref, valid, lock,
  cwd, file,    \* of each process the directory and an open file
  call,         \* the call a process is in
  calls,        \* the calls made so far
  lost          \* the inodes named in a directory that had been removed

vars == <<disk, mem, ref, valid, lock, cwd, file, call, calls, lost>>

Empty == [n \in Name |-> 0]
Free == [type |-> "free", nlink |-> 0, ent |-> Empty]
Idle == [code |-> <<>>, bad |-> <<>>, ip |-> 0, dp |-> 0, name |-> None]

\* The image that mkfs makes, and every process in its root directory.
Init ==
  /\ disk = [i \in Inum |-> IF i = Root THEN [Free EXCEPT !.type = "dir", !.nlink = 1]
                            ELSE Free]
  /\ mem = [i \in Inum |-> [type |-> "free", nlink |-> 0]]
  /\ ref = [i \in Inum |-> IF i = Root THEN Cardinality(Proc) ELSE 0]
  /\ valid = [i \in Inum |-> FALSE]
  /\ lock = [i \in Inum |-> None]
  /\ cwd = [p \in Proc |-> Root] /\ file = [p \in Proc |-> 0]
  /\ call = [p \in Proc |-> Idle] /\ calls = 0
  /\ lost = {}

-----------------------------------------------------------------------------
(***************************************************************************)
(* The inode cache.  An entry is named by its inode number: iget finds the *)
(* one that has it, if ref > 0, or recycles an entry with valid = 0.       *)
(***************************************************************************)
\* Mutant: the entry is recycled although it is in use.
igetRecycles(i) == [ref EXCEPT ![i] = 1]
iget(i) == [ref EXCEPT ![i] = @ + 1]

\* What ilock gives of inode i: the cached fields, read from disk if need be.
Locked(i) == IF valid[i] THEN mem[i] ELSE [type |-> disk[i].type, nlink |-> disk[i].nlink]

\* ilock(i) by p, to be released in the same step or later.
ilock(i) ==
  /\ lock[i] = None /\ Locked(i).type # "free"
  /\ valid' = [valid EXCEPT ![i] = TRUE]

\* iupdate: the fields of the inodes in f go to the cache and to disk.
iupdate(f) ==
  /\ mem' = [i \in Inum |-> IF i \in DOMAIN f THEN f[i] ELSE
                            IF valid'[i] /\ ~valid[i] THEN Locked(i) ELSE mem[i]]
  /\ disk' = [i \in Inum |-> IF i \in DOMAIN f
                             THEN [disk[i] EXCEPT !.type = f[i].type, !.nlink = f[i].nlink]
                             ELSE disk[i]]
noUpdate == iupdate(<<>>)

Now(p) == Head(call[p].code)
At(p, op) == call[p].code # <<>> /\ Now(p)[1] = op

\* The call goes on with the record c; its locals end with it.
Go(p, c) == call' = [call EXCEPT ![p] = IF c.code = <<>> THEN Idle ELSE c]
Do(p, first) == Go(p, [call[p] EXCEPT !.code = first \o Tail(@)])
Fail(p, first) == Go(p, [call[p] EXCEPT !.code = first \o call[p].bad, !.bad = <<>>])

\* Mutant: the references are not looked at.
LastLink(i) == valid[i] /\ mem[i].nlink = 0
Last(i) == valid[i] /\ mem[i].nlink = 0 /\ ref[i] = 1

\* iput: with the last reference to an inode without links the inode is
\* freed; ref is read and the inode freed under its lock, ref dropped after.
Iput(p) ==
  /\ At(p, "iput")
  /\ LET i == Now(p)[2]
     IN /\ lock[i] = None
        /\ lock' = [lock EXCEPT ![i] = IF Last(i) THEN p ELSE None]
        /\ Do(p, <<<<IF Last(i) THEN "ifree" ELSE "idrop", i>>>>)
  /\ UNCHANGED <<disk, mem, ref, valid, cwd, file, lost>>

Ifree(p) ==
  /\ At(p, "ifree")
  /\ LET i == Now(p)[2]
     IN /\ disk' = [disk EXCEPT ![i] = Free]
        /\ mem' = [mem EXCEPT ![i].type = "free"]
        /\ valid' = [valid EXCEPT ![i] = FALSE]
        /\ lock' = [lock EXCEPT ![i] = None]
        /\ Do(p, <<<<"idrop", i>>>>)
  /\ UNCHANGED <<ref, cwd, file, lost>>

\* An entry without references is as good as recycled.
Idrop(p) ==
  /\ At(p, "idrop")
  /\ LET i == Now(p)[2]
         gone == ref[i] = 1
     IN /\ ref' = [ref EXCEPT ![i] = @ - 1]
        /\ valid' = [valid EXCEPT ![i] = @ /\ ~gone]
        /\ mem' = [mem EXCEPT ![i] = IF gone THEN [type |-> "free", nlink |-> 0] ELSE @]
        /\ Do(p, <<>>)
  /\ UNCHANGED <<disk, lock, cwd, file, lost>>

-----------------------------------------------------------------------------
(***************************************************************************)
(* Directories: the inode that an entry names, 0 for none, and the disk    *)
(* e with a new entry.  namex does one element of the path per step.       *)
(***************************************************************************)
dirlookup(dp, name) == disk[dp].ent[name]
dirlink(e, dp, name, ip) == [e EXCEPT ![dp].ent[name] = ip]

namei(i, path) == <<"namex", i, path, FALSE>>
nameiparent(i, path) == <<"namex", i, path, TRUE>>

Namex(p) ==
  /\ At(p, "namex")
  /\ LET i == Now(p)[2]
         path == Now(p)[3]
         parent == Now(p)[4]
         stop == parent /\ Len(path) = 1
         next == dirlookup(i, path[1])
     IN \/ /\ path = <<>>
           /\ IF parent THEN Fail(p, <<<<"iput", i>>>>)
              ELSE Go(p, [call[p] EXCEPT !.code = Tail(@), !.ip = i])
           /\ UNCHANGED <<ref, valid, disk, mem>>
        \/ /\ path # <<>> /\ ilock(i) /\ noUpdate
           /\ IF Locked(i).type # "dir" \/ (~stop /\ next = 0)
              THEN Fail(p, <<<<"iput", i>>>>) /\ UNCHANGED ref
              ELSE IF stop
              THEN /\ Go(p, [call[p] EXCEPT !.code = Tail(@), !.dp = i, !.name = path[1]])
                   /\ UNCHANGED ref
              ELSE /\ ref' = iget(next)
                   /\ Do(p, <<<<"iput", i>>, <<"namex", next, Tail(path), parent>>>>)
  /\ UNCHANGED <<lock, cwd, file, lost>>

-----------------------------------------------------------------------------
(***************************************************************************)
(* create                                                                  *)
(***************************************************************************)
\* ialloc takes the first free inode.
ialloc(i, type) ==
  /\ disk[i].type = "free" /\ \A j \in 1..(i - 1) : disk[j].type # "free"
  /\ disk' = [disk EXCEPT ![i] = [Free EXCEPT !.type = type]]
  /\ ref' = iget(i)

\* dirlookup in the locked directory dp, and ialloc when the name is new.
Create(p) ==
  /\ At(p, "create")
  /\ LET dp == call[p].dp
         type == Now(p)[2]
         old == dirlookup(dp, call[p].name)
     IN /\ ilock(dp)
        /\ \/ /\ old # 0
              /\ ref' = iget(old)
              /\ Go(p, [call[p] EXCEPT !.ip = old,
                        !.code = <<<<"iput", dp>>, <<"created", type>>>> \o Tail(@)])
              /\ UNCHANGED lock /\ noUpdate
           \/ /\ old = 0
              /\ \E i \in Inum :
                   /\ ialloc(i, type)
                   /\ mem' = [mem EXCEPT ![dp] = Locked(dp)]
                   /\ Go(p, [call[p] EXCEPT !.ip = i,
                             !.code = <<<<"dirlink", type>>>> \o Tail(@)])
              /\ lock' = [lock EXCEPT ![dp] = p]
  /\ UNCHANGED <<cwd, file, lost>>

\* The name exists: only open, of a file, goes on with it, locked.
Created(p) ==
  /\ At(p, "created")
  /\ LET ip == call[p].ip
     IN /\ ilock(ip) /\ noUpdate
        /\ \/ /\ Now(p)[2] = "file" /\ Locked(ip).type = "file"
              /\ lock' = [lock EXCEPT ![ip] = p] /\ Do(p, <<>>)
           \/ /\ ~(Now(p)[2] = "file" /\ Locked(ip).type = "file")
              /\ Fail(p, <<<<"iput", ip>>>>) /\ UNCHANGED lock
  /\ UNCHANGED <<ref, cwd, file, lost>>

\* The new inode gets its link, a directory its dots, and dp the entry.
Dirlink(p) ==
  /\ At(p, "dirlink")
  /\ LET ip == call[p].ip
         dp == call[p].dp
         up == IF Now(p)[2] = "dir" THEN 1 ELSE 0
     IN /\ ilock(ip)
        /\ mem' = [mem EXCEPT ![ip] = [type |-> Locked(ip).type, nlink |-> 1],
                              ![dp].nlink = @ + up]
        /\ disk' = dirlink([disk EXCEPT ![ip].nlink = 1, ![dp].nlink = mem[dp].nlink + up],
                           dp, call[p].name, ip)
        /\ lost' = lost \cup IF mem[dp].nlink = 0 THEN {ip, dp} ELSE {}
        /\ lock' = [lock EXCEPT ![dp] = None, ![ip] = p]
        /\ Do(p, <<<<"iput", dp>>>>)
  /\ UNCHANGED <<ref, cwd, file>>

-----------------------------------------------------------------------------
(***************************************************************************)
(* The system calls                                                        *)
(***************************************************************************)
\* begin_op, and the start of namex at the root or at the current directory.
Begin(p, from, code) ==
  /\ call[p] = Idle
  /\ Go(p, [Idle EXCEPT !.code = code])
  /\ ref' = iget(from)
  /\ UNCHANGED <<disk, mem, valid, lock, cwd, file, lost>>

\* ialloc finds a free inode for every call that may need one.
InodesLeft == Cardinality({i \in Inum : disk[i].type = "free"})
              > Cardinality({p \in Proc : \E k \in DOMAIN call[p].code :
                                 call[p].code[k][1] = "create"})

sys_open(p, from, path) ==
  Begin(p, from, <<namei(from, path), <<"open">>, <<"fdalloc">>>>)
sys_open_create(p, from, path) ==
  /\ InodesLeft
  /\ Begin(p, from, <<nameiparent(from, path), <<"create", "file">>, <<"fdalloc">>>>)
sys_mkdir(p, from, path, type) ==
  /\ InodesLeft
  /\ Begin(p, from, <<nameiparent(from, path), <<"create", type>>, <<"unlock">>>>)
sys_link(p, from, old, new) ==
  Begin(p, from, <<namei(from, old), <<"link", from, new>>, <<"linknew">>>>)
sys_unlink(p, from, path) ==
  Begin(p, from, <<nameiparent(from, path), <<"unlink">>, <<"unlinkip">>>>)
sys_chdir(p, from, path) ==
  Begin(p, from, <<namei(from, path), <<"chdir">>>>)

\* A directory is opened for reading only.
Open(p) ==
  /\ At(p, "open")
  /\ LET ip == call[p].ip
     IN /\ ilock(ip) /\ noUpdate
        /\ \/ Do(p, <<>>) /\ lock' = [lock EXCEPT ![ip] = p]
           \/ /\ Locked(ip).type = "dir"
              /\ Fail(p, <<<<"iput", ip>>>>) /\ UNCHANGED lock
  /\ UNCHANGED <<ref, cwd, file, lost>>

\* filealloc and fdalloc for the locked inode.
Fdalloc(p) ==
  /\ At(p, "fdalloc")
  /\ LET ip == call[p].ip
     IN /\ lock' = [lock EXCEPT ![ip] = None]
        /\ IF file[p] = 0 THEN file' = [file EXCEPT ![p] = ip] /\ Do(p, <<>>)
           ELSE Fail(p, <<<<"iput", ip>>>>) /\ UNCHANGED file
  /\ UNCHANGED <<disk, mem, ref, valid, cwd, lost>>

\* The end of mkdir and mknod: iunlockput(ip).
Unlock(p) ==
  /\ At(p, "unlock")
  /\ lock' = [lock EXCEPT ![call[p].ip] = None]
  /\ Do(p, <<<<"iput", call[p].ip>>>>)
  /\ UNCHANGED <<disk, mem, ref, valid, cwd, file, lost>>

sys_close(p) ==
  /\ call[p] = Idle /\ file[p] # 0
  /\ file' = [file EXCEPT ![p] = 0]
  /\ Go(p, [Idle EXCEPT !.code = <<<<"iput", file[p]>>>>])
  /\ UNCHANGED <<disk, mem, ref, valid, lock, cwd, lost>>

Chdir(p) ==
  /\ At(p, "chdir")
  /\ LET ip == call[p].ip
     IN /\ ilock(ip) /\ noUpdate
        /\ IF Locked(ip).type = "dir"
           THEN Do(p, <<<<"iput", cwd[p]>>, <<"setcwd">>>>)
           ELSE Fail(p, <<<<"iput", ip>>>>)
  /\ UNCHANGED <<ref, lock, cwd, file, lost>>

SetCwd(p) ==
  /\ At(p, "setcwd")
  /\ cwd' = [cwd EXCEPT ![p] = call[p].ip]
  /\ Do(p, <<>>)
  /\ UNCHANGED <<disk, mem, ref, valid, lock, file, lost>>

-----------------------------------------------------------------------------
\* link: the count first, then the entry, and the count back if that fails.
Link(p) ==
  /\ At(p, "link")
  /\ LET ip == call[p].ip
         l == Locked(ip)
     IN /\ ilock(ip)
        /\ \/ /\ l.type = "dir" /\ Fail(p, <<<<"iput", ip>>>>)
              /\ noUpdate /\ UNCHANGED ref
           \/ /\ l.type # "dir"
              /\ iupdate([i \in {ip} |-> [l EXCEPT !.nlink = @ + 1]])
              /\ ref' = iget(Now(p)[2])
              /\ Go(p, [call[p] EXCEPT !.bad = <<<<"linkbad">>>>,
                        !.code = <<nameiparent(Now(p)[2], Now(p)[3])>> \o Tail(@)])
  /\ UNCHANGED <<lock, cwd, file, lost>>

LinkNew(p) ==
  /\ At(p, "linknew")
  /\ LET ip == call[p].ip
         dp == call[p].dp
         n == call[p].name
         old == dirlookup(dp, n)
     IN /\ ilock(dp)
        /\ \/ /\ old # 0
              /\ noUpdate
              /\ ref' = iget(old)
              /\ lock' = [lock EXCEPT ![dp] = p]
              /\ Fail(p, <<<<"iput", old>>, <<"unlockdp">>>>)
              /\ UNCHANGED lost
           \/ /\ old = 0
              /\ mem' = [mem EXCEPT ![dp] = Locked(dp)]
              /\ disk' = dirlink(disk, dp, n, ip)
              /\ lost' = lost \cup IF Locked(dp).nlink = 0 THEN {ip} ELSE {}
              /\ Do(p, <<<<"iput", dp>>, <<"iput", ip>>>>)
              /\ UNCHANGED <<ref, lock>>
  /\ UNCHANGED <<cwd, file>>

\* iunlockput(dp) of a call that fails.
UnlockDp(p) ==
  /\ At(p, "unlockdp")
  /\ lock' = [lock EXCEPT ![call[p].dp] = None]
  /\ Do(p, <<<<"iput", call[p].dp>>>>)
  /\ UNCHANGED <<disk, mem, ref, valid, cwd, file, lost>>

LinkBad(p) ==
  /\ At(p, "linkbad")
  /\ LET ip == call[p].ip
     IN /\ ilock(ip)
        /\ iupdate([i \in {ip} |-> [Locked(ip) EXCEPT !.nlink = @ - 1]])
        /\ Do(p, <<<<"iput", ip>>>>)
  /\ UNCHANGED <<ref, lock, cwd, file, lost>>

-----------------------------------------------------------------------------
\* unlink refuses "." and holds the directory while it waits for the inode of
\* the entry.
Unlink(p) ==
  /\ At(p, "unlink")
  /\ LET dp == call[p].dp
         n == call[p].name
         ip == IF n \in Name THEN dirlookup(dp, n) ELSE 0
     IN /\ ilock(dp) /\ noUpdate
        /\ \/ /\ ip = 0 /\ Fail(p, <<<<"iput", dp>>>>) /\ UNCHANGED <<ref, lock>>
           \/ /\ ip # 0 /\ ref' = iget(ip) /\ lock' = [lock EXCEPT ![dp] = p]
              /\ Go(p, [call[p] EXCEPT !.ip = ip, !.code = Tail(@)])
  /\ UNCHANGED <<cwd, file, lost>>

\* Mutant: a directory with entries is removed.
isdiremptyAlways(i) == TRUE
isdirempty(i) == disk[i].ent = Empty

UnlinkIp(p) ==
  /\ At(p, "unlinkip")
  /\ LET dp == call[p].dp
         ip == call[p].ip
         dir == Locked(ip).type = "dir"
         down == IF dir THEN 1 ELSE 0
     IN /\ ilock(ip)
        /\ \/ /\ dir /\ ~isdirempty(ip)
              /\ noUpdate /\ UNCHANGED lock
              /\ Fail(p, <<<<"iput", ip>>, <<"unlockdp">>>>)
           \/ /\ ~(dir /\ ~isdirempty(ip))
              /\ mem' = [mem EXCEPT ![ip] = Locked(ip), ![dp].nlink = @ - down]
              /\ disk' = [disk EXCEPT ![dp].ent[call[p].name] = 0,
                                      ![dp].nlink = mem[dp].nlink - down]
              /\ lock' = [lock EXCEPT ![dp] = None, ![ip] = p]
              /\ Do(p, <<<<"iput", dp>>, <<"unlinked">>>>)
  /\ UNCHANGED <<ref, cwd, file, lost>>

Unlinked(p) ==
  /\ At(p, "unlinked")
  /\ LET ip == call[p].ip
     IN /\ mem' = [mem EXCEPT ![ip].nlink = @ - 1]
        /\ disk' = [disk EXCEPT ![ip].nlink = mem[ip].nlink - 1]
        /\ lock' = [lock EXCEPT ![ip] = None]
        /\ Do(p, <<<<"iput", ip>>>>)
  /\ UNCHANGED <<ref, valid, cwd, file, lost>>

-----------------------------------------------------------------------------
Step(p) ==
  \/ Iput(p) \/ Ifree(p) \/ Idrop(p) \/ Namex(p)
  \/ Create(p) \/ Created(p) \/ Dirlink(p)
  \/ Open(p) \/ Fdalloc(p) \/ Unlock(p) \/ UnlockDp(p) \/ Chdir(p) \/ SetCwd(p)
  \/ Link(p) \/ LinkNew(p) \/ LinkBad(p)
  \/ Unlink(p) \/ UnlinkIp(p) \/ Unlinked(p)

Call(p) ==
  \/ \E from \in {Root, cwd[p]}, path \in Paths :
       \/ sys_open(p, from, path) \/ sys_open_create(p, from, path)
       \/ \E type \in Made : sys_mkdir(p, from, path, type)
       \/ \E new \in Paths : sys_link(p, from, path, new)
       \/ sys_chdir(p, from, path)
       \/ \E q \in {path, <<".">>} : sys_unlink(p, from, q)
  \/ sys_close(p)

Next == \E p \in Proc :
  \/ Step(p) /\ UNCHANGED calls
  \/ calls < MaxCalls /\ Call(p) /\ calls' = calls + 1

Spec == Init /\ [][Next]_vars

-----------------------------------------------------------------------------
Quiet == \A p \in Proc : call[p] = Idle
Allocated == {i \in Inum : disk[i].type # "free"}

\* The links of inode i: the entries with its number and, for a directory, the
\* dots of its subdirectories (of the root its own).
Links(i) ==
  Cardinality({e \in Allocated \X Name : disk[e[1]].ent[e[2]] = i})
  + Cardinality({c \in Allocated : disk[c].type = "dir" /\
                   \E n \in Name : disk[i].ent[n] = c})
  + IF i = Root THEN 1 ELSE 0

\* Between the calls, and so after a crash, the tree is whole: an entry names
\* an allocated inode and nlink is the "Number of links to inode in file
\* system" of fs.h.  Out of reach is only what was put into a directory that
\* another process had removed between nameiparent and its lock.
NlinkExact ==
  Quiet => \A i \in Allocated \ lost :
    /\ \A n \in Name : disk[i].ent[n] # 0 => disk[i].ent[n] \in Allocated
    /\ disk[i].nlink = Links(i)

\* iput: "If that was the last reference and the inode has no links to it, free
\* the inode (and its content) on disk."
LastReferenceFrees ==
  \A i \in Inum : ref[i] = 0 /\ disk[i].nlink = 0 => i \notin Allocated

\* Between the calls a cached inode is referenced once for every current
\* directory and open file: no path through a call, and no interleaving of
\* two, loses or leaks a reference; the cache agrees with the disk.
RefExact ==
  Quiet => \A i \in Inum :
    /\ ref[i] = Cardinality({p \in Proc : cwd[p] = i}) + Cardinality({p \in Proc : file[p] = i})
    /\ lock[i] = None
    /\ valid[i] => mem[i].type = disk[i].type /\ mem[i].nlink = disk[i].nlink

\* The inode whose lock the next step of p waits for.
Wants(p) ==
  IF call[p].code = <<>> THEN 0
  ELSE CASE Now(p)[1] \in {"iput", "namex"} -> Now(p)[2]
         [] Now(p)[1] \in {"create", "linknew", "unlink"} -> call[p].dp
         [] Now(p)[1] \in {"created", "dirlink", "open", "chdir", "link", "linkbad",
                           "unlinkip"} -> call[p].ip
         [] OTHER -> 0
Waits(p, q) == Wants(p) # 0 /\ lock[Wants(p)] = q

\* An inode that is open or somebody's current directory is never freed, but
\* by the chdir that leaves it, and ilock never finds one without type.
InUseIsAllocated ==
  \A p \in Proc :
    /\ {file[p], IF <<"setcwd">> \in {call[p].code[k] : k \in DOMAIN call[p].code}
                 THEN 0 ELSE cwd[p]} \subseteq Allocated \cup {0}
    /\ Wants(p) # 0 /\ Now(p)[1] # "iput" /\ lock[Wants(p)] = None
         => Locked(Wants(p)).type # "free"

\* No process waits, directly or through another one, for an inode that it has
\* locked itself: usertests.c runs a "concurrent link/unlink/create test, to
\* look for deadlocks".
NoDeadlock ==
  \A p, q \in Proc : ~Waits(p, p) /\ ~(Waits(p, q) /\ Waits(q, p))
=============================================================================
