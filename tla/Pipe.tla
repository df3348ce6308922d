-------------------------------- MODULE Pipe --------------------------------
(***************************************************************************)
(* A pipe of pipe.c: its ring of bytes with the two counters that wrap     *)
(* around, readers and writers that sleep on them, the closing of its ends *)
(* as their last file references go, and its release.                      *)
(*                                                                         *)
(* p->lock is given up only in sleep and at the end of a call, so that a   *)
(* step is what a process does between two acquires of it. That sleep      *)
(* loses no wakeup is shown in SleepLock.                                  *)
(***************************************************************************)
EXTENDS Naturals, Sequences

CONSTANTS Thread,    \* the processes that may share the pipe
          Creator,   \* the one that calls pipe
          Values,    \* bytes
          PIPESIZE,
          Wrap,      \* the counters are unsigned: modulo 2^32 in the code,
                     \* a multiple of PIPESIZE
          MaxIO,     \* the longest read (a bound)
          Writes     \* what is written in one call

VARIABLES
  data, nread, nwrite, readopen, writeopen, freed,   \* struct pipe
  readers, writers,    \* the processes that have a reference to each end
  pc, todo,            \* of each process: where it is, what it has to write
  room,                \* how much its read has asked for
  killed, born

pipe == <<data, nread, nwrite, readopen, writeopen, freed>>
vars == <<data, nread, nwrite, readopen, writeopen, freed, readers, writers,
          pc, todo, room, killed, born>>

\* What a process can be doing: outside, ready to take p->lock in a call, or
\* asleep on &p->nread or &p->nwrite.
Places == {"out", "read", "write", "sleep_read", "sleep_write"}

\* The type invariant of the pipe and of its processes.
TypeOK ==
  /\ data \in [0..(PIPESIZE - 1) -> Values]
  /\ nread \in 0..(Wrap - 1) /\ nwrite \in 0..(Wrap - 1)
  /\ readopen \in BOOLEAN /\ writeopen \in BOOLEAN /\ freed \in BOOLEAN
  /\ readers \subseteq Thread /\ writers \subseteq Thread
  /\ pc \in [Thread -> Places] /\ todo \in [Thread -> Seq(Values)]
  /\ room \in [Thread -> 0..MaxIO]
  /\ killed \subseteq Thread /\ born \subseteq Thread

\* pipealloc, with both files in the table of the caller.
Init ==
  /\ \E v \in Values : data = [i \in 0..(PIPESIZE - 1) |-> v]
  /\ nread = 0 /\ nwrite = 0
  /\ readopen = TRUE /\ writeopen = TRUE /\ freed = FALSE
  /\ readers = {Creator} /\ writers = {Creator} /\ born = {Creator}
  /\ pc = [t \in Thread |-> "out"] /\ todo = [t \in Thread |-> <<>>]
  /\ room = [t \in Thread |-> 0] /\ killed = {}

-----------------------------------------------------------------------------
Full == nwrite = (nread + PIPESIZE) % Wrap
Used == (nwrite + Wrap - nread) % Wrap

\* wakeup(&p->nread) and wakeup(&p->nwrite)
WokenReaders(p) == [t \in Thread |-> IF p[t] = "sleep_read" THEN "read" ELSE p[t]]
WokenWriters(p) == [t \in Thread |-> IF p[t] = "sleep_write" THEN "write" ELSE p[t]]

\* The place in the ring of the byte a counter stands for.
Slot(n) == (n % Wrap) % PIPESIZE

\* data after the first k bytes of s.
Filled(s, k) ==
  [i \in DOMAIN data |->
     IF \E j \in 1..k : Slot(nwrite + j - 1) = i
       THEN s[CHOOSE j \in 1..k : Slot(nwrite + j - 1) = i]
       ELSE data[i]]

\* Mutant: full is tested one byte too late.
PipeWriteOver(t) ==
  /\ pc[t] = "write" /\ Len(todo[t]) <= PIPESIZE + 1 - Used
  /\ data' = Filled(todo[t], Len(todo[t]))
  /\ nwrite' = (nwrite + Len(todo[t])) % Wrap
  /\ pc' = WokenReaders([pc EXCEPT ![t] = "out"])
  /\ todo' = [todo EXCEPT ![t] = <<>>]
  /\ UNCHANGED <<nread, readopen, writeopen, freed, readers, writers, room, killed, born>>

\* The calls, by a process that has the end open.
CallWrite(t, s) ==
  /\ pc[t] = "out" /\ t \in writers \ killed
  /\ pc' = [pc EXCEPT ![t] = "write"] /\ todo' = [todo EXCEPT ![t] = s]
  /\ UNCHANGED <<pipe, readers, writers, room, killed, born>>

CallRead(t, n) ==
  /\ pc[t] = "out" /\ t \in readers \ killed
  /\ pc' = [pc EXCEPT ![t] = "read"] /\ room' = [room EXCEPT ![t] = n]
  /\ UNCHANGED <<pipe, readers, writers, todo, killed, born>>

\* pipewrite: bytes are copied until all are, or the pipe is full.
PipeWriteAll(t) ==
  /\ pc[t] = "write" /\ Len(todo[t]) <= PIPESIZE - Used
  /\ data' = Filled(todo[t], Len(todo[t]))
  /\ nwrite' = (nwrite + Len(todo[t])) % Wrap
  /\ pc' = WokenReaders([pc EXCEPT ![t] = "out"])
  /\ todo' = [todo EXCEPT ![t] = <<>>]
  /\ UNCHANGED <<nread, readopen, writeopen, freed, readers, writers, room, killed, born>>

\* What is left when k bytes have been copied and the pipe is full: without
\* readers, or once killed, the call fails; otherwise it waits.
PipeWriteFull(t) ==
  LET k == PIPESIZE - Used
      fails == ~readopen \/ t \in killed
  IN /\ pc[t] = "write" /\ Len(todo[t]) > k
     /\ data' = Filled(todo[t], k) /\ nwrite' = (nwrite + k) % Wrap
     /\ pc' = IF fails THEN [pc EXCEPT ![t] = "out"]
                       ELSE WokenReaders([pc EXCEPT ![t] = "sleep_write"])
     /\ todo' = [todo EXCEPT ![t] =
                   IF fails THEN <<>> ELSE SubSeq(@, k + 1, Len(@))]
     /\ UNCHANGED <<nread, readopen, writeopen, freed, readers, writers, room, killed, born>>

\* piperead: nothing to read, and somebody may still write.
PipeReadEmpty(t) ==
  /\ pc[t] = "read" /\ nread = nwrite /\ writeopen
  /\ pc' = [pc EXCEPT ![t] = IF t \in killed THEN "out" ELSE "sleep_read"]
  /\ UNCHANGED <<pipe, readers, writers, todo, room, killed, born>>

\* Mutant: the writers are not woken.
PipeReadSilent(t) ==
  LET k == IF room[t] < Used THEN room[t] ELSE Used
  IN /\ pc[t] = "read" /\ ~(nread = nwrite /\ writeopen)
     /\ nread' = (nread + k) % Wrap
     /\ pc' = [pc EXCEPT ![t] = "out"]
     /\ room' = [room EXCEPT ![t] = 0]
     /\ UNCHANGED <<data, nwrite, readopen, writeopen, freed, readers, writers, todo, killed, born>>

\* piperead: what there is, up to n bytes; none at the end of the file.
PipeReadSome(t) ==
  LET k == IF room[t] < Used THEN room[t] ELSE Used
  IN /\ pc[t] = "read" /\ ~(nread = nwrite /\ writeopen)
     /\ nread' = (nread + k) % Wrap
     /\ pc' = WokenWriters([pc EXCEPT ![t] = "out"])
     /\ room' = [room EXCEPT ![t] = 0]
     /\ UNCHANGED <<data, nwrite, readopen, writeopen, freed, readers, writers, todo, killed, born>>

-----------------------------------------------------------------------------
\* fileclose of the read or of the write end; the last one calls pipeclose.
CloseRead(t) ==
  /\ pc[t] = "out" /\ t \in readers
  /\ readers' = readers \ {t}
  /\ IF readers = {t}
       THEN /\ readopen' = FALSE /\ freed' = ~writeopen
            /\ pc' = WokenWriters(pc)
       ELSE UNCHANGED <<readopen, freed, pc>>
  /\ UNCHANGED <<data, nread, nwrite, writeopen, writers, todo, room, killed, born>>

CloseWrite(t) ==
  /\ pc[t] = "out" /\ t \in writers
  /\ writers' = writers \ {t}
  /\ IF writers = {t}
       THEN /\ writeopen' = FALSE /\ freed' = ~readopen
            /\ pc' = WokenReaders(pc)
       ELSE UNCHANGED <<writeopen, freed, pc>>
  /\ UNCHANGED <<data, nread, nwrite, readopen, readers, todo, room, killed, born>>

\* The child has a reference to every file of its parent (filedup).
Fork(t, u) ==
  /\ pc[t] = "out" /\ t \in born \ killed /\ u \notin born
  /\ born' = born \cup {u}
  /\ readers' = IF t \in readers THEN readers \cup {u} ELSE readers
  /\ writers' = IF t \in writers THEN writers \cup {u} ELSE writers
  /\ UNCHANGED <<pipe, pc, todo, room, killed>>

\* SIGKILL is handled by the process itself, in an interrupt while it waits for
\* p->lock: kill wakes no sleeper.
Kill(t) ==
  /\ pc[t] \in {"read", "write"} /\ t \notin killed
  /\ killed' = killed \cup {t}
  /\ UNCHANGED <<pipe, readers, writers, pc, todo, room, born>>

PipeStep(t) ==
  PipeWriteAll(t) \/ PipeWriteFull(t) \/ PipeReadEmpty(t) \/ PipeReadSome(t)

Next ==
  \E t \in Thread :
    \/ PipeStep(t) \/ CloseRead(t) \/ CloseWrite(t) \/ Kill(t)
    \/ \E k \in 0..MaxIO : CallRead(t, k)
    \/ \E s \in Writes : CallWrite(t, s)
    \/ \E u \in Thread : Fork(t, u)

Spec == Init /\ [][Next]_vars

\* A process that is not asleep gets p->lock and goes on; nobody is obliged to
\* call or to close.
FairSpec == Spec /\ \A t \in Thread : WF_vars(PipeStep(t))

-----------------------------------------------------------------------------
\* The pipe is a queue of at most PIPESIZE bytes, also when the counters wrap:
\* no byte is lost, repeated or overwritten before it is read, whoever reads
\* and writes at the same time.
Contents == [i \in 1..Used |-> data[Slot(nread + i - 1)]]
F == INSTANCE Fifo WITH queue <- Contents, Capacity <- PIPESIZE
ImplementsFifo == F!Spec

\* A reader sleeps only on an empty pipe that can still be written, a writer
\* only on a full one that can still be read: every step that ends the wait
\* wakes the sleepers. The exception: a writer that was killed and meets a full
\* pipe returns without wakeup(&p->nread), which may leave readers asleep on
\* the bytes it has just written.
SleepersMustWait ==
  \A t \in Thread :
    /\ pc[t] = "sleep_read" => writeopen /\ (nread = nwrite \/ killed # {})
    /\ pc[t] = "sleep_write" => Full /\ readopen

\* The page is freed once, when nobody has either end, so no process is inside
\* a call on it or asleep on one of its counters.
FreedIsUnused ==
  freed => readers = {} /\ writers = {} /\ \A t \in Thread : pc[t] = "out"

\* What makes these inductive: an end is open as long as somebody has a
\* reference to it, the page goes with the second end, whoever is in a call has
\* a reference to that end, and the counters are never more than PIPESIZE apart.
EndsInv ==
  /\ Used <= PIPESIZE
  /\ readopen = (readers # {}) /\ writeopen = (writers # {})
  /\ freed = (~readopen /\ ~writeopen)
  /\ \A t \in Thread :
       /\ pc[t] \in {"read", "sleep_read"} => t \in readers
       /\ pc[t] \in {"write", "sleep_write"} => t \in writers

=============================================================================
