------------------------------- MODULE Console ------------------------------
(***************************************************************************)
(* Console input (console.c): the interrupt handler edits a line in a ring *)
(* of INPUT_BUF characters and commits it; threads read what is committed. *)
(* r, w and e are uints that wrap around.  cons.lock is held by a reader   *)
(* from acquire to sleep or return, and by the handler for a whole step.   *)
(***************************************************************************)
EXTENDS Naturals, Sequences

CONSTANTS Thread,
          INPUT_BUF,
          Wrap,     \* r, w and e are unsigned: modulo 2^32 in the code, a multiple
                    \* of INPUT_BUF
          MaxRead   \* the largest n of a read

Plus(a, k) == (a + k) % Wrap
Minus(a, k) == (a + Wrap - k) % Wrap
Char == {"x", "nl", "eof"}

VARIABLES
  buf, r, w, e,
  lock,     \* the reader that holds cons.lock, 0 for none
  rd,       \* what a thread is in: its state, target and n
  line, lines  \* the characters typed and not erased: uncommitted, committed

vars == <<buf, r, w, e, lock, rd, line, lines>>

NoRead == [st |-> "out", target |-> 0, n |-> 0]

Init ==
  /\ buf = [i \in 0..(INPUT_BUF - 1) |-> "x"]
  /\ r = 0 /\ w = 0 /\ e = 0 /\ lock = 0
  /\ rd = [t \in Thread |-> NoRead]
  /\ line = <<>> /\ lines = <<>>

Woken == [t \in Thread |-> IF rd[t].st = "asleep" THEN [rd[t] EXCEPT !.st = "woken"] ELSE rd[t]]

-----------------------------------------------------------------------------
(***************************************************************************)
(* consoleintr                                                             *)
(***************************************************************************)
Commits(c) == c \in {"nl", "eof"} \/ Plus(e, 1) = Plus(r, INPUT_BUF)

Type(c) ==
  /\ lock = 0 /\ Minus(e, r) < INPUT_BUF
  /\ buf' = [buf EXCEPT ![e % INPUT_BUF] = c]
  /\ e' = Plus(e, 1)
  /\ IF Commits(c)
     THEN w' = e' /\ rd' = Woken /\ lines' = lines \o Append(line, c) /\ line' = <<>>
     ELSE line' = Append(line, c) /\ UNCHANGED <<w, rd, lines>>
  /\ UNCHANGED <<r, lock>>

\* Mutant: what is committed can be erased too.
BackspaceAll ==
  /\ lock = 0 /\ e # r /\ e' = Minus(e, 1)
  /\ line' = SubSeq(line, 1, Len(line) - 1)
  /\ UNCHANGED <<buf, r, w, lock, rd, lines>>

Backspace ==
  /\ lock = 0 /\ e # w /\ e' = Minus(e, 1)
  /\ line' = SubSeq(line, 1, Len(line) - 1)
  /\ UNCHANGED <<buf, r, w, lock, rd, lines>>

\* ^U erases back to w, or to an end of line.
KillTo == CHOOSE i \in 0..Minus(e, w) :
  /\ i = Minus(e, w) \/ buf[Minus(e, i + 1) % INPUT_BUF] = "nl"
  /\ \A j \in 0..(i - 1) : buf[Minus(e, j + 1) % INPUT_BUF] # "nl"
KillLine ==
  /\ lock = 0 /\ e' = Minus(e, KillTo) /\ line' = <<>>
  /\ UNCHANGED <<buf, r, w, lock, rd, lines>>

-----------------------------------------------------------------------------
(***************************************************************************)
(* consoleread                                                             *)
(***************************************************************************)
Read(t, n) ==
  /\ lock = 0 /\ rd[t].st = "out"
  /\ lock' = t /\ rd' = [rd EXCEPT ![t] = [st |-> "in", target |-> n, n |-> n]]
  /\ UNCHANGED <<buf, r, w, e, line, lines>>

Resume(t) ==
  /\ lock = 0 /\ rd[t].st = "woken"
  /\ lock' = t /\ rd' = [rd EXCEPT ![t].st = "in"]
  /\ UNCHANGED <<buf, r, w, e, line, lines>>

Holds(t) == lock = t /\ rd[t].st = "in"

\* Nothing to read: sleep, or -1 when the thread is killed.
Wait(t) ==
  /\ Holds(t) /\ rd[t].n > 0 /\ r = w
  /\ lock' = 0 /\ \E q \in {[rd[t] EXCEPT !.st = "asleep"], NoRead} : rd' = [rd EXCEPT ![t] = q]
  /\ UNCHANGED <<buf, r, w, e, line, lines>>

\* One character; an end of file is left for the next read unless it comes first.
Byte(t) ==
  /\ Holds(t) /\ rd[t].n > 0 /\ r # w
  /\ LET c == buf[r % INPUT_BUF]
         keep == c = "eof" /\ rd[t].n < rd[t].target
         over == c \in {"nl", "eof"} \/ rd[t].n = 1
     IN /\ r' = IF keep THEN r ELSE Plus(r, 1)
        /\ lines' = IF keep THEN lines ELSE Tail(lines)
        /\ lock' = IF over THEN 0 ELSE lock
        /\ rd' = IF over THEN [rd EXCEPT ![t] = NoRead] ELSE [rd EXCEPT ![t].n = @ - 1]
  /\ UNCHANGED <<buf, w, e, line>>

Next ==
  \/ Backspace \/ KillLine \/ \E c \in Char : Type(c)
  \/ \E t \in Thread : Resume(t) \/ Wait(t) \/ Byte(t) \/ \E n \in 1..MaxRead : Read(t, n)

Spec == Init /\ [][Next]_vars

-----------------------------------------------------------------------------
Content(from, to) == [i \in 1..Minus(to, from) |-> buf[Plus(from, i - 1) % INPUT_BUF]]

\* What readers will get is what was typed and not erased, in order: the ring
\* keeps the committed characters and the line being edited apart, at every
\* position of the three indices.
InputExact == Content(r, w) = lines /\ Content(w, e) = line

\* A reader sleeps only when nothing is committed, and then there is room to
\* type: a line that fills the buffer is committed although it does not end.
ReaderServed == \A t \in Thread : rd[t].st = "asleep" => r = w /\ Minus(e, r) < INPUT_BUF

\* The type invariant of the ring and of its readers.
Reading == [st : {"out", "in", "asleep", "woken"}, target : 0..MaxRead, n : 0..MaxRead]
TypeOK ==
  /\ buf \in [0..(INPUT_BUF - 1) -> Char]
  /\ r \in 0..(Wrap - 1) /\ w \in 0..(Wrap - 1) /\ e \in 0..(Wrap - 1)
  /\ lock \in Thread \cup {0} /\ rd \in [Thread -> Reading]
  /\ line \in Seq(Char) /\ lines \in Seq(Char)
=============================================================================
