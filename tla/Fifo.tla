-------------------------------- MODULE Fifo --------------------------------
(***************************************************************************)
(* What a pipe promises: a bounded queue of bytes.                         *)
(***************************************************************************)
EXTENDS Naturals, Sequences
CONSTANTS Values, Capacity
VARIABLE queue

Init == queue = <<>>

\* One or more bytes are added, of those that fit.
Put ==
  \E k \in 1..Capacity : \E s \in [1..k -> Values] :
    Len(queue) + k <= Capacity /\ queue' = queue \o s

\* One or more bytes are removed, the oldest first.
Get == \E k \in 1..Len(queue) : queue' = SubSeq(queue, k + 1, Len(queue))

Next == Put \/ Get
Spec == Init /\ [][Next]_queue
=============================================================================
