-------------------------------- MODULE Mutex -------------------------------
(***************************************************************************)
(* What a sleep lock promises: it has at most one owner, a process gets it *)
(* only when it is free, and only the owner gives it back.                 *)
(***************************************************************************)
CONSTANTS Thread, Nobody
VARIABLE owner

Init == owner = Nobody
Acquire(t) == owner = Nobody /\ owner' = t
Release(t) == owner = t /\ owner' = Nobody
Next == \E t \in Thread : Acquire(t) \/ Release(t)
Spec == Init /\ [][Next]_owner
=============================================================================
