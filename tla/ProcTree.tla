------------------------------ MODULE ProcTree ------------------------------
(***************************************************************************)
(* What fork, exit and wait promise to programs, without locks, CPUs or    *)
(* table slots being prepared: a tree of processes rooted at init, in      *)
(* which an exited process stays a zombie until its parent, or init in     *)
(* place of a parent that is gone, has waited for it exactly once.         *)
(***************************************************************************)
EXTENDS Integers

CONSTANTS Proc, initproc, None

VARIABLES stat, par

Init ==
  /\ stat = [p \in Proc |-> IF p = initproc THEN "alive" ELSE "free"]
  /\ par = [p \in Proc |-> None]

Fork(p, q) ==
  /\ stat[p] = "alive" /\ stat[q] = "free"
  /\ stat' = [stat EXCEPT ![q] = "alive"]
  /\ par' = [par EXCEPT ![q] = p]

Exit(p) ==
  /\ p # initproc /\ stat[p] = "alive"
  /\ stat' = [stat EXCEPT ![p] = "zombie"]
  /\ par' = [q \in Proc |-> IF par[q] = p THEN initproc ELSE par[q]]

Wait(p, q) ==
  /\ stat[p] = "alive" /\ stat[q] = "zombie" /\ par[q] = p
  /\ stat' = [stat EXCEPT ![q] = "free"]
  /\ par' = [par EXCEPT ![q] = None]

Next ==
  \E p \in Proc : \/ Exit(p)
                  \/ \E q \in Proc : Fork(p, q) \/ Wait(p, q)

Spec == Init /\ [][Next]_<<stat, par>>
=============================================================================
