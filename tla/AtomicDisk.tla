----------------------------- MODULE AtomicDisk -----------------------------
(***************************************************************************)
(* What the log promises to the file system: the blocks change in memory   *)
(* while system calls are active, and reach the disk all at once, when     *)
(* none is. A crash goes back to what the disk has.                        *)
(***************************************************************************)
EXTENDS Naturals
CONSTANTS Blocks, Values
VARIABLES stable, volatile, active

Init ==
  /\ stable \in [Blocks -> Values] /\ volatile = stable
  /\ active = 0

Begin == active' = active + 1 /\ UNCHANGED <<stable, volatile>>

Write(b, v) ==
  /\ active > 0
  /\ volatile' = [volatile EXCEPT ![b] = v]
  /\ UNCHANGED <<stable, active>>

End == active > 0 /\ active' = active - 1 /\ UNCHANGED <<stable, volatile>>

Commit == active = 0 /\ stable' = volatile /\ UNCHANGED <<volatile, active>>

Crash == volatile' = stable /\ active' = 0 /\ UNCHANGED stable

Next ==
  \/ Begin \/ End \/ Commit \/ Crash
  \/ \E b \in Blocks, v \in Values : Write(b, v)

Spec == Init /\ [][Next]_<<stable, volatile, active>>
=============================================================================
