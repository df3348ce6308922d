------------------------------ MODULE MCPtable ------------------------------
(* Instances of Ptable for TLC.  The CPUs are interchangeable. *)
EXTENDS Ptable, TLC

CPUSymmetry == Permutations(CPU)
=============================================================================
