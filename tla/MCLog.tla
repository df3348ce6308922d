------------------------------- MODULE MCLog --------------------------------
(***************************************************************************)
(* Log for TLC.                                                            *)
(***************************************************************************)
EXTENDS Log, TLC

\* Processes, blocks and contents are interchangeable.
MCSymmetry ==
  Permutations(Thread) \cup Permutations(Blocks) \cup Permutations(Values)
=============================================================================
