------------------------------ MODULE MCBcache ------------------------------
(***************************************************************************)
(* Bcache for TLC: one buffer for each thread and one that the log pins.   *)
(***************************************************************************)
EXTENDS Bcache

MCBlock == 1..4
=============================================================================
