------------------------------ MODULE MCSignals -----------------------------
(***************************************************************************)
(* Signals for TLC: the program's choices that the configurations name.    *)
(***************************************************************************)
EXTENDS Signals

\* Nothing blocked, the user signals blocked, everything blocked.
MCMasks == {Sig, Sig \ UserSigs, {}}
\* SIGKILL never blocked.
MCMasksKill == {Sig, {SIGKILL}}

MCDispositions == {SIG_IGN} \cup Handlers
MCMainCalls == Calls \ {"sigret"}
MCSettableNotKill == Sig \ {SIGKILL}
MCSettableUser == UserSigs
=============================================================================
