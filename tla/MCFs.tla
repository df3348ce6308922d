-------------------------------- MODULE MCFs --------------------------------
(***************************************************************************)
(* Fs for TLC: names in the root, and in one directory below it.           *)
(***************************************************************************)
EXTENDS Fs, TLC

MCPaths == {<<"a">>, <<"b">>, <<"a", "b">>}
MCSymmetry == Permutations(Proc)
=============================================================================
