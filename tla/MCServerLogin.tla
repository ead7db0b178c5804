---------------------------- MODULE MCServerLogin ----------------------------
(* Small instances of ServerLogin for TLC.                                 *)
EXTENDS ServerLogin, TLC

LoginSymmetry == Permutations(Calls) \cup Permutations(Tokens)
=============================================================================
