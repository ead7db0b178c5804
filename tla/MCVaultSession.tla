--------------------------- MODULE MCVaultSession ---------------------------
(* Instances of VaultSession for TLC; the .cfg files give the sizes.       *)
EXTENDS VaultSession, TLC

(* Tasks, keys and handles are interchangeable.                            *)
Symmetry == Permutations(Users) \cup Permutations(Keys) \cup Permutations(Handles)
=============================================================================
