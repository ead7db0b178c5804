---------------------------- MODULE MCDeviceSync ----------------------------
(* Instances of DeviceSync for TLC; the .cfg files give the sizes.         *)
EXTENDS DeviceSync, TLC

(* Items are interchangeable.                                              *)
Symmetry == Permutations(Items)
=============================================================================
