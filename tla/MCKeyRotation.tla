---------------------------- MODULE MCKeyRotation ----------------------------
(* Instances of KeyRotation for TLC; the .cfg files give the sizes. A       *)
(* behaviour is of one mix: "clean", one rotation of a full vault while     *)
(* items are edited and synced; "faults", several rotations of one item     *)
(* (the others are deleted) with failing calls, crashes and saves; or       *)
(* "any", without such limits.                                              *)
EXTENDS Integers, FiniteSets

CONSTANTS Items, Unsynced, Devices, Rotators, BatchSize, RotationOps, MaxKeys, MaxEdits,
          MaxFailures, MaxCrashes, NoRow, NoTask, i1, d1, Mixes

VARIABLES srv, minGen, blob, loc, had, mem, sess, rot, save, made, used, mix

R == INSTANCE KeyRotation WITH Ops <- RotationOps, Idle <- NoTask, keys <- made

Sizes == R!RotationAssumption /\ R!AbsentAssumption
ASSUME SizesAssumption == Sizes

InMix ==
    mix = "clean" => /\ made <= 1 /\ used.failures = 0 /\ used.crashes = 0
                     /\ \A d \in Devices : save[d] = NoTask /\ (d # d1 => rot[d] = NoTask)
                     /\ \A u \in Items : srv[u].live

MCInit ==
    /\ mix \in Mixes
    /\ IF mix = "faults" THEN R!InitOf({}, Items \ {i1}) ELSE R!Init
MCNext ==
    \E d \in Devices :
      /\ \/ R!Rotate(d)
         \/ \E u \in Items, live \in BOOLEAN : R!Edit(d, u, live)
         \/ mix # "faults" /\ R!Sync(d)
         \/ \E u \in Items : R!SaveCheck(d, u)
         \/ R!SaveCommit(d)
         \/ R!Crash(d)
         \/ R!Unlock(d)
         \/ R!Restore(d)
      /\ UNCHANGED mix /\ InMix'
MCSpec == MCInit /\ [][MCNext]_<<R!vars, mix>>

(* The types of rotate_key's state: versions stay within the edits and the  *)
(* rotations made.                                                          *)
RotationTyped == R!TypeOK

(* Readable where nothing fails: one rotate_key that is not interrupted     *)
(* leaves every item readable, whatever other devices edit meanwhile.       *)
CleanReadable == mix = "clean" => R!Readable

(* No push of a rotate_key puts older content over another device's edit.   *)
RotationKeepsEdits == [][R!KeepsEdits]_srv

(* A rotate_key that ends with the promotion of its key leaves every item   *)
(* readable; refuted (KeyRotationRefuted.cfg).                              *)
RotationCompletes == R!RotationCompletes

(* A device at the gate's generation reads every row it holds; refuted.     *)
LocalReadable == R!LocalReadable
=============================================================================
