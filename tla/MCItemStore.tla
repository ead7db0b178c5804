---------------------------- MODULE MCItemStore ----------------------------
(* Instances of ItemStore for TLC; the .cfg files give the sizes. A         *)
(* behaviour is of one mix: "feed", two items that are pushed at the first  *)
(* generation; "routes", one item that is written through every route while *)
(* keys are rotated and the server restarts (two concurrent pushes are the  *)
(* business of the first mix); or "any", without such limits.               *)
EXTENDS ItemStore, TLC

CONSTANTS i1, q2, Mixes

VARIABLE mix

InMix ==
    \A r \in Requests : req[r] # Idle =>
      /\ mix = "feed" => req[r].op = "push" /\ req[r].gen = 1
      /\ mix = "routes" => req[r].u = i1 /\ (r = q2 => req[r].op # "push")

MCInit == Init /\ mix \in Mixes
MCNext ==
    /\ \/ \E r \in Requests : Write(r)
       \/ \E r \in Rotators : mix # "feed" /\ Rotate(r)
       \/ \E d \in Devices : Pull(d)
       \/ mix # "feed" /\ Restart
    /\ UNCHANGED mix /\ InMix'
MCSpec ==
    /\ MCInit /\ [][MCNext]_<<vars, mix>>
    /\ \A d \in Devices : WF_vars(PullCheck(d)) /\ WF_vars(PullPage(d))

(* CatchUpUnlessExpired of a server that is not restarted for ever: a      *)
(* device that keeps pulling has every write (GET /sync/pull).             *)
FeedCatchesUp == mix = "feed" => CatchUpUnlessExpired

(* RecoveryAnnounced where items are pushed: a pushed target is a version   *)
(* the row had reached before deleted_date is read. (The target of item_put *)
(* is one the row has yet to reach, so the reading can be stale.)           *)
FeedAnnounces == [][mix = "feed" => RecoveryStep]_<<rows, recovered>>

(* Tasks are interchangeable, and so are items and devices.                *)
Symmetry == Permutations(Requests) \cup Permutations(Items)
=============================================================================
