---------------------------- MODULE VaultSession ----------------------------
(***************************************************************************)
(* The keys a client holds in memory and the operations that set and wipe  *)
(* them: unlock with the password, with a raw key or with the recovery     *)
(* key, lock, the promotion of a rotated key, the end of a recovery, and   *)
(* the user's calls that race with them: reveal_secret, release_secret and *)
(* verify_totp. Every key has a mutex of its own and the lock flag is an   *)
(* atomic, so an operation is a sequence of steps with an await before     *)
(* each, and another task may run in between.                              *)
(***************************************************************************)
EXTENDS Integers, Sequences

CONSTANTS Life,     \* tasks that run lock, unlock, recover, rotate
          Users,    \* tasks that run the user's calls
          Keys,     \* vault keys
          Handles,  \* secret handle ids
          Ops,      \* lifecycle operations in use
          None,     \* no key
          Idle      \* the task runs nothing

ASSUME SessionAssumption ==
    /\ None \notin Keys
    /\ Ops \subseteq {"lock", "password", "raw", "recover", "complete", "rotate"}
    /\ Idle \notin [op : Ops, pc : 1..7, key : Keys]

VARIABLES svk, dek,  \* the active keys; dek is named by the svk it is derived from
          mk,        \* the master key is cached
          locked,    \* VautrClient.locked
          handles,   \* live secret handles
          factor,    \* a second factor is required for this login
          verified,  \* second_factor_verified
          pending,   \* recovery_pending
          creds,     \* recovery_creds holds the recovery key
          life,      \* the operation each lifecycle task is in
          user,      \* the call each user task is in
          answered   \* the second factor was asked for after the last lock

keys == <<svk, dek, mk>>
second == <<factor, verified, answered>>
recovery == <<pending, creds>>
vars == <<keys, locked, handles, second, recovery, life, user>>

-----------------------------------------------------------------------------
(* Mutant: the handles are released before the key that fills them.        *)
LockSteps_HandlesFirst ==
    <<"clear_handles", "wipe_svk", "wipe_dek", "wipe_mk", "set_locked",
      "reset_factor", "reset_verified">>

(* lock                                                                    *)
LockSteps ==
    <<"wipe_svk", "wipe_dek", "wipe_mk", "clear_handles", "set_locked",
      "reset_factor", "reset_verified">>

(* unlock_with_password; a wrong password does not unwrap the blob         *)
PasswordSteps == <<"discover", "gate", "try", "svk", "dek", "mk", "open">>

(* Mutant: the key that decrypts is not derived.                           *)
RawSteps_NoDek == <<"svk", "wipe_mk", "open">>

(* unlock_with_raw_key                                                     *)
RawSteps == <<"svk", "dek", "wipe_mk", "open">>

(* recover_with_key                                                        *)
RecoverSteps == <<"svk", "dek", "open", "creds", "pending">>

(* complete_recovery; the local database may fail to store the blobs       *)
CompleteSteps == <<"need_pending", "need_svk", "try", "creds", "not_pending">>

(* rotate_key: what it checks first, the rotation proper (KeyRotation),    *)
(* which may fail, and the promotion at its end                            *)
RotateSteps == <<"need_open", "need_mk", "need_svk", "try", "svk", "dek">>

Steps ==
    [op \in {"lock", "password", "raw", "recover", "complete", "rotate"} |->
       CASE op = "lock" -> LockSteps
         [] op = "password" -> PasswordSteps
         [] op = "raw" -> RawSteps
         [] op = "recover" -> RecoverSteps
         [] op = "complete" -> CompleteSteps
         [] op = "rotate" -> RotateSteps]

TypeOK ==
    /\ svk \in Keys \cup {None} /\ dek \in Keys \cup {None}
    /\ {mk, locked, factor, verified, answered, pending, creds} \subseteq BOOLEAN
    /\ handles \subseteq Handles
    /\ life \in [Life -> [op : Ops, pc : 1..7, key : Keys] \cup {Idle}]
    /\ \A t \in Life : life[t] # Idle => life[t].pc <= Len(Steps[life[t].op])
    /\ user \in [Users -> [op : {"reveal", "verify"}, late : BOOLEAN] \cup {Idle}]

(* VautrClient::new                                                        *)
Init ==
    /\ svk = None /\ dek = None /\ mk = FALSE
    /\ locked = TRUE
    /\ handles = {}
    /\ factor = FALSE /\ verified = FALSE /\ answered = FALSE
    /\ pending = FALSE /\ creds = FALSE
    /\ life = [t \in Life |-> Idle]
    /\ user = [t \in Users |-> Idle]

-----------------------------------------------------------------------------
(* Lifecycle operations                                                    *)

(* A call: the user (or the auto-lock timer) starts an operation with the  *)
(* key that it unwrapped, derived or made.                                 *)
Call(t, op, key) ==
    /\ op \in Ops
    /\ life[t] = Idle
    /\ life' = [life EXCEPT ![t] = [op |-> op, pc |-> 1, key |-> key]]
    /\ UNCHANGED <<keys, locked, handles, second, recovery, user>>

At(t, step) == life[t] # Idle /\ Steps[life[t].op][life[t].pc] = step

(* The operation goes on, and ends after its last step.                    *)
Advance(t) ==
    life' = [life EXCEPT ![t] =
               IF @.pc = Len(Steps[@.op]) THEN Idle
               ELSE [op |-> @.op, pc |-> @.pc + 1, key |-> @.key]]

(* An early return with an error.                                          *)
Return(t) == life' = [life EXCEPT ![t] = Idle]

SetSvk(t) ==
    /\ At(t, "svk") \/ At(t, "wipe_svk")
    /\ svk' = IF At(t, "svk") THEN life[t].key ELSE None
    /\ Advance(t)
    /\ UNCHANGED <<dek, mk, locked, handles, second, recovery, user>>

SetDek(t) ==
    /\ At(t, "dek") \/ At(t, "wipe_dek")
    /\ dek' = IF At(t, "dek") THEN life[t].key ELSE None
    /\ Advance(t)
    /\ UNCHANGED <<svk, mk, locked, handles, second, recovery, user>>

(* Mutant: the vault key is cached as the master key.                      *)
SetMk_Key(t) ==
    /\ At(t, "mk") \/ At(t, "wipe_mk")
    /\ mk' = IF At(t, "mk") THEN life[t].key ELSE FALSE
    /\ Advance(t)
    /\ UNCHANGED <<svk, dek, locked, handles, second, recovery, user>>

SetMk(t) ==
    /\ At(t, "mk") \/ At(t, "wipe_mk")
    /\ mk' = At(t, "mk")
    /\ Advance(t)
    /\ UNCHANGED <<svk, dek, locked, handles, second, recovery, user>>

(* handles.clear_all()                                                     *)
ClearHandles(t) ==
    /\ At(t, "clear_handles")
    /\ handles' = {}
    /\ Advance(t)
    /\ UNCHANGED <<keys, locked, second, recovery, user>>

(* locked.store(..)                                                        *)
SetLocked(t) ==
    /\ At(t, "open") \/ At(t, "set_locked")
    /\ locked' = At(t, "set_locked")
    /\ answered' = (At(t, "open") /\ answered)
    /\ user' = [w \in Users |-> IF user[w] = Idle \/ At(t, "open") THEN user[w]
                                ELSE [user[w] EXCEPT !.late = TRUE]]
    /\ Advance(t)
    /\ UNCHANGED <<keys, handles, factor, verified, recovery>>

(* reset_second_factor                                                     *)
ResetFactor(t) ==
    /\ At(t, "reset_factor") \/ At(t, "reset_verified")
    /\ factor' = (factor /\ At(t, "reset_verified"))
    /\ verified' = (verified /\ At(t, "reset_factor"))
    /\ Advance(t)
    /\ UNCHANGED <<keys, locked, handles, answered, recovery, user>>

(* The server declares a factor for this account, says nothing, or         *)
(* declares one that the client does not know, which clears both flags.    *)
Discover(t) ==
    /\ At(t, "discover")
    /\ \/ factor' \in {factor, TRUE} /\ UNCHANGED verified
       \/ factor' = FALSE /\ verified' = FALSE
    /\ Advance(t)
    /\ UNCHANGED <<keys, locked, handles, answered, recovery, user>>

(* SecondFactorRequired                                                    *)
Gate(t) ==
    /\ At(t, "gate")
    /\ IF factor /\ ~verified THEN Return(t) ELSE Advance(t)
    /\ UNCHANGED <<keys, locked, handles, second, recovery, user>>

(* The conditions on which an operation returns an error.                  *)
Holds(step) ==
    CASE step = "need_open" -> ~locked
      [] step = "need_mk" -> mk
      [] step = "need_svk" -> svk # None
      [] step = "need_pending" -> pending

Need(t) ==
    /\ \E step \in {"need_open", "need_mk", "need_svk", "need_pending"} :
         At(t, step) /\ IF Holds(step) THEN Advance(t) ELSE Return(t)
    /\ UNCHANGED <<keys, locked, handles, second, recovery, user>>

(* A call whose error the operation returns before it changes anything.    *)
Try(t) ==
    /\ At(t, "try")
    /\ Advance(t) \/ Return(t)
    /\ UNCHANGED <<keys, locked, handles, second, recovery, user>>

SetRecovery(t) ==
    /\ At(t, "creds") \/ At(t, "pending") \/ At(t, "not_pending")
    /\ creds' = (creds \/ At(t, "creds"))
    /\ pending' = IF At(t, "creds") THEN pending ELSE At(t, "pending")
    /\ Advance(t)
    /\ UNCHANGED <<keys, locked, handles, second, user>>

-----------------------------------------------------------------------------
(* The user's calls                                                        *)

(* reveal_secret: the check of the lock flag; the row is read next.        *)
RevealCheck(t) ==
    /\ user[t] = Idle
    /\ ~locked
    /\ user' = [user EXCEPT ![t] = [op |-> "reveal", late |-> FALSE]]
    /\ UNCHANGED <<keys, locked, handles, second, recovery, life>>

(* reveal_secret: with the dek mutex held, the payload is decrypted and    *)
(* the handle inserted; without a key it returns an error.                 *)
RevealInsert(t, h) ==
    /\ user[t] # Idle /\ user[t].op = "reveal"
    /\ h \notin handles
    /\ handles' = IF dek # None THEN handles \cup {h} ELSE handles
    /\ user' = [user EXCEPT ![t] = Idle]
    /\ UNCHANGED <<keys, locked, second, recovery, life>>

(* release_secret, or the Safety Reaper after 60 s without an access       *)
Release(h) ==
    /\ h \in handles
    /\ handles' = handles \ {h}
    /\ UNCHANGED <<keys, locked, second, recovery, life, user>>

(* verify_totp: the code is sent ...                                       *)
VerifyAsk(t) ==
    /\ user[t] = Idle
    /\ user' = [user EXCEPT ![t] = [op |-> "verify", late |-> FALSE]]
    /\ UNCHANGED <<keys, locked, handles, second, recovery, life>>

(* ... and accepted. late: the vault was locked while the code was on its  *)
(* way, which only the property looks at.                                  *)
VerifyDone(t) ==
    /\ user[t] # Idle /\ user[t].op = "verify"
    /\ verified' = TRUE
    /\ answered' = (answered \/ ~user[t].late)
    /\ user' = [user EXCEPT ![t] = Idle]
    /\ UNCHANGED <<keys, locked, handles, factor, recovery, life>>

(* verify_totp returns the error of a refused code.                        *)
VerifyRefused(t) ==
    /\ user[t] # Idle /\ user[t].op = "verify"
    /\ user' = [user EXCEPT ![t] = Idle]
    /\ UNCHANGED <<keys, locked, handles, second, recovery, life>>

-----------------------------------------------------------------------------
LifeStep(t) ==
    \/ \E op \in Ops, key \in Keys : Call(t, op, key)
    \/ SetSvk(t) \/ SetDek(t) \/ SetMk(t)
    \/ ClearHandles(t) \/ SetLocked(t)
    \/ ResetFactor(t) \/ Discover(t) \/ Gate(t)
    \/ Need(t) \/ Try(t) \/ SetRecovery(t)

UserStep(t) ==
    \/ RevealCheck(t) \/ \E h \in Handles : RevealInsert(t, h)
    \/ VerifyAsk(t) \/ VerifyDone(t) \/ VerifyRefused(t)

Next ==
    \/ \E t \in Life : LifeStep(t)
    \/ \E t \in Users : UserStep(t)
    \/ \E h \in Handles : Release(h)

Spec == Init /\ [][Next]_vars

-----------------------------------------------------------------------------
Quiet == \A t \in Life : life[t] = Idle

(* A locked client with no operation running has no key and no revealed    *)
(* secret, although reveal_secret checks the lock flag one await before it *)
(* takes the key: lock wipes the key before it releases the handles.       *)
LockedEmpty ==
    locked /\ Quiet => svk = None /\ dek = None /\ ~mk /\ handles = {}

(* An unlocked client with no operation running holds the vault key and    *)
(* the data key derived from the same vault key.                           *)
OpenHasKeys == ~locked /\ Quiet => svk # None /\ dek = svk

(* "None while locked": the vault key and the data key after operations    *)
(* that overlapped.                                                        *)
NoneWhileLocked == locked /\ Quiet => svk = None /\ dek = None

(* "Whether the current login has satisfied the required second factor":   *)
(* a password unlock that needs the factor passes the gate only on an      *)
(* answer to a challenge of this login.                                    *)
FactorOfThisLogin ==
    [][\A t \in Life :
         At(t, "gate") /\ life'[t] # Idle /\ life'[t] # life[t] /\ factor => answered]_life

(* "held while a recovery is pending": the recovery credential.            *)
CredsWhilePending == Quiet /\ creds => pending
=============================================================================
