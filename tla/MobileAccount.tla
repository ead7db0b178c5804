---------------------------- MODULE MobileAccount ----------------------------
(***************************************************************************)
(* The mobile client (vautr-ffi, MobileClient) and the account it keeps on *)
(* a phone: registration, login with its second factor, recovery with the  *)
(* Emergency Kit, unlocking, rotation and the sharing key.                 *)
(*                                                                         *)
(* Every request is a step of its own; it may fail, its answer may be      *)
(* lost, and the process may end between any two steps. A phone runs one   *)
(* method at a time. The server answers in one step per request (modules   *)
(* ServerLogin and AccountKeys have its handlers), and keeps one account.  *)
(* A number stands for what is drawn at random: salts, vault keys and kits *)
(* that bear the same number were drawn by the same call.                  *)
(***************************************************************************)
EXTENDS Naturals, FiniteSets

CONSTANTS Phones, Passwords, None,
          MaxDrawn,     \* bound: random draws
          MaxCalls,     \* bound: methods called
          MaxFaults     \* bound: failures, lost answers, crashes

VARIABLES account,    \* the users row
          nonce,      \* recovery_challenges: for which phone, or None
          phone,      \* the method each phone is in
          file,       \* <vault>.account.json
          vault,      \* keys in memory while unlocked
          sync,       \* phones whose transport holds a live session
          pending,    \* a login that waits for its TOTP code
          enclave,    \* the SVK in the OS keystore
          sharing,    \* sharing_secret
          drawn, calls, faults,
          known,      \* history: kits the user was given
          held,       \* history: credentials the server has accepted
          announced   \* history: the last sharing key handed out for publishing

server == <<account, nonce>>
device == <<file, vault, sync, pending, enclave, sharing>>
past == <<known, held, announced>>
mobileVars == <<server, phone, device, drawn, calls, faults, past>>

Free == [pc |-> "free", pw |-> None, salt |-> None, kit |-> None, told |-> None,
         blob |-> None, new |-> None, token |-> FALSE]

In(p, pc) == phone[p].pc = pc
Enter(p, r) ==
    /\ In(p, "free") /\ calls < MaxCalls /\ calls' = calls + 1
    /\ phone' = [phone EXCEPT ![p] = r]
Go(p, r) == phone' = [phone EXCEPT ![p] = r] /\ UNCHANGED faults
Leave(p) == Go(p, Free)
Fault == faults < MaxFaults /\ faults' = faults + 1

(* the server has acted; its answer arrives or is lost                     *)
Reply(p, r) == Go(p, r) \/ (Fault /\ phone' = [phone EXCEPT ![p] = Free])

Roll == drawn < MaxDrawn /\ drawn' = drawn + 1

-----------------------------------------------------------------------------
(* Key material                                                            *)

(* The account file: the mnemonic sealed under the KEK of password and     *)
(* salt; older files have it in the clear                                  *)
LocalAccount(pw, n) == [salt |-> n, kit |-> n, seal |-> pw]

save_local_account(c) == LocalAccount(c.pw, c.new)

(* load_local_account: a mnemonic that does not unseal is left empty       *)
load_local_account(f, pw) == IF f.seal \in {None, pw} THEN f.kit ELSE None

(* unlock_with_password: the KEK of password and local salt                *)
Opens(c) == c.blob.pw = c.pw /\ c.blob.salt = c.salt

(* recover_svk: the blob is bound to the user id, or to nil as older       *)
(* clients and registration do                                             *)
Unwraps(blob, kit) == blob.kit = kit /\ blob.ad \in {"id", "nil"}

(* What the server keeps of the account: password, wraps of the vault key  *)
(* for password and kit, the kit that recovery accepts, and history: the   *)
(* key the vault is encrypted with, and whether it was ever rotated        *)
AccountRow ==
    [pw : Passwords, mp : [pw : Passwords, salt : Nat, svk : Nat],
     rk : [kit : Nat, svk : Nat, ad : {"id", "nil"}], rkpk : Nat \cup {None},
     key : Nat, rotated : BOOLEAN, totp : BOOLEAN]

(* the row that registration sends; it has no recovery public key          *)
RegisteredRow(pw, n) ==
    [pw |-> pw, mp |-> [pw |-> pw, salt |-> n, svk |-> n],
     rk |-> [kit |-> n, svk |-> n, ad |-> "nil"], rkpk |-> None,
     key |-> n, rotated |-> FALSE, totp |-> FALSE]

(* Mutant: a fresh vault key.                                              *)
RecoveredRow_NewSvk(c) ==
    [account EXCEPT !.pw = c.pw, !.mp = [pw |-> c.pw, salt |-> c.new, svk |-> c.new],
                    !.rk = [kit |-> c.new, svk |-> c.new, ad |-> "id"], !.rkpk = c.new]

(* the row that recovery sends: the recovered key under a new password and *)
(* a new kit                                                               *)
RecoveredRow(c) ==
    [account EXCEPT !.pw = c.pw, !.mp = [pw |-> c.pw, salt |-> c.new, svk |-> c.blob.svk],
                    !.rk = [kit |-> c.new, svk |-> c.blob.svk, ad |-> "id"], !.rkpk = c.new]

Credentials(a) == [salt |-> a.mp.salt, pw |-> a.pw]

-----------------------------------------------------------------------------
(* No account; or one that a phone has registered, whose kit the user has  *)
(* and whose recovery key the server was given by hand, with the file of   *)
(* an older client                                                         *)
MobileInit ==
    /\ \/ /\ account = None /\ drawn = 0 /\ known = {} /\ held = {}
          /\ file = [p \in Phones |-> None]
       \/ /\ \E pw \in Passwords :
               /\ account = [RegisteredRow(pw, 1) EXCEPT !.rkpk = 1]
               /\ \E q \in Phones, s \in {None, pw} :
                    file = [p \in Phones |-> IF p = q THEN LocalAccount(s, 1) ELSE None]
               /\ held = {[salt |-> 1, pw |-> pw]}
          /\ drawn = 1 /\ known = {1}
    /\ nonce = None /\ phone = [p \in Phones |-> Free]
    /\ vault = [p \in Phones |-> None] /\ sync = {}
    /\ pending = [p \in Phones |-> None] /\ enclave = [p \in Phones |-> None]
    /\ sharing = [p \in Phones |-> None] /\ announced = [p \in Phones |-> None]
    /\ calls = 0 /\ faults = 0

-----------------------------------------------------------------------------
(* register                                                                *)

Register(p, pw) ==
    /\ Roll /\ Enter(p, [Free EXCEPT !.pc = "register_start", !.pw = pw, !.new = drawn'])
    /\ UNCHANGED <<server, device, faults, past>>

(* Mutant: the status of the answer is not looked at.                      *)
Refused_Unseen(p) == Go(p, [phone[p] EXCEPT !.pc = "save"])

(* error_for_status                                                        *)
Refused(p) == Leave(p)

RegisterStarted(p) ==
    /\ In(p, "register_start")
    /\ Go(p, [phone[p] EXCEPT !.pc = IF phone[p].blob = None THEN "register_finish" ELSE "complete"])
    /\ UNCHANGED <<server, device, drawn, calls, past>>

RegisterFinished(p) ==
    /\ In(p, "register_finish")
    /\ IF account = None
         THEN /\ account' = RegisteredRow(phone[p].pw, phone[p].new)
              /\ held' = held \cup {Credentials(account')}
              /\ Reply(p, [phone[p] EXCEPT !.pc = "save"])
         ELSE Refused(p) /\ UNCHANGED <<account, held>>
    /\ UNCHANGED <<nonce, device, drawn, calls, known, announced>>

(* atomic_write_private: to a temporary file                               *)
WriteTemp(p) == UNCHANGED file

SaveTemp(p) ==
    /\ In(p, "save")
    /\ WriteTemp(p)
    /\ Go(p, [phone[p] EXCEPT !.pc = "rename"])
    /\ UNCHANGED <<server, vault, sync, pending, enclave, sharing, drawn, calls, past>>

(* renamed over the account file; the method returns the kit               *)
SaveRename(p) ==
    /\ In(p, "rename")
    /\ file' = [file EXCEPT ![p] = save_local_account(phone[p])]
    /\ known' = known \cup {phone[p].new}
    /\ Leave(p)
    /\ UNCHANGED <<server, vault, sync, pending, enclave, sharing, drawn, calls, held, announced>>

-----------------------------------------------------------------------------
(* login, and complete_login_totp                                          *)

Load(p, pw, pc) ==
    Enter(p, [Free EXCEPT !.pc = pc, !.pw = pw, !.salt = file[p].salt,
                          !.told = load_local_account(file[p], pw)])

StartLogin(p, pw) ==
    /\ file[p] # None /\ Load(p, pw, "login_start")
    /\ UNCHANGED <<server, device, drawn, faults, past>>

(* the client's half of the handshake fails on a wrong password            *)
LoginStarted(p) ==
    /\ In(p, "login_start")
    /\ IF account # None /\ account.pw = phone[p].pw
         THEN Go(p, [phone[p] EXCEPT !.pc = "login_finish"]) ELSE Leave(p)
    /\ UNCHANGED <<server, device, drawn, calls, past>>

(* a session, or a pending token in place of it                            *)
LoginFinished(p) ==
    /\ In(p, "login_finish")
    /\ IF account.totp
         THEN /\ pending' = [pending EXCEPT ![p] = phone[p].pw]
              /\ Leave(p)
         ELSE Go(p, [phone[p] EXCEPT !.pc = "status", !.token = TRUE]) /\ UNCHANGED pending
    /\ UNCHANGED <<server, file, vault, sync, enclave, sharing, drawn, calls, past>>

StartTotp(p) ==
    /\ pending[p] # None /\ file[p] # None
    /\ Load(p, pending[p], "verify_login")
    /\ UNCHANGED <<server, device, drawn, faults, past>>

(* the code is right and the token is spent, or it is wrong                *)
TotpVerified(p) ==
    /\ In(p, "verify_login")
    /\ \/ /\ pending' = [pending EXCEPT ![p] = None]
          /\ Reply(p, [phone[p] EXCEPT !.pc = "status", !.token = TRUE])
       \/ Leave(p) /\ UNCHANGED pending
    /\ UNCHANGED <<server, file, vault, sync, enclave, sharing, drawn, calls, past>>

(* the wrapped key, which a revoked session does not get                   *)
StatusFetched(p) ==
    /\ In(p, "status")
    /\ IF phone[p].token
         THEN Go(p, [phone[p] EXCEPT !.pc = "unlock", !.kit = account.rk.kit,
                                     !.blob = account.mp])
         ELSE Leave(p)
    /\ UNCHANGED <<server, device, drawn, calls, past>>

(* unlock_with_password and connect_sync                                   *)
UnlockWithPassword(p) ==
    /\ In(p, "unlock")
    /\ IF Opens(phone[p])
         THEN /\ vault' = [vault EXCEPT ![p] = [svk |-> phone[p].blob.svk, mk |-> TRUE,
                                                pw |-> phone[p].pw, salt |-> phone[p].salt]]
              /\ sync' = IF phone[p].token THEN sync \cup {p} ELSE sync \ {p}
         ELSE UNCHANGED <<vault, sync>>
    /\ Leave(p)
    /\ UNCHANGED <<server, file, pending, enclave, sharing, drawn, calls, past>>

-----------------------------------------------------------------------------
(* complete_recovery_kit                                                   *)

Recover(p, kit, pw) ==
    /\ kit \in known
    /\ Enter(p, [Free EXCEPT !.pc = "challenge", !.pw = pw, !.kit = kit])
    /\ UNCHANGED <<server, device, drawn, faults, past>>

Challenged(p) ==
    /\ In(p, "challenge")
    /\ nonce' = IF account = None THEN nonce ELSE p
    /\ Reply(p, [phone[p] EXCEPT !.pc = "verify"])
    /\ UNCHANGED <<account, device, drawn, calls, past>>

(* sign_recovery_nonce: over the nonce the phone was given, checked        *)
(* against the one that is stored by now                                   *)
Verified(p) ==
    /\ In(p, "verify")
    /\ IF account # None /\ account.rkpk = phone[p].kit /\ nonce = p
         THEN /\ nonce' = None
              /\ Reply(p, [phone[p] EXCEPT !.pc = "info", !.salt = account.mp.salt])
         ELSE Leave(p) /\ UNCHANGED nonce
    /\ UNCHANGED <<account, device, drawn, calls, past>>

InfoFetched(p) ==
    /\ In(p, "info")
    /\ Go(p, [phone[p] EXCEPT !.pc = "unwrap", !.blob = account.rk])
    /\ UNCHANGED <<server, device, drawn, calls, past>>

(* the SVK, and fresh salt and kit to wrap it with                         *)
RecoverSvk(p) ==
    /\ In(p, "unwrap")
    /\ IF Unwraps(phone[p].blob, phone[p].kit)
         THEN Roll /\ Go(p, [phone[p] EXCEPT !.pc = "register_start", !.new = drawn'])
         ELSE Leave(p) /\ UNCHANGED drawn
    /\ UNCHANGED <<server, device, calls, past>>

(* all credentials are replaced and all sessions end, or the recovery      *)
(* token has expired                                                       *)
RecoverCompleted(p) ==
    /\ In(p, "complete")
    /\ \/ /\ account' = RecoveredRow(phone[p])
          /\ held' = held \cup {Credentials(account')}
          /\ sync' = {}
          /\ LET out == [q \in Phones |-> [phone[q] EXCEPT !.token = FALSE]]
             IN \/ phone' = [out EXCEPT ![p] = [out[p] EXCEPT !.pc = "save"]] /\ UNCHANGED faults
                \/ Fault /\ phone' = [out EXCEPT ![p] = Free]
       \/ Refused(p) /\ UNCHANGED <<account, held, sync>>
    /\ UNCHANGED <<nonce, file, vault, pending, enclave, sharing, drawn, calls, known, announced>>

-----------------------------------------------------------------------------
(* The rest of the surface: each returns at once                           *)

Quick(p) == In(p, "free") /\ calls < MaxCalls /\ calls' = calls + 1 /\ UNCHANGED phone

Lock(p) ==
    /\ vault[p] # None /\ Quick(p)
    /\ vault' = [vault EXCEPT ![p] = None]
    /\ UNCHANGED <<server, file, sync, pending, enclave, sharing, drawn, faults, past>>

(* SecureEnclaveBridge: the app keeps the SVK                              *)
SaveSvk(p) ==
    /\ vault[p] # None /\ Quick(p)
    /\ enclave' = [enclave EXCEPT ![p] = vault[p].svk]
    /\ UNCHANGED <<server, file, vault, sync, pending, sharing, drawn, faults, past>>

(* unlock, unlock_with_raw_key: no master key comes with it                *)
UnlockRaw(p) ==
    /\ enclave[p] # None /\ Quick(p)
    /\ vault' = [vault EXCEPT ![p] = [svk |-> enclave[p], mk |-> FALSE, pw |-> None, salt |-> None]]
    /\ UNCHANGED <<server, file, sync, pending, enclave, sharing, drawn, faults, past>>

(* rotate_key: a new SVK under the cached master key; the recovery wrap on *)
(* the server is left as it is (module KeyRotation has the re-encryption)  *)
RotateKey(p) ==
    /\ vault[p] # None /\ vault[p].mk /\ p \in sync
    /\ In(p, "free") /\ calls < MaxCalls /\ calls' = calls + 1
    /\ Roll
    /\ account' = [account EXCEPT !.mp = [pw |-> vault[p].pw, salt |-> vault[p].salt, svk |-> drawn'],
                                  !.key = drawn', !.rotated = TRUE]
    /\ \/ vault' = [vault EXCEPT ![p] = [vault[p] EXCEPT !.svk = drawn']] /\ UNCHANGED faults
       \/ Fault /\ UNCHANGED vault
    /\ UNCHANGED <<nonce, phone, file, sync, pending, enclave, sharing, past>>

(* ensure_sharing_key: made on first use, kept in memory                   *)
EnsureSharingKey(p) ==
    /\ Quick(p)
    /\ sharing' = [sharing EXCEPT ![p] = IF @ = None THEN calls' ELSE @]
    /\ announced' = [announced EXCEPT ![p] = sharing'[p]]
    /\ UNCHANGED <<server, file, vault, sync, pending, enclave, drawn, faults, known, held>>

(* set_sharing_secret: what the app has stored, or nothing                 *)
SetSharingSecret(p) ==
    /\ Quick(p)
    /\ sharing' = [sharing EXCEPT ![p] = announced[p]]
    /\ UNCHANGED <<server, file, vault, sync, pending, enclave, drawn, faults, past>>

-----------------------------------------------------------------------------
(* The account is given a second factor from another client                *)
EnrolTotp ==
    /\ account # None /\ ~account.totp
    /\ account' = [account EXCEPT !.totp = TRUE]
    /\ UNCHANGED <<nonce, phone, device, drawn, calls, faults, past>>

(* A request or a write fails and the method returns its error             *)
CallFails(p) ==
    /\ ~In(p, "free") /\ Fault
    /\ phone' = [phone EXCEPT ![p] = Free]
    /\ UNCHANGED <<server, device, drawn, calls, past>>

(* The app is ended: what is in memory is gone                             *)
AppEnds(p) ==
    /\ Fault
    /\ phone' = [phone EXCEPT ![p] = Free]
    /\ vault' = [vault EXCEPT ![p] = None] /\ sync' = sync \ {p}
    /\ pending' = [pending EXCEPT ![p] = None] /\ sharing' = [sharing EXCEPT ![p] = None]
    /\ UNCHANGED <<server, file, enclave, drawn, calls, past>>

PhoneStep(p) ==
    \/ RegisterStarted(p) \/ RegisterFinished(p) \/ SaveTemp(p) \/ SaveRename(p)
    \/ LoginStarted(p) \/ LoginFinished(p) \/ TotpVerified(p) \/ StatusFetched(p)
    \/ UnlockWithPassword(p) \/ Challenged(p) \/ Verified(p) \/ InfoFetched(p)
    \/ RecoverSvk(p) \/ RecoverCompleted(p)

PhoneCall(p) ==
    \/ \E pw \in Passwords :
         Register(p, pw) \/ StartLogin(p, pw) \/ \E kit \in known : Recover(p, kit, pw)
    \/ StartTotp(p) \/ Lock(p) \/ SaveSvk(p) \/ UnlockRaw(p) \/ RotateKey(p)
    \/ EnsureSharingKey(p) \/ SetSharingSecret(p)

MobileNext ==
    EnrolTotp \/ \E p \in Phones : PhoneStep(p) \/ PhoneCall(p) \/ CallFails(p) \/ AppEnds(p)

-----------------------------------------------------------------------------
(* What a phone keeps is what the server accepted: a refused, failed or    *)
(* interrupted registration or recovery leaves the account file as it was  *)
(* (register, complete_recovery_kit, atomic_write_private).                *)
FileFromServer ==
    \A p \in Phones : file[p] # None =>
      \E h \in held : h.salt = file[p].salt /\ file[p].seal \in {None, h.pw}

(* A login that unlocks hands out the kit of the account, if any           *)
(* (load_local_account, login).                                            *)
LoginTellsKit ==
    \A p \in Phones : In(p, "unlock") /\ Opens(phone[p]) /\ phone[p].told # None
      => phone[p].told = phone[p].kit

(* After any failure, lost answer or end of the app, what the phone keeps  *)
(* and tells its user is of an account the server has accepted.            *)
PhoneMatchesServer == FileFromServer /\ LoginTellsKit

(* A kit that was verified opens the recovery blob, however many           *)
(* recoveries came before, unless another recovery was completed since     *)
(* (complete_recovery_kit).                                                *)
VerifiedKitOpens ==
    \A p \in Phones : In(p, "unwrap") /\ account.mp.salt = phone[p].salt
      => Unwraps(phone[p].blob, phone[p].kit)

(* Password and kit lead to the key the vault is encrypted with, as long   *)
(* as it was never rotated (register, complete_recovery_kit).              *)
KitKeepsVault ==
    account # None /\ ~account.rotated
      => account.mp.svk = account.key /\ account.rk.svk = account.key

(* However registrations, recoveries and failures follow one another, the  *)
(* kit opens what the server keeps for it and leads to the vault, as long  *)
(* as the key was never rotated.                                           *)
KitWorks == VerifiedKitOpens /\ KitKeepsVault

(* The kit leads to the key the vault is encrypted with at all times, also *)
(* after rotate_key (account_rotate_key keeps the old recovery wrap).      *)
KitOpensVault == account # None => account.rk.svk = account.key

(* The account can be recovered with its kit.                              *)
KitEnrolled == account # None => account.rkpk = account.rk.kit

(* The user has the kit of the account.                                    *)
KitGiven ==
    account # None /\ (\A p \in Phones : phone[p].pc \notin {"save", "rename"})
      => account.rk.kit \in known

(* A phone that keeps an account keeps the salt its vault needs.           *)
FileCurrent ==
    account # None /\ (\A p \in Phones : phone[p].pc \notin {"save", "rename"})
      => \A p \in Phones : file[p] # None => file[p].salt = account.mp.salt

(* A sharing key that was handed out is still held when the next is.       *)
SharingKeyKept ==
    [][\A p \in Phones : announced[p] # None => announced'[p] = announced[p]]_announced
=============================================================================
