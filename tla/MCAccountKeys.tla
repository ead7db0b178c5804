---------------------------- MODULE MCAccountKeys ----------------------------
(* Small instances of AccountKeys and MobileAccount for TLC: a behaviour is *)
(* of the server's handlers, or of the phones and one account.              *)
EXTENDS AccountKeys, TLC

CONSTANTS Phones, Passwords, MaxDrawn, MaxCalls, MaxFaults, Sides

VARIABLES side, account, nonce, phone, file, vault, sync, pending, enclave, sharing, drawn,
          calls, faults, known, held, announced
P == INSTANCE MobileAccount

ASSUME PhoneAssumption == None \notin P!AccountRow

mobile == <<account, nonce, phone, file, vault, sync, pending, enclave, sharing, drawn, calls,
            faults, known, held, announced>>

AccountSymmetry ==
    Permutations(Calls) \cup Permutations(Sessions) \cup Permutations(RecTokens)
      \cup Permutations(Phones) \cup Permutations(Passwords)

\* The other side stays in its first state.
MCInit ==
    /\ side \in Sides /\ Init /\ P!MobileInit
    /\ side = "server" \/ user = None
    /\ side = "phones" \/ account = None
MCNext ==
    /\ UNCHANGED side
    /\ \/ side = "server" /\ Next /\ UNCHANGED mobile
       \/ side = "phones" /\ P!MobileNext /\ UNCHANGED vars
MCSpec == MCInit /\ [][MCNext]_<<side, vars, mobile>>

\* What a phone keeps and tells is what the server accepted (register, login,
\* complete_recovery_kit, atomic_write_private).
PhoneMatchesServer == P!PhoneMatchesServer
\* A verified kit opens its wrap and, until a rotation, the vault (register,
\* complete_recovery_kit).
KitWorks == P!KitWorks
\* The kit leads to the key of the vault, after a rotation too
\* (account_rotate_key, which writes the old recovery wrap back).
KitOpensVault == P!KitOpensVault
\* Other properties of MobileAccount that its code does not have: a registered
\* kit can recover, the user has it, files and sharing keys stay current.
KitEnrolled == P!KitEnrolled
KitGiven == P!KitGiven
FileCurrent == P!FileCurrent
SharingKeyKept == P!SharingKeyKept
=============================================================================
