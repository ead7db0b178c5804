--------------------------- MODULE MCProjectAccess ---------------------------
(* Small instances of ProjectAccess and MachineAccess for TLC: a behaviour  *)
(* is of people and their roles, or of machine accounts and secrets.        *)
EXTENDS ProjectAccess, TLC

CONSTANTS Sides,
          Staff, Vaults, Owner, Accounts, Tokens, Secrets, Values, MaxMachineRequests

VARIABLES side, projects, level, reveal, account, token, secret, audit, task, tasks, taken,
          served, given
M == INSTANCE MachineAccess
       WITH Users <- Staff, Projects <- Vaults, MaxRequests <- MaxMachineRequests,
            call <- task, requests <- tasks, spent <- taken

machines == <<projects, level, reveal, account, token, secret, audit, task, tasks, taken,
              served, given>>

AccessSymmetry ==
    Permutations(Calls) \cup Permutations(Users) \cup Permutations(Orgs) \cup Permutations(Vaults)

\* The other side stays in its first state.
MCInit == side \in Sides /\ Init /\ M!Init /\ (side = "people" => reveal = {})
MCNext ==
    /\ UNCHANGED side
    /\ \/ side = "people" /\ Next /\ UNCHANGED machines
       \/ side = "machines" /\ M!Next /\ UNCHANGED vars
MCSpec ==
    /\ MCInit /\ [][MCNext]_<<side, vars, machines>>
    /\ \A c \in Calls : WF_vars(Step(c))

ASSUME MachinesAssumption == M!MachineAssumption

\* What leaves the server of a project's secrets was allowed, and revealed
\* values are audited (verify_access_token, create_token, get_secret_value).
SecretsGuarded == M!SecretsGuarded
\* Properties of MachineAccess that the code does not have: tokens keep their
\* account and its scopes, are recognized, and patches keep other fields.
KeepsAccount == M!KeepsAccount
ScopesWithinAccount == M!ScopesWithinAccount
IssuedTokenRecognized == M!IssuedTokenRecognized
PatchKeepsValue == M!PatchKeepsValue
=============================================================================
