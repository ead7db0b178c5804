---------------------------- MODULE MCDesktopApp ----------------------------
(* Small instances of DesktopApp for TLC: what the user does, by scene.     *)
CONSTANTS Accounts, AppItems, Projects, ItemLists, ProjectLists, Scenes, MaxInFlight, MaxGen,
          MaxCopies, NoAccount, a1, a2, o1, o2, p1, p2

VARIABLES view, world, uses

App == INSTANCE DesktopApp WITH Items <- AppItems, None <- NoAccount

MCItemLists == {<<o1, o2>>, <<o2>>}
MCProjectLists == {<<p1, p2>>, <<p2>>}

Always == {"do_login", "do_lock", "activate_section"}

SignInScene == {"switch_mode", "do_register", "do_login", "do_complete_login_mfa", "do_restore", "do_lock", "relaunch"}
VaultScene == {"do_login", "do_lock", "select_item", "do_reveal", "request_delete", "do_delete", "dismiss_delete",
               "do_sync", "vault_adding", "do_add_vault_item", "escape"}
RotateScene == Always \cup {"do_restore", "do_rotate_key", "vault_adding", "do_add_vault_item", "Mfa", "Vault", "relaunch"}
UpdateScene == {"do_login", "do_lock", "do_sync", "install_pending_update", "postpone_update"}
SharingScene == {"do_login", "do_lock", "events", "resolve_conflict_head", "select_item", "request_share", "do_share",
                 "dismiss_share", "do_create_group", "do_add_group_member", "do_share_to_group"}
ProjectScene == {"do_login", "do_lock", "activate_section", "Projects", "do_select_project", "switch_tab",
                 "do_reveal_secret"}
CreateScene == Always \cup {"Projects", "do_refresh_projects", "create_project", "do_create_project", "do_add_member"}
MemberScene == Always \cup {"Projects", "do_remove_member", "do_update_member_permission", "request_offboard",
                            "do_offboard", "dismiss_offboard"}
SecretScene == {"do_login", "activate_section", "Projects", "switch_tab", "do_add_secret", "request_delete_secret",
                "do_delete_secret", "dismiss_delete_secret"}
MachineScene == Always \cup {"MachineAccounts", "Tokens", "do_refresh_settings", "do_create_machine", "do_toggle_machine",
                             "do_delete_machine", "do_revoke_token", "do_create_token", "dismiss_issued"}
OverviewScene == Always \cup {"Secrets", "do_reveal_overview_secret"}
DashboardScene == {"do_login", "activate_section", "Dashboard"}
MfaScene == Always \cup {"Mfa", "Vault", "do_refresh_mfa", "do_enroll_totp", "do_verify_totp"}
AuditScene == {"do_login", "activate_section", "Audit"}
ReportScene == Always \cup {"Shares", "Audit", "do_refresh_shares", "load_audit"}
ImportScene == Always \cup {"ImportExport", "do_export_backup", "do_export_vault", "do_export_audit", "do_restore_backup"}
OnboardingScene == {"do_login", "do_lock", "onboarding_next", "onboarding_back", "onboarding_skip", "relaunch"}
GuideScene == {"do_login", "activate_section", "Settings", "trigger_replay_onboarding", "onboarding_skip",
               "trigger_replay_tour", "tour_next", "tour_back", "tour_close"}
CopyScene == Always \cup {"Generator", "Settings", "do_copy_generator", "copy_kit", "kit_revealed", "idle"}

AllScenes == {SignInScene, VaultScene, RotateScene, UpdateScene, SharingScene, ProjectScene, CreateScene, MemberScene, SecretScene,
              MachineScene, OverviewScene, DashboardScene, MfaScene, ReportScene, ImportScene, OnboardingScene, GuideScene, CopyScene}
SignInOnly == {SignInScene}
VaultOnly == {VaultScene}
RotateOnly == {RotateScene}
SharingOnly == {SharingScene}
ProjectOnly == {ProjectScene}
CreateOnly == {CreateScene}
MemberOnly == {MemberScene}
SecretOnly == {SecretScene}
MachineOnly == {MachineScene}
OverviewOnly == {OverviewScene}
MfaOnly == {MfaScene}
ReportOnly == {ReportScene}
ImportOnly == {ImportScene}
OnboardingOnly == {OnboardingScene}
GuideOnly == {GuideScene}
CopyOnly == {CopyScene}
AuditOnly == {AuditScene}
SignInMachine == {SignInScene \cup MachineScene}

-----------------------------------------------------------------------------
DesktopSpec == App!FairSpec

(* The view holds the core client, the data key and the session token of    *)
(* one account, or none of the three.                                       *)
KeysTogether == App!KeysTogether

(* do_copy: what is copied is cleared from the clipboard in the end.        *)
CopyIsCleared == App!CopyIsCleared

(* Every busy mark a handler sets is taken away again by its task's answer. *)
BusyEnds == App!BusyEnds

(* An idle vault is locked by the ticker.                                   *)
AutoLocks == App!AutoLocks

(* The properties of DesktopApp that the code does not have, which          *)
(* DesktopAppRefuted.cfg refutes: do_lock ends every client,                *)
LockEndsClients == App!LockEndsClients
(* what is drawn belongs to the account signed in,                          *)
OwnDataOnly == App!OwnDataOnly
(* the rows of a project page to the project selected,                      *)
DetailOfSelected == App!DetailOfSelected
(* and the plaintext to the item selected;                                  *)
RevealedIsSelected == App!RevealedIsSelected
(* recovery codes are shown once;                                           *)
CodesShownOnce == App!CodesShownOnce
(* an item is sealed under the account's generation,                        *)
SealedUnderCurrent == App!SealedUnderCurrent
(* and the saved session carries it;                                        *)
SessionKeyCurrent == App!SessionKeyCurrent
(* the audit page comes to rest.                                            *)
AuditSettles == App!AuditSettles
=============================================================================
