----------------------------- MODULE DesktopApp -----------------------------
(***************************************************************************)
(* The desktop application (apps/desktop/src/desktop_view.rs): one GPUI     *)
(* entity, DesktopView, whose handlers run one at a time.  A handler reads   *)
(* the view, changes it and spawns an asynchronous task; the task's answer   *)
(* is applied to whatever the view has become by then, after a lock, another *)
(* login or another selection included.  Handlers are therefore written as   *)
(* operators from a view to a view, so that they call one another as the      *)
(* code does, and the answers as sets of the views an answer can leave.       *)
(*                                                                         *)
(* What the server or the vault answers is kept as its origin only: the      *)
(* account it was fetched for and the project or item it belongs to.  Texts, *)
(* toasts and layout are left out.  A render_* operator is what that part of *)
(* the screen offers: the handlers its buttons call and the fields it draws. *)
(***************************************************************************)
EXTENDS Integers, Sequences, SequencesExt

CONSTANTS Accounts, Items, Projects,
          ItemLists,      \* the orders in which a search may list the items
          ProjectLists,   \* the orders in which the server may list projects
          Scenes,         \* sets of handlers; a behaviour uses one of them
          MaxInFlight,    \* bound: tasks spawned and not yet answered
          MaxGen,         \* bound: key generations
          MaxCopies,      \* bound: copies to the clipboard
          None

VARIABLES view,   \* the DesktopView entity and the tasks it has spawned
          world,  \* what outlives it: config, session and flag file, clipboard,
                  \* and the key generation of each account at the server
          uses    \* the handlers this behaviour's user clicks

vars == <<view, world, uses>>

Sections == {"Dashboard", "Projects", "Vault", "Generator", "Secrets", "MachineAccounts",
             "Tokens", "Mfa", "ImportExport", "Shares", "Audit", "Settings"}

Fields == {"recovery_mnemonic", "revealed", "members", "secrets", "project_revealed",
           "mfa_status", "mfa_enrolled", "mfa_recovery_codes", "machines", "tokens",
           "issued_token", "share_inbox", "share_groups", "audit_rows", "backup",
           "secrets_rows", "secrets_revealed"}

Modals == {"delete", "delete_secret", "offboard", "share"}
Switches == {"vault_adding", "create_project", "update", "kit_revealed"}

OnboardingSteps == <<"welcome", "create-vault", "emergency-kit", "add-secret", "done">>
Skippable == {"emergency-kit", "add-secret"}
TourSections == <<"Vault", "Vault", "Mfa", "Mfa">>

-----------------------------------------------------------------------------
(* The view at launch and its parts.                                        *)

\* DesktopView::new: a saved session is offered, onboarding shows once.
new(w) ==
    [client |-> None, dek |-> None, token |-> None, restore |-> w.session,
     form |-> "Idle", mode |-> "Login", mfa |-> None,
     section |-> "Vault", onboarding |-> IF w.seen THEN 0 ELSE 1, tour |-> 0,
     items |-> <<>>, item |-> 0, handle |-> None,
     projects |-> <<>>, project |-> 0, target |-> None, tab |-> "Members",
     data |-> [f \in Fields |-> None], pending |-> [m \in Modals |-> None],
     on |-> {}, conflicts |-> <<>>, group |-> None,
     busy |-> {}, keyGen |-> 1, copies |-> 0, idle |-> FALSE,
     subscribed |-> {}, tasks |-> <<>>]

is_unlocked(v) == v.client # None

selected_overview(v) == IF v.item \in DOMAIN v.items THEN v.items[v.item] ELSE None
selected_project_uuid(v) == IF v.project \in DOMAIN v.projects THEN v.projects[v.project] ELSE None

\* VaultManagerState::set_items: the selected index survives if it is in range.
set_items(v, l) == [v EXCEPT !.items = l, !.item = IF @ > Len(l) THEN 0 ELSE @]

\* ProjectsState::set_projects and reconcile_selection: an index, not a uuid.
set_projects(v, l) ==
    [v EXCEPT !.projects = l,
              !.project = IF @ \in DOMAIN l THEN @ ELSE IF l = <<>> THEN 0 ELSE 1]

Clear(v, fs) == [v EXCEPT !.data = [f \in Fields |-> IF f \in fs THEN None ELSE @[f]]]
clear_detail(v) == Clear(v, {"members", "secrets", "project_revealed"})
set_secrets(v, o) == [v EXCEPT !.data["secrets"] = o, !.data["project_revealed"] = None]

\* cx.spawn: what the task captured is the account, the generation and arg.
Spawn(v, do, who, arg) ==
    [v EXCEPT !.tasks = Append(@, [do |-> do, who |-> who, arg |-> arg, gen |-> v.keyGen])]

\* A handler that needs a session token, or an open vault, does nothing without.
WithToken(v, do, arg) == IF v.token = None THEN v ELSE Spawn(v, do, v.token, arg)
WithClient(v, do, arg) == IF v.client = None THEN v ELSE Spawn(v, do, v.client, arg)
Busy(v, flag) == IF v.token = None THEN v ELSE [v EXCEPT !.busy = @ \cup {flag}]
Idle(v, flag) == [v EXCEPT !.busy = @ \ {flag}]
Origin(t) == [who |-> t.who, of |-> t.arg]

-----------------------------------------------------------------------------
(* Sign-in, restore, lock.                                                  *)

\* Any sign-in handler refuses an empty form, and login one without a salt.
Refuse(v) == [v EXCEPT !.form = "Error"]
Submit(v, do, who, arg) == Spawn([v EXCEPT !.form = "Submitting"], do, who, arg)

do_register(v, who) == {Refuse(v), Submit(v, "register", who, None)}

do_login(v, w, who) ==
    {Refuse(v)} \cup IF w.config = None THEN {} ELSE {Submit(v, "login", who, None)}

do_complete_login_mfa(v, w, who) ==
    {Refuse(v)} \cup IF w.config = None THEN {} ELSE {Submit(v, "login_mfa", who, v.mfa)}

\* The saved session names the account; only the password is typed.
do_restore(v, w) ==
    {Refuse(v)} \cup IF v.restore = None \/ w.config = None THEN {}
                     ELSE {Submit(v, "restore", v.restore.who, v.restore.gen)}

\* The register coroutine saves the config, then logs in with it.
registered(v, w, t) ==
    {<<Refuse(v), w>>, <<Spawn(v, "login", t.who, "registered"), [w EXCEPT !.config = t.who]>>,
     <<Refuse(v), [w EXCEPT !.config = t.who]>>}

\* The server's answer: refused, a second factor first, or on to apply_login.
logged_in(v, t) ==
    {Refuse(v), [v EXCEPT !.mfa = t.who, !.form = "Idle"],
     Spawn([v EXCEPT !.data["recovery_mnemonic"] = IF t.arg = "registered" THEN Origin(t) ELSE @],
           "apply", t.who, None)}

\* The pending token is the account's that the challenge was made for.
login_mfa_done(v, t) ==
    {Refuse(v)} \cup IF t.who # t.arg THEN {}
                     ELSE {[v EXCEPT !.mfa = t.who, !.form = "Idle"], Spawn(v, "apply", t.who, None)}

\* The view once its keys are derived and the local store is open.
Opened(v, who, l) ==
    [set_items(v, l) EXCEPT !.client = who, !.dek = who, !.token = who, !.idle = FALSE,
                            !.section = "Vault", !.form = "Success"]

\* The keys derive only from the salt of the account the config names.
apply_login(v, w, t) ==
    {<<Refuse(v), w>>} \cup
    IF w.config # t.who THEN {}
    ELSE {<<[Spawn(Opened(v, t.who, l), "check_for_updates", t.who, None) EXCEPT
               !.data["recovery_mnemonic"] = Origin(t), !.mfa = None,
               !.subscribed = @ \cup {t.who}],
            [w EXCEPT !.session = [who |-> t.who, gen |-> w.gen[t.who]]]>> : l \in ItemLists}

restored(v, w, t) ==
    {Refuse(v)} \cup
    IF w.config # t.who THEN {}
    ELSE {[Opened(v, t.who, l) EXCEPT !.restore = None, !.keyGen = t.arg] : l \in ItemLists}

\* The vault part: VaultManagerState::lock.  Its own client was never attached,
\* so the core client is not locked here; the list is cleared.
vault_lock(v) == [v EXCEPT !.items = <<>>, !.item = 0]

\* Mutant: the lock forgets the keys and keeps the session token.
do_lock_Token(v) == [vault_lock(v) EXCEPT !.client = None, !.dek = None, !.mfa = None, !.section = "Vault"]

do_lock(v) ==
    LET u == IF v.client = None THEN v ELSE Clear([v EXCEPT !.handle = None], {"revealed"})
    IN  [clear_detail(vault_lock(u)) EXCEPT
            !.client = None, !.dek = None, !.token = None, !.mfa = None,
            !.projects = <<>>, !.project = 0, !.tab = "Members", !.busy = @ \ {"projects"},
            !.section = "Vault", !.target = None]

clear_session(w) == [w EXCEPT !.session = None]

-----------------------------------------------------------------------------
(* Vault items: selection, reveal, delete, add, sync, events, sharing.       *)

select_item(v, i) ==
    IF i \in DOMAIN v.items THEN Clear([v EXCEPT !.item = i, !.handle = None], {"revealed"}) ELSE v

do_reveal(v) ==
    IF selected_overview(v) = None \/ v.client = None THEN v
    ELSE Spawn(Clear([v EXCEPT !.handle = None], {"revealed"}), "do_reveal", v.client, selected_overview(v))

revealed(v, t) == {v, [v EXCEPT !.handle = Origin(t), !.data["revealed"] = Origin(t)]}

trigger_refresh(v) == WithClient(v, "search", None)
searched(v) == {v} \cup {set_items(v, l) : l \in ItemLists}

request_delete(v) ==
    IF selected_overview(v) = None THEN v ELSE [v EXCEPT !.pending["delete"] = selected_overview(v)]
do_delete(v) == WithClient([v EXCEPT !.pending["delete"] = None], "do_delete", v.pending["delete"])
deleted(v) == {v, trigger_refresh([v EXCEPT !.pending["delete"] = None])}

do_sync(v) == WithClient(v, "do_sync", None)
synced(v) == {v, trigger_refresh(v)}

\* The payload is sealed now, under the generation the view holds now.
do_add_vault_item(v) == IF v.dek = None THEN v ELSE WithClient(v, "do_add_vault_item", None)
added(v) == {v, trigger_refresh([v EXCEPT !.on = @ \ {"vault_adding"}])}

\* Events of the core client an earlier login subscribed to: the subscription
\* outlives a lock, since its loop holds the client.
subscribe_quarantine_events(v, who) == IF who \in v.subscribed THEN trigger_refresh(v) ELSE v
subscribe_conflict_events(v, who, x) ==
    IF \E i \in DOMAIN v.conflicts : v.conflicts[i].of = x THEN v
    ELSE [v EXCEPT !.conflicts = Append(@, [who |-> who, of |-> x])]

resolve_conflict_head(v) ==
    LET head == Head(v.conflicts)
        rest == [v EXCEPT !.conflicts = SelectSeq(@, LAMBDA e : e.of # head.of)]
    IN  IF v.conflicts = <<>> THEN v ELSE WithClient(rest, "resolve_conflict", head)

request_share(v) ==
    IF selected_overview(v) = None THEN v ELSE [v EXCEPT !.pending["share"] = selected_overview(v)]
do_share(v) == IF v.pending["share"] = None THEN v ELSE WithClient(v, "do_share", v.pending["share"])
shared(v) == {v, [v EXCEPT !.pending["share"] = None]}
do_create_group(v) == WithClient(v, "do_create_group", None)
group_created(v, t) == {v, [v EXCEPT !.group = t.who]}
do_add_group_member(v) == IF v.group = None THEN v ELSE WithClient(v, "do_add_group_member", v.group)
do_share_to_group(v) ==
    IF v.group = None \/ v.pending["share"] = None THEN v
    ELSE WithClient(v, "do_share_to_group", v.pending["share"])

do_rotate_key(v) == WithClient(v, "do_rotate_key", None)
\* The server takes the next generation of the account only once.
rotated(v, w, t) ==
    {<<v, w>>} \cup IF t.gen + 1 <= w.gen[t.who] THEN {}
                    ELSE {<<[v EXCEPT !.keyGen = t.gen + 1], [w EXCEPT !.gen[t.who] = t.gen + 1]>>}

check_for_updates(v) == {v, [v EXCEPT !.on = @ \cup {"update"}]}
install_pending_update(v) ==
    IF "update" \in v.on THEN Spawn([v EXCEPT !.on = @ \ {"update"}], "install", None, None) ELSE v
postpone_update(v) == [v EXCEPT !.on = @ \ {"update"}]

-----------------------------------------------------------------------------
(* Projects, members and project secrets.                                   *)

load_project_detail(v) ==
    IF selected_project_uuid(v) = None THEN v
    ELSE Busy(WithToken(v, "load_project_detail", selected_project_uuid(v)), "projects")

\* Applied to the project selected by now, whichever that is.
detail_loaded(v, t) ==
    LET u == Idle(v, "projects") IN
    {u, [u EXCEPT !.data["members"] = Origin(t)], set_secrets(u, Origin(t)),
     set_secrets([u EXCEPT !.data["members"] = Origin(t)], Origin(t))}

do_refresh_projects(v) == Busy(WithToken(v, "do_refresh_projects", None), "projects")
do_refresh_projects_impl(v) == WithToken(v, "do_refresh_projects_impl", None)
projects_listed(v) ==
    {v} \cup {load_project_detail(clear_detail(set_projects(v, l))) : l \in ProjectLists}

do_select_project(v, i) ==
    IF i \notin DOMAIN v.projects THEN v
    ELSE load_project_detail(clear_detail([v EXCEPT !.project = i, !.target = None]))

do_create_project(v) == WithToken(v, "do_create_project", None)
project_created(v) == {v, do_refresh_projects_impl(v)}

OfSelected(v, do) ==
    IF selected_project_uuid(v) = None THEN v ELSE WithToken(v, do, selected_project_uuid(v))
reload_members(v) == OfSelected(v, "reload_members")
reload_secrets(v) == OfSelected(v, "reload_secrets")
do_add_member(v) == OfSelected(v, "do_add_member")
do_update_member_permission(v) == OfSelected(v, "do_update_member_permission")
do_remove_member(v) == OfSelected(v, "do_remove_member")
member_changed(v) == {v, reload_members(v)}
do_add_secret(v) == IF v.dek = None THEN v ELSE OfSelected(v, "do_add_secret")
secret_added(v) == {v, reload_secrets(v)}

\* The row clicked belongs to the project the list was loaded for; the value
\* opens only under the selected project, to which its ciphertext is bound.
do_reveal_secret(v) ==
    LET row == v.data["secrets"].of
        u == [v EXCEPT !.target = row]
    IN  IF v.dek = None \/ selected_project_uuid(v) = None THEN u
        ELSE WithToken(u, "do_reveal_secret", IF row = selected_project_uuid(v) THEN row ELSE None)
secret_revealed(v, t) ==
    {v} \cup IF t.arg = None THEN {} ELSE {[v EXCEPT !.data["project_revealed"] = Origin(t)]}

request_delete_secret(v) == [v EXCEPT !.pending["delete_secret"] = v.data["secrets"].of]
do_delete_secret(v) ==
    WithToken([v EXCEPT !.pending["delete_secret"] = None], "do_delete_secret", v.pending["delete_secret"])
secret_deleted(v) == {v, reload_secrets([v EXCEPT !.pending["delete_secret"] = None])}

request_offboard(v, who) == [v EXCEPT !.pending["offboard"] = who]
do_offboard(v) == WithToken([v EXCEPT !.pending["offboard"] = None], "do_offboard", v.pending["offboard"])
offboarded(v) == {v, [v EXCEPT !.pending["offboard"] = None]}

-----------------------------------------------------------------------------
(* The sections that list what the server holds for the account.             *)

\* An answer to several requests: each of them may have failed on its own.
Fetched(v, t, fs) ==
    {[v EXCEPT !.data = [f \in Fields |-> IF f \in ok THEN Origin(t) ELSE @[f]]] : ok \in SUBSET fs}

do_refresh_settings(v) == WithToken(v, "do_refresh_settings", None)
do_refresh_settings_to(v) == WithToken(v, "do_refresh_settings_to", None)
do_create_machine(v) == WithToken(v, "do_create_machine", None)
do_toggle_machine(v) == WithToken(v, "do_toggle_machine", None)
do_delete_machine(v) == WithToken(v, "do_delete_machine", None)
do_revoke_token(v) == WithToken(v, "do_revoke_token", None)
machine_changed(v) == {v, do_refresh_settings_to(v)}
do_create_token(v) == WithToken(v, "do_create_token", None)
token_created(v, t) == {v, do_refresh_settings_to([v EXCEPT !.data["issued_token"] = Origin(t)])}

do_refresh_dashboard(v) == Busy(WithToken(v, "do_refresh_dashboard", None), "dashboard")
dashboard_loaded(v, t) ==
    LET got == Fetched(Idle(v, "dashboard"), t, {"machines", "tokens", "mfa_status", "backup"})
    IN  got \cup {set_projects(u, l) : u \in got, l \in ProjectLists}

do_refresh_secrets(v) == Busy(WithToken(v, "do_refresh_secrets", None), "secrets")
\* Mutant: an error leaves the list marked as loading.
secrets_listed_Error(v, t) ==
    {v, Clear([Idle(v, "secrets") EXCEPT !.data["secrets_rows"] = Origin(t)], {"secrets_revealed"})}

secrets_listed(v, t) ==
    {Idle(v, "secrets"),
     Clear([Idle(v, "secrets") EXCEPT !.data["secrets_rows"] = Origin(t)], {"secrets_revealed"})}
do_reveal_overview_secret(v) ==
    IF v.data["secrets_revealed"] # None THEN Clear(v, {"secrets_revealed"})
    ELSE IF v.dek = None \/ v.data["secrets_rows"] = None THEN v
    ELSE WithToken(v, "do_reveal_overview_secret", v.data["secrets_rows"].who)
overview_revealed(v, t) ==
    {v} \cup IF t.arg # t.who THEN {} ELSE {[v EXCEPT !.data["secrets_revealed"] = Origin(t)]}

do_refresh_mfa(v) == WithToken(v, "do_refresh_mfa", None)
do_enroll_totp(v) == WithToken(v, "do_enroll_totp", None)
do_verify_totp(v) == WithToken(v, "do_verify_totp", None)
totp_verified(v, t) ==
    {v, WithToken(Clear([v EXCEPT !.data["mfa_recovery_codes"] = Origin(t)], {"mfa_enrolled", "mfa_status"}),
                  "do_refresh_mfa", None)}

do_refresh_shares(v) == Busy(WithToken(v, "do_refresh_shares", None), "shares")
shares_loaded(v, t) == Fetched(Idle(v, "shares"), t, {"share_inbox", "share_groups"})

load_audit(v) ==
    IF v.token = None THEN v
    ELSE Busy(WithToken([v EXCEPT !.on = @ \ {"audit_text"}], "load_audit", None), "audit")
\* A log, an empty log, or an error text.
audit_loaded(v, t) ==
    LET u == Idle(v, "audit") IN
    {[u EXCEPT !.data["audit_rows"] = Origin(t)], Clear(u, {"audit_rows"}), [u EXCEPT !.on = @ \cup {"audit_text"}]}

do_refresh_backup(v) == WithToken(v, "do_refresh_backup", None)
do_export_backup(v) == Busy(WithToken(v, "do_export_backup", None), "import")
backup_exported(v) == {Idle(v, "import"), do_refresh_backup(Idle(v, "import"))}
do_export_vault(v) == IF v.client = None THEN v ELSE Busy(WithClient(v, "do_export_vault", None), "import")
do_export_audit(v) == Busy(WithToken(v, "do_export_audit", None), "import")
do_restore_backup(v) == Busy(WithToken(v, "do_restore_backup", None), "import")
written(v) == {Idle(v, "import")}
-----------------------------------------------------------------------------
(* Onboarding, the feature tour, the clipboard.                              *)

\* Step numbers count from 1; 0 is an overlay that is not showing.
do_onboarding_create_vault(v) ==
    [do_create_project(v) EXCEPT
        !.onboarding = IF @ < Len(OnboardingSteps) THEN @ + 1 ELSE @]
onboarding_next(v) ==
    IF OnboardingSteps[v.onboarding] = "create-vault" THEN do_onboarding_create_vault(v)
    ELSE [v EXCEPT !.onboarding = IF @ >= Len(OnboardingSteps) THEN 0 ELSE @ + 1]
mark_seen(v, w) ==
    [w EXCEPT !.seen = @ \/ (v.onboarding >= Len(OnboardingSteps)
                             /\ OnboardingSteps[v.onboarding] # "create-vault")]
onboarding_back(v) == [v EXCEPT !.onboarding = IF @ > 1 THEN @ - 1 ELSE @]
onboarding_skip(v) == [v EXCEPT !.onboarding = Len(OnboardingSteps)]
trigger_replay_onboarding(v) == [v EXCEPT !.onboarding = 1]

activate_section(v, sec) ==
    LET u == [v EXCEPT !.section = sec] IN
    CASE sec = "Dashboard" -> do_refresh_dashboard(u)
      [] sec = "Projects" -> do_refresh_projects(u)
      [] sec = "Secrets" -> do_refresh_secrets(u)
      [] sec \in {"MachineAccounts", "Tokens", "Settings"} -> do_refresh_settings(u)
      [] sec = "Mfa" -> do_refresh_mfa(u)
      [] sec = "ImportExport" -> do_refresh_backup(u)
      [] sec = "Shares" -> do_refresh_shares(u)
      [] sec = "Audit" -> load_audit(u)
      [] OTHER -> u

trigger_replay_tour(v) == activate_section([v EXCEPT !.tour = 1], TourSections[1])
tour_next(v) ==
    IF v.tour >= Len(TourSections) THEN [v EXCEPT !.tour = 0]
    ELSE activate_section([v EXCEPT !.tour = @ + 1], TourSections[v.tour + 1])
tour_back(v) == [v EXCEPT !.tour = IF @ > 1 THEN @ - 1 ELSE @]
tour_close(v) == [v EXCEPT !.tour = 0]

\* The clipboard holds the number of the copy that filled it, 0 when empty.
copy_with_timed_clear(v) ==
    Spawn([v EXCEPT !.copies = @ + 1], "clear_clipboard", None, v.copies + 1)

\* Mutant: a generated password is copied without the timer.
do_copy_generator_Plain(v) == [v EXCEPT !.copies = @ + 1]

do_copy_generator(v) == copy_with_timed_clear(v)

timed_clear(v, w, t) == IF v.copies = t.arg THEN [w EXCEPT !.clip = 0] ELSE w

-----------------------------------------------------------------------------
(* What is on the screen: the handlers that can be clicked, the data drawn.  *)

Pane(buttons, shows) == [buttons |-> buttons, shows |-> shows]
Both(p, q) == Pane(p.buttons \cup q.buttons, p.shows \cup q.shows)
Nothing == Pane({}, {})
If(c, p) == IF c THEN p ELSE Nothing
Overlay(ps) == Pane(UNION {p.buttons : p \in ps}, UNION {p.shows : p \in ps})

render_login_tab(v) == {"switch_mode"}
render_login(v) ==
    Pane(render_login_tab(v)
           \cup {IF v.mfa # None THEN "do_complete_login_mfa"
                 ELSE IF v.mode = "Login" THEN "do_login" ELSE "do_register"}
           \cup (IF v.restore # None THEN {"do_restore"} ELSE {}), {})

render_sidebar == Pane({"activate_section", "do_lock"}, {})

render_vault_content(v) ==
    Pane({"vault_adding", "do_sync", "do_reveal", "request_share", "request_delete", "select_item"},
         {"revealed"})
render_add_item_modal == Pane({"do_add_vault_item", "vault_adding"}, {})
render_delete_confirm_modal == Pane({"do_delete", "dismiss_delete"}, {})
render_update_modal == Pane({"install_pending_update", "postpone_update"}, {})
render_conflict_modal == Pane({"resolve_conflict_head"}, {})
render_share_modal ==
    Pane({"do_share", "do_create_group", "do_add_group_member", "do_share_to_group", "dismiss_share"}, {})
render_delete_secret_modal == Pane({"do_delete_secret", "dismiss_delete_secret"}, {})
render_offboard_modal == Pane({"do_offboard", "dismiss_offboard"}, {})
render_create_project_modal == Pane({"do_create_project", "create_project"}, {})

render_members == Pane({"do_add_member", "do_update_member_permission", "do_remove_member"}, {"members"})
render_secrets(v) ==
    Pane({"do_add_secret"} \cup IF v.data["secrets"] = None THEN {}
                                ELSE {"do_reveal_secret", "request_delete_secret"},
         {"secrets", "project_revealed"})
render_offboard == Pane({"request_offboard"}, {})
render_projects(v) ==
    Both(Pane({"do_refresh_projects", "create_project"}
                \cup IF v.projects = <<>> THEN {} ELSE {"do_select_project"}, {}),
         If(selected_project_uuid(v) # None,
            Overlay({Pane({"switch_tab"}, {}), render_offboard,
                     IF v.tab = "Members" THEN render_members ELSE render_secrets(v)})))

render_generator == Pane({"do_copy_generator"}, {})
render_audit == Pane({"load_audit"}, {"audit_rows"})
render_mfa(v) ==
    Pane({"do_refresh_mfa", "do_enroll_totp", "do_rotate_key"}
           \cup IF v.data["mfa_enrolled"] = None THEN {} ELSE {"do_verify_totp"},
         {"mfa_status", "mfa_enrolled", "mfa_recovery_codes"})
render_dashboard == Pane({}, {"machines", "tokens", "mfa_status", "backup"})
render_secrets_overview(v) ==
    Pane(IF v.data["secrets_rows"] = None THEN {} ELSE {"do_reveal_overview_secret"},
         {"secrets_rows", "secrets_revealed"})
render_machine_accounts(v) ==
    Pane({"do_refresh_settings", "do_create_machine"}
           \cup IF v.data["machines"] = None THEN {} ELSE {"do_toggle_machine", "do_delete_machine"},
         {"machines"})
render_tokens(v) ==
    Pane({"do_refresh_settings", "do_create_token"}
           \cup (IF v.data["issued_token"] = None THEN {} ELSE {"dismiss_issued"})
           \cup (IF v.data["tokens"] = None THEN {} ELSE {"do_revoke_token"}),
         {"tokens", "issued_token"})
render_import_export ==
    Pane({"do_export_backup", "do_restore_backup", "do_export_vault", "do_export_audit"}, {"backup"})
render_shares == Pane({"do_refresh_shares"}, {"share_inbox", "share_groups"})
render_emergency_kit(v) ==
    If(v.data["recovery_mnemonic"] # None,
       Pane({"kit_revealed", "copy_kit"},
            IF "kit_revealed" \in v.on THEN {"recovery_mnemonic"} ELSE {}))
render_settings(v) ==
    Both(Pane({"do_refresh_settings", "do_create_machine", "trigger_replay_onboarding", "trigger_replay_tour"},
              {"machines", "tokens"}), render_emergency_kit(v))

render_section(v) ==
    CASE v.section = "Dashboard" -> render_dashboard
      [] v.section = "Projects" -> render_projects(v)
      [] v.section = "Vault" -> render_vault_content(v)
      [] v.section = "Generator" -> render_generator
      [] v.section = "Secrets" -> render_secrets_overview(v)
      [] v.section = "MachineAccounts" -> render_machine_accounts(v)
      [] v.section = "Tokens" -> render_tokens(v)
      [] v.section = "Mfa" -> render_mfa(v)
      [] v.section = "ImportExport" -> render_import_export
      [] v.section = "Shares" -> render_shares
      [] v.section = "Audit" -> render_audit
      [] v.section = "Settings" -> render_settings(v)

render_app(v) ==
    Overlay({render_sidebar, render_section(v),
             If("vault_adding" \in v.on, render_add_item_modal),
             If(v.pending["delete"] # None, render_delete_confirm_modal),
             If(v.pending["delete_secret"] # None, render_delete_secret_modal),
             If(v.pending["offboard"] # None, render_offboard_modal),
             If("create_project" \in v.on, render_create_project_modal),
             If("update" \in v.on, render_update_modal),
             If(v.conflicts # <<>>, render_conflict_modal),
             If(v.pending["share"] # None, render_share_modal)})

render_onboarding(v) ==
    Pane({"onboarding_next", "onboarding_back"}
           \cup IF OnboardingSteps[v.onboarding] \in Skippable THEN {"onboarding_skip"} ELSE {}, {})
render_tour == Pane({"tour_next", "tour_back", "tour_close"}, {})

render(v) ==
    IF ~is_unlocked(v) THEN render_login(v)
    ELSE IF v.onboarding # 0 THEN render_onboarding(v)
    ELSE Both(render_app(v), If(v.tour # 0, render_tour))
-----------------------------------------------------------------------------
(* Behaviour.                                                               *)

\* The user presses a button that is on the screen; tasks in flight are bounded.
Press(h) == h \in uses /\ h \in render(view).buttons /\ Len(view.tasks) < MaxInFlight
Do(h, vs) == Press(h) /\ view' \in vs /\ UNCHANGED <<world, uses>>
Set(h, v) == Do(h, {v})

Without(i) == [view EXCEPT !.tasks = RemoveAt(@, i)]

\* What the answer to task t leaves of the view, of those that touch it alone.
Outcome(v, t) ==
    CASE t.do = "login" -> logged_in(v, t)
      [] t.do = "login_mfa" -> login_mfa_done(v, t)
      [] t.do = "restore" -> restored(v, world, t)
      [] t.do = "do_reveal" -> revealed(v, t)
      [] t.do = "search" -> searched(v)
      [] t.do = "do_delete" -> deleted(v)
      [] t.do \in {"do_sync", "resolve_conflict"} -> synced(v)
      [] t.do = "do_add_vault_item" -> added(v)
      [] t.do = "check_for_updates" -> check_for_updates(v)
      [] t.do = "do_share" -> shared(v)
      [] t.do = "do_create_group" -> group_created(v, t)
      [] t.do = "do_refresh_projects" -> projects_listed(Idle(v, "projects"))
      [] t.do = "do_refresh_projects_impl" -> projects_listed(v)
      [] t.do = "load_project_detail" -> detail_loaded(v, t)
      [] t.do = "do_create_project" -> project_created(v)
      [] t.do \in {"do_add_member", "do_remove_member", "do_update_member_permission"} -> member_changed(v)
      [] t.do = "reload_members" -> Fetched(v, t, {"members"})
      [] t.do = "do_add_secret" -> secret_added(v)
      [] t.do = "reload_secrets" -> {v, set_secrets(v, Origin(t))}
      [] t.do = "do_reveal_secret" -> secret_revealed(v, t)
      [] t.do = "do_delete_secret" -> secret_deleted(v)
      [] t.do = "do_offboard" -> offboarded(v)
      [] t.do \in {"do_refresh_settings", "do_refresh_settings_to"} -> Fetched(v, t, {"machines", "tokens"})
      [] t.do \in {"do_create_machine", "do_toggle_machine", "do_delete_machine", "do_revoke_token"}
            -> machine_changed(v)
      [] t.do = "do_create_token" -> token_created(v, t)
      [] t.do = "do_refresh_dashboard" -> dashboard_loaded(v, t)
      [] t.do = "do_refresh_secrets" -> secrets_listed(v, t)
      [] t.do = "do_reveal_overview_secret" -> overview_revealed(v, t)
      [] t.do = "do_refresh_mfa" -> Fetched(v, t, {"mfa_status"})
      [] t.do = "do_enroll_totp" -> Fetched(v, t, {"mfa_enrolled"})
      [] t.do = "do_verify_totp" -> totp_verified(v, t)
      [] t.do = "do_refresh_shares" -> shares_loaded(v, t)
      [] t.do = "load_audit" -> audit_loaded(v, t)
      [] t.do = "do_refresh_backup" -> Fetched(v, t, {"backup"})
      [] t.do = "do_export_backup" -> backup_exported(v)
      [] t.do \in {"do_export_vault", "do_export_audit", "do_restore_backup"} -> written(v)
      [] OTHER -> {v}

\* Tasks are answered in any order, whatever the view has become.
Reply(slots) ==
    \E i \in slots \cap DOMAIN view.tasks :
        LET t == view.tasks[i]  v == Without(i) IN
        /\ \E after \in CASE t.do = "register" -> registered(v, world, t)
                            [] t.do = "apply" -> apply_login(v, world, t)
                            [] t.do = "do_rotate_key" -> rotated(v, world, t)
                            [] t.do = "clear_clipboard" -> {<<v, timed_clear(v, world, t)>>}
                            [] OTHER -> Outcome(v, t) \X {world} :
              view' = after[1] /\ world' = after[2]
        /\ UNCHANGED uses

Dismiss(h, m) == Set(h, [view EXCEPT !.pending[m] = None])
Toggle(h) == Set(h, [view EXCEPT !.on = IF h \in @ THEN @ \ {h} ELSE @ \cup {h}])

SignIn ==
    \/ Set("switch_mode", [view EXCEPT !.mode = IF @ = "Login" THEN "Register" ELSE "Login", !.form = "Idle"])
    \/ \E a \in Accounts : Do("do_register", do_register(view, a))
    \/ \E a \in Accounts : Do("do_login", do_login(view, world, a))
    \/ \E a \in Accounts : Do("do_complete_login_mfa", do_complete_login_mfa(view, world, a))
    \/ Do("do_restore", do_restore(view, world))

Lock == Press("do_lock") /\ view' = do_lock(view) /\ world' = clear_session(world) /\ UNCHANGED uses

\* Mutant: the ticker waits for the onboarding overlay to go.
AutoLock_Overlay ==
    /\ view.idle /\ is_unlocked(view) /\ view.onboarding = 0
    /\ view' = do_lock(view) /\ world' = clear_session(world) /\ UNCHANGED uses

\* The five-second ticker, once the idle time has passed.
AutoLock ==
    /\ view.idle /\ is_unlocked(view)
    /\ view' = do_lock(view) /\ world' = clear_session(world) /\ UNCHANGED uses

\* Time passes without a key press; only a key press resets the clock.
GoIdle == "idle" \in uses /\ ~view.idle /\ view' = [view EXCEPT !.idle = TRUE] /\ UNCHANGED <<world, uses>>
KeyPress == view.idle /\ is_unlocked(view) /\ view' = [view EXCEPT !.idle = FALSE] /\ UNCHANGED <<world, uses>>

\* Escape closes every modal it knows of, the share modal not included.
Escape ==
    /\ is_unlocked(view) /\ "escape" \in uses
    /\ view' = [view EXCEPT !.on = @ \ {"vault_adding", "create_project"}, !.idle = FALSE,
                            !.pending = [m \in Modals |-> IF m = "share" THEN @[m] ELSE None]]
    /\ UNCHANGED <<world, uses>>

Vault ==
    \/ \E i \in 1..2 : Set("select_item", select_item(view, i))
    \/ Set("do_reveal", do_reveal(view))
    \/ Set("request_delete", request_delete(view)) \/ Set("do_delete", do_delete(view))
    \/ Dismiss("dismiss_delete", "delete")
    \/ Set("do_sync", do_sync(view))
    \/ Toggle("vault_adding") \/ Set("do_add_vault_item", do_add_vault_item(view))
    \/ view.keyGen < MaxGen /\ Set("do_rotate_key", do_rotate_key(view))
    \/ Set("install_pending_update", install_pending_update(view)) \/ Set("postpone_update", postpone_update(view))

\* Events reach the view from any client it ever subscribed to, locked or not.
Events ==
    /\ "events" \in uses /\ Len(view.tasks) < MaxInFlight /\ UNCHANGED <<world, uses>>
    /\ \E a \in view.subscribed :
          \/ view' = subscribe_quarantine_events(view, a)
          \/ \E x \in Items : view' = subscribe_conflict_events(view, a, x)

Sharing ==
    \/ Set("resolve_conflict_head", resolve_conflict_head(view))
    \/ Set("request_share", request_share(view)) \/ Dismiss("dismiss_share", "share")
    \/ Set("do_share", do_share(view))
    \/ Set("do_create_group", do_create_group(view))
    \/ Set("do_add_group_member", do_add_group_member(view))
    \/ Set("do_share_to_group", do_share_to_group(view))

ProjectPages ==
    \/ \E i \in 1..2 : Set("do_select_project", do_select_project(view, i))
    \/ Set("do_refresh_projects", do_refresh_projects(view))
    \/ Toggle("create_project")
    \/ Set("do_create_project", do_create_project([view EXCEPT !.on = @ \ {"create_project"}]))
    \/ Set("switch_tab", [view EXCEPT !.tab = IF @ = "Members" THEN "Secrets" ELSE "Members"])

ProjectRows ==
    \/ Set("do_add_member", do_add_member(view)) \/ Set("do_remove_member", do_remove_member(view))
    \/ Set("do_update_member_permission", do_update_member_permission(view))
    \/ Set("do_add_secret", do_add_secret(view))
    \/ Set("do_reveal_secret", do_reveal_secret(view))
    \/ Set("request_delete_secret", request_delete_secret(view)) \/ Dismiss("dismiss_delete_secret", "delete_secret")
    \/ Set("do_delete_secret", do_delete_secret(view))
    \/ \E a \in Accounts : Set("request_offboard", request_offboard(view, a))
    \/ Dismiss("dismiss_offboard", "offboard")
    \/ Set("do_offboard", do_offboard(view))

Administration ==
    \/ Set("do_refresh_settings", do_refresh_settings(view))
    \/ Set("do_create_machine", do_create_machine(view)) \/ Set("do_toggle_machine", do_toggle_machine(view))
    \/ Set("do_delete_machine", do_delete_machine(view)) \/ Set("do_revoke_token", do_revoke_token(view))
    \/ Set("do_create_token", do_create_token(view))
    \/ Set("dismiss_issued", Clear(view, {"issued_token"}))
    \/ Set("do_reveal_overview_secret", do_reveal_overview_secret(view))
    \/ Set("do_refresh_mfa", do_refresh_mfa(view))
    \/ Set("do_enroll_totp", do_enroll_totp(view))
    \/ Set("do_verify_totp", do_verify_totp(view))

\* Drawing the audit section reloads it while it has neither rows nor a text.
RenderAudit ==
    /\ is_unlocked(view) /\ view.onboarding = 0 /\ view.section = "Audit"
    /\ view.data["audit_rows"] = None /\ "audit" \notin view.busy /\ "audit_text" \notin view.on
    /\ Len(view.tasks) < MaxInFlight
    /\ view' = load_audit(view) /\ UNCHANGED <<world, uses>>

Reports ==
    \/ Set("do_refresh_shares", do_refresh_shares(view))
    \/ Set("load_audit", load_audit(view)) \/ RenderAudit
    \/ Set("do_export_backup", do_export_backup(view))
    \/ Set("do_export_vault", do_export_vault(view)) \/ Set("do_export_audit", do_export_audit(view))
    \/ Set("do_restore_backup", do_restore_backup(view))

Guides ==
    \/ \E sec \in Sections : sec \in uses /\ Set("activate_section", activate_section(view, sec))
    \/ /\ Press("onboarding_next") /\ view' = onboarding_next(view) /\ world' = mark_seen(view, world)
       /\ UNCHANGED uses
    \/ Set("onboarding_back", onboarding_back(view)) \/ Set("onboarding_skip", onboarding_skip(view))
    \/ Set("trigger_replay_onboarding", trigger_replay_onboarding(view))
    \/ Set("trigger_replay_tour", trigger_replay_tour(view)) \/ Set("tour_next", tour_next(view))
    \/ Set("tour_back", tour_back(view)) \/ Set("tour_close", tour_close(view))
    \/ Toggle("kit_revealed")

Copy ==
    /\ view.copies < MaxCopies
    /\ \/ Press("do_copy_generator") /\ view' = do_copy_generator(view)
       \/ Press("copy_kit") /\ view' = copy_with_timed_clear(view)
    /\ world' = [world EXCEPT !.clip = view'.copies] /\ UNCHANGED uses

\* The process ends and is started again: tasks, keys and view are gone.
Relaunch == "relaunch" \in uses /\ view' = new(world) /\ UNCHANGED <<world, uses>>

Init ==
    /\ uses \in Scenes
    /\ \E seen \in BOOLEAN, c \in Accounts \cup {None} :
          world = [config |-> c, session |-> None, seen |-> seen, clip |-> 0, gen |-> [a \in Accounts |-> 1]]
    /\ view = new(world)

Next ==
    \/ SignIn \/ Lock \/ AutoLock \/ GoIdle \/ KeyPress \/ Escape \/ Vault \/ Events \/ Sharing
    \/ ProjectPages \/ ProjectRows \/ Administration \/ Reports \/ Guides \/ Copy \/ Relaunch
    \/ Reply(DOMAIN view.tasks)

Spec == Init /\ [][Next]_vars

\* The oldest task in flight, and so every task, is answered in the end: a
\* request by its server or its time-out, a timer by the clock.  The ticker
\* looks at the vault every five seconds.
FairSpec == Spec /\ WF_vars(AutoLock) /\ WF_vars(Reply({1}))

-----------------------------------------------------------------------------
(* Properties.                                                              *)

TypeOK ==
    /\ {view.client, view.dek, view.token, view.mfa, world.config} \subseteq Accounts \cup {None}
    /\ view.section \in Sections /\ uses \in Scenes
    /\ view.onboarding \in 0..Len(OnboardingSteps) /\ view.tour \in 0..Len(TourSections)
    /\ view.item \in 0..Len(view.items) /\ view.project \in 0..Len(view.projects)
    /\ view.keyGen \in 1..MaxGen /\ world.clip \in 0..MaxCopies
    /\ Len(view.tasks) <= MaxInFlight

\* However logins, restores and locks overlap, the view never holds a key or a
\* session token without the client they belong to: a lock leaves neither.
KeysTogether == view.client = view.dek /\ view.dek = view.token

\* Nothing copied stays on the clipboard while the application runs.
CopyIsCleared == \A e \in 1..MaxCopies : []<>~(world.clip = e /\ view.copies = e)

\* Every "loading" or "busy" mark a handler sets is taken away again, on the
\* error paths too, and whether or not the vault was locked meanwhile.
BusyEnds ==
    /\ \A f \in {"projects", "dashboard", "secrets", "shares", "audit", "import"} : []<>(f \notin view.busy)
    /\ []<>(view.form # "Submitting")

\* A vault that stays idle is locked by the ticker.
AutoLocks == []<>~(view.idle /\ is_unlocked(view))

-----------------------------------------------------------------------------
(* What comments and tests of the code say and the code does not keep; TLC   *)
(* refutes each (DesktopAppRefuted.cfg).                                     *)

\* "Lock the vault: zeroize the in-memory SVK/DEK and every live secret
\* handle": once locked and quiet, nothing holds an open client.  The view's
\* VaultManagerState never gets the client, and its event loops keep it.
LockEndsClients == ~is_unlocked(view) /\ view.tasks = <<>> => view.subscribed = {}

\* What the screen draws was fetched or opened for the account signed in.
OwnDataOnly ==
    is_unlocked(view) =>
        \A f \in render(view).shows : view.data[f] # None => view.data[f].who = view.client

\* The members and secrets drawn are those of the project selected.
DetailOfSelected ==
    \A f \in {"members", "secrets"} : view.data[f] # None => view.data[f].of = selected_project_uuid(view)

\* The plaintext drawn is that of the item selected, "Plaintext for the
\* selected item".
RevealedIsSelected == view.data["revealed"] # None => view.data["revealed"].of = selected_overview(view)

\* Recovery codes are "shown once [...] then cleared on next render".
CodesShownOnce == view.section # "Mfa" => view.data["mfa_recovery_codes"] = None

\* An item is sealed under the key generation the server expects.
SealedUnderCurrent ==
    [][\A i \in DOMAIN view'.tasks : i > Len(view.tasks) /\ view'.tasks[i].do = "do_add_vault_item"
         => view'.tasks[i].gen = world.gen[view'.tasks[i].who]]_vars

\* The session kept for the next launch carries the account's current key.
SessionKeyCurrent == world.session # None => world.session.gen = world.gen[world.session.who]

\* The audit section comes to rest while nobody presses a button.
AuditSettles == <>[](view.section = "Audit" /\ is_unlocked(view)) => <>[]("audit" \notin view.busy)
=============================================================================
