--------------------------- MODULE Administration ---------------------------
(***************************************************************************)
(* Who may do what: the permissions of accounts and the requests that      *)
(* change them.  api/routers/administration.py, services/authorization.py, *)
(* services/bootstrap_admin.py and the account part of                     *)
(* api/routers/users.py.                                                   *)
(*                                                                         *)
(* A request reads and decides in one step and writes in another; between  *)
(* them others may commit, as nothing is locked.  Accounts here hold no    *)
(* seat of an open record (EvaluationWorkflow models that refusal) and     *)
(* sessions are those of SignIn.                                           *)
(***************************************************************************)
EXTENDS FiniteSets

CONSTANTS UserAccounts, NoGrantor,
          InstalledAccounts,  \* those that exist at the start
          BootNames,    \* names the start of a process may give a new administrator
          AdminRequests, ProcessStarts,  \* each served once
          Default,      \* DEFAULT_HR_CAPABILITIES
          Capability    \* the permissions told apart

AdministrationAssumption ==
  /\ NoGrantor \notin UserAccounts
  /\ InstalledAccounts \subseteq UserAccounts /\ BootNames \subseteq UserAccounts
  /\ {"manage_users", "manage_capabilities"} \cup Default \subseteq Capability
  /\ "manage_capabilities" \notin Default /\ AdminRequests \cap ProcessStarts = {}

VARIABLES accounts,   \* the rows of users: exists, role, active
          grants,    \* the rows of user_capabilities: user, capability, granted_by
          acted,     \* the accounts that audit_logs names as actor
          deciding   \* what each request or start has decided

adminVars == <<accounts, grants, acted, deciding>>

AccountRoles == {"support", "hr", "employee"}
AccountExists(u) == accounts[u].exists
Held(u) == {g.cap : g \in {x \in grants : x.user = u}}
May(u, cap) == AccountExists(u) /\ accounts[u].active /\ cap \in Held(u)
Row(u, cap, by) == [user |-> u, cap |-> cap, by |-> by]

Waiting(r) == deciding[r].what = "none"
Decide(r, rec) == deciding' = [deciding EXCEPT ![r] = rec]
Decided(r) == deciding' = [deciding EXCEPT ![r] = [what |-> "done"]]

\* has_active_admin: an active account that may hand out permissions.
HasGrantor == \E u \in UserAccounts : May(u, "manage_capabilities")

AdminInit ==
  /\ accounts = [u \in UserAccounts |->
                   [exists |-> u \in InstalledAccounts, role |-> "support", active |-> TRUE]]
  /\ grants = {Row(u, c, NoGrantor) : u \in InstalledAccounts, c \in Capability}
  /\ acted = {}
  /\ deciding = [r \in AdminRequests \cup ProcessStarts |-> [what |-> "none"]]

(***************************************************************************)
(* Replacing the permissions of an account.                                *)
(***************************************************************************)
\* Fault: the guard on oneself is missing.
OthersOnly_Anyone(a, u, added) == TRUE

\* Nobody adds a permission to their own account.
OthersOnly(a, u, added) == a = u => added = {}

\* The last active holder keeps the permission to hand out permissions.
NotTheLastGrantor(u, dropped) ==
  "manage_capabilities" \in dropped => \E v \in UserAccounts \ {u} : May(v, "manage_capabilities")

DecideGrant(r, a, u, desired) ==
  /\ Waiting(r) /\ May(a, "manage_capabilities")
  /\ AccountExists(u) /\ accounts[u].role # "employee"
  /\ OthersOnly(a, u, desired \ Held(u)) /\ NotTheLastGrantor(u, Held(u) \ desired)
  /\ Decide(r, [what |-> "grant", by |-> a, of |-> u,
                add |-> desired \ Held(u), drop |-> Held(u) \ desired])
  /\ UNCHANGED <<accounts, grants, acted>>

\* A row that is there already, or an account that is gone, rolls everything back.
WriteGrant(r) ==
  LET q == deciding[r] IN
  /\ q.what = "grant"
  /\ IF AccountExists(q.of) /\ AccountExists(q.by) /\ q.add \cap Held(q.of) = {}
     THEN /\ grants' = {g \in grants : ~(g.user = q.of /\ g.cap \in q.drop)}
                       \cup {Row(q.of, c, q.by) : c \in q.add}
          /\ acted' = acted \cup {q.by}
     ELSE UNCHANGED <<grants, acted>>
  /\ Decided(r) /\ UNCHANGED accounts

(***************************************************************************)
(* Accounts.                                                               *)
(***************************************************************************)
\* apply_default_hr_capabilities: whatever was held is replaced.
WithDefaults(u) == {g \in grants : g.user # u} \cup {Row(u, c, NoGrantor) : c \in Default}

CreateAccount(r, a, u, role) ==
  /\ Waiting(r) /\ May(a, "manage_users") /\ ~AccountExists(u)
  /\ accounts' = [accounts EXCEPT ![u] = [exists |-> TRUE, role |-> role, active |-> TRUE]]
  /\ grants' = IF role = "hr" THEN WithDefaults(u) ELSE grants
  /\ acted' = acted \cup {a}
  /\ Decided(r)

\* Nobody disables their own account or gives it another role than hr.
DecideUpdate(r, a, u, role, active) ==
  /\ Waiting(r) /\ May(a, "manage_users") /\ AccountExists(u)
  /\ a = u => active /\ role \in {accounts[u].role, "hr"}
  /\ <<role, active>> # <<accounts[u].role, accounts[u].active>>
  /\ Decide(r, [what |-> "update", by |-> a, of |-> u, old |-> accounts[u],
                role |-> role, active |-> active])
  /\ UNCHANGED <<accounts, grants, acted>>

\* Only the columns that differ from what was read are written.
WriteUpdate(r) ==
  LET q == deciding[r]
      changed(new, old, present) == IF new # old THEN new ELSE present
  IN /\ q.what = "update"
     /\ IF AccountExists(q.of) /\ AccountExists(q.by)
        THEN /\ accounts' = [accounts EXCEPT
                  ![q.of].role   = changed(q.role, q.old.role, @),
                  ![q.of].active = changed(q.active, q.old.active, @)]
             /\ grants' = IF q.old.role # "hr" /\ q.role = "hr" THEN WithDefaults(q.of) ELSE grants
             /\ acted' = acted \cup {q.by}
        ELSE UNCHANGED <<accounts, grants, acted>>
     /\ Decided(r)

DecideDelete(r, a, u) ==
  /\ Waiting(r) /\ May(a, "manage_users") /\ AccountExists(u) /\ u # a /\ u \notin acted
  /\ Decide(r, [what |-> "delete", by |-> a, of |-> u])
  /\ UNCHANGED <<accounts, grants, acted>>

\* The database refuses to remove an account that audit_logs names.
Referenced(u) == u \in acted

\* Its permissions go with it, and those it gave to others.
WriteDelete(r) ==
  LET q == deciding[r] IN
  /\ q.what = "delete"
  /\ IF AccountExists(q.of) /\ AccountExists(q.by) /\ ~Referenced(q.of)
     THEN /\ accounts' = [accounts EXCEPT ![q.of].exists = FALSE]
          /\ grants' = {g \in grants : q.of \notin {g.user, g.by}}
          /\ acted' = acted \cup {q.by}
     ELSE UNCHANGED <<accounts, grants, acted>>
  /\ Decided(r)

(***************************************************************************)
(* A process starts: without a grantor it makes an account of its own.     *)
(***************************************************************************)
LookForGrantor(p) ==
  /\ Waiting(p)
  /\ IF HasGrantor THEN Decided(p) ELSE Decide(p, [what |-> "boot"])
  /\ UNCHANGED <<accounts, grants, acted>>

\* _unique_username passes over the names that are taken.
BootAccount(p) ==
  /\ deciding[p].what = "boot"
  /\ \E u \in BootNames :
       /\ ~AccountExists(u)
       /\ accounts' = [accounts EXCEPT ![u] = [exists |-> TRUE, role |-> "support", active |-> TRUE]]
       /\ grants' = grants \cup {Row(u, c, NoGrantor) : c \in Capability}
  /\ Decided(p) /\ UNCHANGED acted

Handle(r) ==
  \/ \E a, u \in UserAccounts :
       \/ \E desired \in SUBSET Capability : DecideGrant(r, a, u, desired)
       \/ \E role \in AccountRoles : CreateAccount(r, a, u, role)
       \/ \E role \in AccountRoles, active \in BOOLEAN : DecideUpdate(r, a, u, role, active)
       \/ DecideDelete(r, a, u)
  \/ WriteGrant(r) \/ WriteUpdate(r) \/ WriteDelete(r)

AdminNext ==
  \/ \E r \in AdminRequests : Handle(r)
  \/ \E p \in ProcessStarts : LookForGrantor(p) \/ BootAccount(p)

AdminSpec == AdminInit /\ [][AdminNext]_adminVars

(***************************************************************************)
(* Properties.                                                             *)
(***************************************************************************)
\* Whatever permission an account holds beyond the initial ones and those of
\* its role, another account gave it, through every mix of grants, changes of
\* role and deletions (set_capabilities, "nobody can give themselves a
\* permission they do not have").
RightsComeFromOthers == \A g \in grants : g.by # g.user

=============================================================================
