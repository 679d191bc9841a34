------------------------------ MODULE AdminGuards ------------------------------
(***************************************************************************)
(* The administrator's endpoints that could lock everyone out, and the      *)
(* guards that are there to prevent it.                                    *)
(*                                                                         *)
(* A handler of routers/admin.py reads the table, decides, awaits and       *)
(* commits: Read* evaluates its guards and keeps what it will write in req, *)
(* Commit* writes it.  Between the two, other handlers commit.  A table     *)
(* maps a username to the three columns the guards look at; the rest of the *)
(* row, sessions included, is modelled in Sessions.  A name deleted and     *)
(* created again is taken for the same row, as when SQLite gives it its id. *)
(***************************************************************************)
EXTENDS Naturals, FiniteSets

CONSTANTS
    Users,    \* usernames
    BuiltIn,  \* settings.admin_username, the account startup creates
    Workers,  \* request handlers that may run at the same time
    Pinned    \* the settings the environment pins: a function from some of the
              \* fields of Settings to BOOLEAN

Settings == [enabled : BOOLEAN, localOff : BOOLEAN]
Flags == {"admin", "active"}

ASSUME AdminGuardsAssumption ==
    /\ BuiltIn \in Users
    /\ DOMAIN Pinned \subseteq {"enabled", "localOff"}
    /\ \A f \in DOMAIN Pinned : Pinned[f] \in BOOLEAN

VARIABLES
    users,     \* the user table: username -> row
    stored,    \* the oidcsettings row: enabled and local_login_disabled
    req,       \* what each handler has decided to write
    overtaken  \* history: a handler committed a decision another had overtaken

vars == <<users, stored, req, overtaken>>

Row == [admin : BOOLEAN, active : BOOLEAN, sso : BOOLEAN]

Idle == [op |-> "idle"]

\* data: the columns the payload changes.  fresh is history: no other handler
\* has changed the table or the settings since the guards were evaluated.
Update == [op : {"update"}, user : Users, fresh : BOOLEAN,
           data : UNION {[D -> BOOLEAN] : D \in SUBSET Flags}]
Delete == [op : {"delete"}, user : Users, fresh : BOOLEAN]
Put == [op : {"settings"}, payload : Settings, fresh : BOOLEAN]
Request == {Idle} \cup Update \cup Delete \cup Put

TypeOK ==
    /\ DOMAIN users \subseteq Users
    /\ users \in [DOMAIN users -> Row]
    /\ stored \in Settings
    /\ req \in [Workers -> Request]
    /\ overtaken \in BOOLEAN

-----------------------------------------------------------------------------
(* What the guards count. *)

Admins == {u \in DOMAIN users : users[u].admin}

\* count_active_oidc_admins
ActiveOidcAdmins == {u \in Admins : users[u].active /\ users[u].sso}

\* get_current_admin: the caller is an administrator whose account is active.
Callers == {u \in Admins : users[u].active}

\* get_oidc_settings: the environment applied on top of the stored row.
Effective ==
    [f \in DOMAIN stored |-> IF f \in DOMAIN Pinned THEN Pinned[f] ELSE stored[f]]

OidcOnly == Effective.enabled /\ Effective.localOff

-----------------------------------------------------------------------------
(* The guards. *)

\* Mutant: off by one.
NoSuperAdmin(u) == users[u].admin /\ Cardinality(Admins) < 1

\* update_user: "Cannot demote the last super admin"
LastSuperAdmin(u) == users[u].admin /\ Cardinality(Admins) <= 1

\* update_user and delete_user: removing the last one who can still sign in.
LastOidcAdmin(u) ==
    /\ users[u].sso /\ users[u].admin /\ users[u].active
    /\ OidcOnly
    /\ Cardinality(ActiveOidcAdmins) <= 1

\* The payload takes something away from the account.
Removes(data) == \E f \in DOMAIN data : ~data[f]

-----------------------------------------------------------------------------
(* update_user *)

ReadUpdate(w, u, data) ==
    /\ Callers # {}
    /\ req[w] = Idle
    /\ Removes(data) => ~LastSuperAdmin(u) /\ ~LastOidcAdmin(u)
    /\ LET changed == {f \in DOMAIN data : data[f] # users[u][f]}
       IN  /\ changed # {}
           /\ req' = [req EXCEPT ![w] =
                        [op |-> "update", user |-> u, fresh |-> TRUE,
                         data |-> [f \in changed |-> data[f]]]]
    /\ UNCHANGED <<users, stored, overtaken>>

\* The handler answers: what the others decided was decided on older data.
Overtake(w) ==
    /\ overtaken' = (overtaken \/ ~req[w].fresh)
    /\ req' = [v \in Workers |->
                 IF v = w \/ req[v] = Idle THEN Idle
                 ELSE [req[v] EXCEPT !.fresh = FALSE]]

\* The UPDATE writes the columns the payload changed, nothing else; it matches
\* nothing when the row is gone, and the answer is then a 500.
CommitUpdate(w) ==
    /\ req[w].op = "update"
    /\ LET u    == req[w].user
           data == req[w].data
       IN  users' = IF u \notin DOMAIN users THEN users
                    ELSE [users EXCEPT ![u] =
                            [admin  |-> IF "admin" \in DOMAIN data
                                          THEN data["admin"] ELSE @.admin,
                             active |-> IF "active" \in DOMAIN data
                                          THEN data["active"] ELSE @.active,
                             sso    |-> @.sso]]
    /\ Overtake(w)
    /\ UNCHANGED stored

-----------------------------------------------------------------------------
(* delete_user: not one's own account, and no guard on the last super admin,
   since the caller is one. *)

\* Mutant: deletion forgets the OIDC guard.
ReadDeleteUnguarded(w, u) ==
    /\ Callers \ {u} # {}
    /\ req[w] = Idle
    /\ req' = [req EXCEPT ![w] = [op |-> "delete", user |-> u, fresh |-> TRUE]]
    /\ UNCHANGED <<users, stored, overtaken>>

ReadDelete(w, u) ==
    /\ Callers \ {u} # {}
    /\ req[w] = Idle
    /\ ~LastOidcAdmin(u)
    /\ req' = [req EXCEPT ![w] = [op |-> "delete", user |-> u, fresh |-> TRUE]]
    /\ UNCHANGED <<users, stored, overtaken>>

CommitDelete(w) ==
    /\ req[w].op = "delete"
    /\ users' = [u \in DOMAIN users \ {req[w].user} |-> users[u]]
    /\ Overtake(w)
    /\ UNCHANGED stored

-----------------------------------------------------------------------------
(* update_oidc_settings *)

\* "Cannot disable local login without an active OIDC admin": the guard looks at
\* the payload, not at what the environment makes of it.
ReadPut(w, payload) ==
    /\ Callers # {}
    /\ req[w] = Idle
    /\ payload.enabled /\ payload.localOff => Cardinality(ActiveOidcAdmins) >= 1
    /\ req' = [req EXCEPT ![w] =
                 [op |-> "settings", payload |-> payload, fresh |-> TRUE]]
    /\ UNCHANGED <<users, stored, overtaken>>

\* upsert_oidc_settings leaves the fields the environment pins alone.
CommitPut(w) ==
    /\ req[w].op = "settings"
    /\ stored' = [f \in DOMAIN stored |->
                    IF f \in DOMAIN Pinned THEN stored[f] ELSE req[w].payload[f]]
    /\ Overtake(w)
    /\ UNCHANGED users

-----------------------------------------------------------------------------
(* Accounts that appear. *)

Adding(u, row) == [v \in DOMAIN users \cup {u} |-> IF v = u THEN row ELSE users[v]]

\* Mutant: the column is_oidc is not set.
CreateUserWithoutSso(u, admin) ==
    /\ Callers # {}
    /\ u \notin DOMAIN users
    /\ users' = Adding(u, [admin |-> admin, active |-> TRUE])
    /\ UNCHANGED <<stored, req, overtaken>>

\* create_user, by an administrator; a name in use is refused.
CreateUser(u, admin) ==
    /\ Callers # {}
    /\ u \notin DOMAIN users
    /\ users' = Adding(u, [admin |-> admin, active |-> TRUE, sso |-> FALSE])
    /\ UNCHANGED <<stored, req, overtaken>>

\* get_or_create_oidc_user, the first sign-in of an identity.
SignInSso(u) ==
    /\ Effective.enabled
    /\ u \notin DOMAIN users
    /\ users' = Adding(u, [admin |-> FALSE, active |-> TRUE, sso |-> TRUE])
    /\ UNCHANGED <<stored, req, overtaken>>

\* A restart loses the handlers; _initialize creates the built-in account or
\* makes it an administrator again, and leaves is_active alone.
Restart ==
    /\ users' = IF BuiltIn \in DOMAIN users
                  THEN [users EXCEPT ![BuiltIn].admin = TRUE]
                  ELSE Adding(BuiltIn, [admin |-> TRUE, active |-> TRUE, sso |-> FALSE])
    /\ req' = [w \in Workers |-> Idle]
    /\ UNCHANGED <<stored, overtaken>>

-----------------------------------------------------------------------------

\* After the first start: no row of settings reads as the model's defaults.
Init ==
    /\ users = [u \in {BuiltIn} |-> [admin |-> TRUE, active |-> TRUE, sso |-> FALSE]]
    /\ stored = [enabled |-> FALSE, localOff |-> FALSE]
    /\ req = [w \in Workers |-> Idle]
    /\ overtaken = FALSE

Payloads == UNION {[D -> BOOLEAN] : D \in SUBSET Flags}

ReadStep(w) ==
    \/ \E u \in DOMAIN users, data \in Payloads : ReadUpdate(w, u, data)
    \/ \E u \in DOMAIN users : ReadDelete(w, u)
    \/ \E payload \in Settings : ReadPut(w, payload)

CommitStep(w) ==
    \/ CommitUpdate(w)
    \/ CommitDelete(w)
    \/ CommitPut(w)

Next ==
    \/ \E w \in Workers : ReadStep(w)
    \/ \E w \in Workers : CommitStep(w)
    \/ \E u \in Users, admin \in BOOLEAN : CreateUser(u, admin)
    \/ \E u \in Users : SignInSso(u)
    \/ Restart

Spec == Init /\ [][Next]_vars

-----------------------------------------------------------------------------
(* Properties. *)

\* Whatever administrators do to each other's accounts and to their own, one
\* super admin remains, as long as no handler committed a decision that another
\* had overtaken (admin.py update_user and delete_user).
SuperAdminRemains == ~overtaken => Admins # {}

\* While the stored settings allow only SSO to sign in, an administrator who can
\* do so remains: the guard of the settings and those of the accounts fit
\* together (admin.py update_user, delete_user and update_oidc_settings).  The
\* environment must not pin the two settings, see OidcOnly.
OidcOnlyKeepsItsAdmin ==
    ~overtaken /\ DOMAIN Pinned = {} /\ OidcOnly => ActiveOidcAdmins # {}

\* OIDC_LOCAL_LOGIN_DISABLED is only honoured while an active OIDC administrator
\* exists (docs/configuration/oidc-mail.md); login (auth.py) refuses passwords
\* whenever Effective.localOff.
LocalLoginOffOnlyWithOidcAdmin ==
    ~overtaken /\ Effective.localOff => ActiveOidcAdmins # {}

===============================================================================
