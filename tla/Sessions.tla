------------------------------- MODULE Sessions -------------------------------
(***************************************************************************)
(* Browser sessions and personal access tokens of the backend: how they    *)
(* are issued, accepted and revoked.                                       *)
(*                                                                         *)
(* The session cookie is a signed JWT nobody stores: it carries the id,    *)
(* the name and the token_version of its user, and it is accepted as long  *)
(* as the user's row still says the same.  A handler reads the row, awaits, *)
(* and commits the columns it changed, so each is two actions here: Read*, *)
(* which records the row in req, and Commit*, which uses it.  Several      *)
(* handlers (Workers) may be between the two at once, in one process or in *)
(* several.                                                                *)
(*                                                                         *)
(* Usernames and passwords are abstract: a password is the number of times *)
(* the row's password was set, and SSO users (is_oidc) have NoPassword.     *)
(* Who may call the administrator's endpoints is modelled in AdminGuards.  *)
(***************************************************************************)
EXTENDS Naturals, FiniteSets, FiniteSetsExt

CONSTANTS
    Names,        \* usernames
    Workers,      \* request handlers that may run at the same time
    IdReuse,      \* TRUE: SQLite (max rowid + 1, foreign keys not enforced)
                  \* FALSE: MySQL/MariaDB (AUTO_INCREMENT, foreign keys enforced)
    MaxAccounts,  \* bound: accounts ever created
    MaxVersion,   \* bound: token_version of a row
    MaxCookies    \* bound: session JWTs at a time

ASSUME SessionsAssumption ==
    /\ IdReuse \in BOOLEAN
    /\ MaxAccounts \in Nat \ {0}
    /\ MaxVersion \in Nat
    /\ MaxCookies \in Nat

VARIABLES
    users,     \* the user table: id -> row
    created,   \* accounts ever created; MySQL's AUTO_INCREMENT counter
    cookies,   \* session JWTs issued and not expired
    pats,      \* rows of personalaccesstoken, each with its owner
    req,       \* what each handler has read and not yet committed
    ended,     \* history: cookies that were accepted and then refused
    lost       \* history: a handler overwrote a token_version it had not read

vars == <<users, created, cookies, pats, req, ended, lost>>

NoPassword == 0
Ids == 1 .. MaxAccounts

\* born numbers the accounts in order of creation: it tells an account from a
\* later one that got the same id.  The program has no such column.
Row == [name : Names, active : BOOLEAN, ver : Nat, pw : Nat, born : Ids]

\* uid, sub and ver are the JWT's claims; pw and born are history: the password
\* and the account the session was opened with.
Cookie == [uid : Ids, sub : Names, ver : Nat, pw : Nat, born : Ids]

Token == [uid : Ids, born : Ids]

Idle == [op |-> "idle"]
Ops == {"login", "logout", "change", "reset", "deactivate", "reactivate",
        "delete", "token"}
Request == {Idle} \cup [op : Ops, uid : Ids, row : Row]

TypeOK ==
    /\ DOMAIN users \subseteq Ids
    /\ users \in [DOMAIN users -> Row]
    /\ created \in 0 .. MaxAccounts
    /\ cookies \subseteq Cookie
    /\ pats \subseteq Token
    /\ req \in [Workers -> Request]
    /\ ended \subseteq cookies
    /\ lost \in BOOLEAN

-----------------------------------------------------------------------------
(* What the two credentials resolve to. *)

\* user_from_session_cookie: the row must exist, be active and still carry the
\* name and the version of the claims.
Accepts(c, table) ==
    /\ c.uid \in DOMAIN table
    /\ table[c.uid].active
    /\ table[c.uid].name = c.sub
    /\ table[c.uid].ver = c.ver

\* _user_from_pat: the token's owner exists and is active.
AcceptsToken(t) == t.uid \in DOMAIN users /\ users[t.uid].active

\* get_current_user: the session cookie first, then a token.
Authenticated(id) ==
    \/ \E c \in cookies : c.uid = id /\ Accepts(c, users)
    \/ \E t \in pats : t.uid = id /\ AcceptsToken(t)

\* Mutant: the token does not carry the version.
SessionWithoutVersion(id, row) ==
    [uid |-> id, sub |-> row.name, pw |-> row.pw, born |-> row.born]

\* create_session_token
SessionOf(id, row) ==
    [uid |-> id, sub |-> row.name, ver |-> row.ver, pw |-> row.pw, born |-> row.born]

\* set_auth_cookie; MaxCookies bounds the sessions open at a time.
Issue(new) ==
    /\ Cardinality(cookies \cup new) <= MaxCookies
    /\ cookies' = cookies \cup new

\* revoke_sessions
Revoked(row) == [row EXCEPT !.ver = @ + 1]

-----------------------------------------------------------------------------
(* The two halves of a handler. *)

\* The handler has loaded row id and awaits.
Read(w, op, id) ==
    /\ req[w] = Idle
    /\ req' = [req EXCEPT ![w] = [op |-> op, uid |-> id, row |-> users[id]]]
    /\ UNCHANGED <<users, created, cookies, pats, ended, lost>>

Finish(w) == req' = [req EXCEPT ![w] = Idle]

\* The sessions a change of the table ends.
NoteEnded(table) ==
    ended' = ended \cup {c \in cookies : Accepts(c, users) /\ ~Accepts(c, table)}

\* The row an UPDATE leaves: SQLAlchemy writes the columns that differ from the
\* row as read, with the values the handler computed from it, over the row as it
\* is now.
Written(now, read, changed) ==
    [now EXCEPT
       !.active = IF changed.active = read.active THEN @ ELSE changed.active,
       !.ver    = IF changed.ver = read.ver THEN @ ELSE changed.ver,
       !.pw     = IF changed.pw = read.pw THEN @ ELSE changed.pw]

\* Commit of the row a handler changed, with the cookies it sets.  When the row is
\* gone the UPDATE matches nothing, the commit raises and the answer is a 500.
Write(w, changed, issued) ==
    LET id   == req[w].uid
        read == req[w].row
    IN  /\ IF id \in DOMAIN users
             THEN /\ users' = [users EXCEPT ![id] = Written(users[id], read, changed)]
                  /\ NoteEnded(users')
                  /\ lost' = (lost \/ /\ changed.ver # read.ver
                                      /\ users[id].ver # read.ver)
                  /\ Issue(issued)
             ELSE UNCHANGED <<users, ended, lost, cookies>>
        /\ Finish(w)
        /\ UNCHANGED <<created, pats>>

-----------------------------------------------------------------------------
(* Signing in. *)

\* login up to the password check, and the SSO callback up to the user it
\* found: neither asks whether the account is active.
ReadLogin(w, id) == Read(w, "login", id)

\* Mutant: the cookie is made from the row as it is when the answer is sent.
IssueFromCurrentRow(w) ==
    /\ req[w].op = "login"
    /\ cookies' = IF req[w].uid \in DOMAIN users
                    THEN cookies \cup {[SessionOf(req[w].uid, req[w].row)
                                          EXCEPT !.ver = users[req[w].uid].ver]}
                    ELSE cookies
    /\ Finish(w)
    /\ UNCHANGED <<users, created, pats, ended, lost>>

\* The audit entry is committed in between; the cookie is made from the row the
\* handler holds (expire_on_commit=False), not from the table.
IssueLogin(w) ==
    /\ req[w].op = "login"
    /\ Issue({SessionOf(req[w].uid, req[w].row)})
    /\ Finish(w)
    /\ UNCHANGED <<users, created, pats, ended, lost>>

-----------------------------------------------------------------------------
(* Ending sessions.  MaxVersion bounds the versions a row can reach. *)

MayRevoke(id) == users[id].ver < MaxVersion

\* logout resolves the cookie; without a valid one it only clears the browser's.
ReadLogout(w, id) ==
    /\ \E c \in cookies : c.uid = id /\ Accepts(c, users)
    /\ MayRevoke(id)
    /\ Read(w, "logout", id)

CommitLogout(w) ==
    /\ req[w].op = "logout"
    /\ Write(w, Revoked(req[w].row), {})

\* change_password, up to the check of the current password.
ReadChangePassword(w, id) ==
    /\ Authenticated(id)
    /\ users[id].pw # NoPassword
    /\ MayRevoke(id)
    /\ Read(w, "change", id)

\* Mutant: the sessions opened with the old password go on.
ChangePasswordOnly(w) ==
    /\ req[w].op = "change"
    /\ LET changed == [req[w].row EXCEPT !.pw = @ + 1]
       IN  Write(w, changed, {SessionOf(req[w].uid, changed)})

\* The caller's session is replaced by one of the new version.
CommitChangePassword(w) ==
    /\ req[w].op = "change"
    /\ LET changed == Revoked([req[w].row EXCEPT !.pw = @ + 1])
       IN  Write(w, changed, {SessionOf(req[w].uid, changed)})

\* reset_password, by an administrator: refused for SSO users.
ReadResetPassword(w, id) ==
    /\ users[id].pw # NoPassword
    /\ MayRevoke(id)
    /\ Read(w, "reset", id)

CommitResetPassword(w) ==
    /\ req[w].op = "reset"
    /\ Write(w, Revoked([req[w].row EXCEPT !.pw = @ + 1]), {})

\* update_user with is_active = false, on an account that is active.
ReadDeactivate(w, id) ==
    /\ users[id].active
    /\ MayRevoke(id)
    /\ Read(w, "deactivate", id)

\* Mutant: deactivation leaves the version alone.
DeactivateOnly(w) ==
    /\ req[w].op = "deactivate"
    /\ Write(w, [req[w].row EXCEPT !.active = FALSE], {})

CommitDeactivate(w) ==
    /\ req[w].op = "deactivate"
    /\ Write(w, Revoked([req[w].row EXCEPT !.active = FALSE]), {})

\* update_user with is_active = true, on an account that is not.
ReadReactivate(w, id) == ~users[id].active /\ Read(w, "reactivate", id)

CommitReactivate(w) ==
    /\ req[w].op = "reactivate"
    /\ Write(w, [req[w].row EXCEPT !.active = TRUE], {})

\* A JWT past its exp claim is refused for good.
Expire(c) ==
    /\ c \in cookies
    /\ cookies' = cookies \ {c}
    /\ ended' = ended \ {c}
    /\ UNCHANGED <<users, created, pats, req, lost>>

-----------------------------------------------------------------------------
(* Accounts and tokens. *)

\* The id the database gives to a new row.
NewId ==
    IF IdReuse THEN IF DOMAIN users = {} THEN 1 ELSE Max(DOMAIN users) + 1
    ELSE created + 1

\* create_local_user, or the first SSO sign-in of an identity (NoPassword).  The
\* name is unique: a second one is a 409, or the index refuses the commit.
CreateUser(name, pw) ==
    /\ created < MaxAccounts
    /\ \A i \in DOMAIN users : users[i].name # name
    /\ LET row == [name |-> name, active |-> TRUE, ver |-> 0, pw |-> pw,
                   born |-> created + 1]
           id  == NewId
       IN  users' = [i \in DOMAIN users \cup {id} |-> IF i = id THEN row ELSE users[i]]
    /\ NoteEnded(users')
    /\ created' = created + 1
    /\ UNCHANGED <<cookies, pats, req, lost>>

ReadDelete(w, id) == Read(w, "delete", id)

\* The row the database lets delete_user remove.  Tokens are not among what
\* delete_user removes first, so where foreign keys are enforced one of them
\* makes the commit fail.
Deletable(id) ==
    /\ id \in DOMAIN users
    /\ IdReuse \/ \A t \in pats : t.uid # id

CommitDelete(w) ==
    /\ req[w].op = "delete"
    /\ users' = IF Deletable(req[w].uid)
                  THEN [i \in DOMAIN users \ {req[w].uid} |-> users[i]]
                  ELSE users
    /\ NoteEnded(users')
    /\ Finish(w)
    /\ UNCHANGED <<created, cookies, pats, lost>>

\* create_token: the owner is the user the request authenticated as.
ReadCreateToken(w, id) == Authenticated(id) /\ Read(w, "token", id)

\* The foreign key refuses a token for a user deleted meanwhile, where it is
\* enforced.
CommitCreateToken(w) ==
    /\ req[w].op = "token"
    /\ pats' = IF IdReuse \/ req[w].uid \in DOMAIN users
                 THEN pats \cup {[uid |-> req[w].uid, born |-> req[w].row.born]}
                 ELSE pats
    /\ Finish(w)
    /\ UNCHANGED <<users, created, cookies, ended, lost>>

\* delete_token, delete_token_any, or the token's expires_at has passed.
DropToken(t) ==
    /\ t \in pats
    /\ pats' = pats \ {t}
    /\ UNCHANGED <<users, created, cookies, req, ended, lost>>

-----------------------------------------------------------------------------

\* The table holds one local account: startup creates the first administrator.
Init ==
    /\ \E n \in Names :
         users = [i \in {1} |-> [name |-> n, active |-> TRUE, ver |-> 0, pw |-> 1,
                                 born |-> 1]]
    /\ created = 1
    /\ cookies = {} /\ pats = {} /\ ended = {}
    /\ req = [w \in Workers |-> Idle]
    /\ lost = FALSE

ReadStep(w, id) ==
    \/ ReadLogin(w, id)
    \/ ReadLogout(w, id)
    \/ ReadChangePassword(w, id)
    \/ ReadResetPassword(w, id)
    \/ ReadDeactivate(w, id)
    \/ ReadReactivate(w, id)
    \/ ReadDelete(w, id)
    \/ ReadCreateToken(w, id)

CommitStep(w) ==
    \/ IssueLogin(w)
    \/ CommitLogout(w)
    \/ CommitChangePassword(w)
    \/ CommitResetPassword(w)
    \/ CommitDeactivate(w)
    \/ CommitReactivate(w)
    \/ CommitDelete(w)
    \/ CommitCreateToken(w)

Next ==
    \/ \E w \in Workers, id \in DOMAIN users : ReadStep(w, id)
    \/ \E w \in Workers : CommitStep(w)
    \/ \E c \in cookies : Expire(c)
    \/ \E n \in Names, pw \in {NoPassword, 1} : CreateUser(n, pw)
    \/ \E t \in pats : DropToken(t)

Spec == Init /\ [][Next]_vars

-----------------------------------------------------------------------------
(* Properties. *)

\* A session that ended (logout, password change or reset, deactivation,
\* deletion) is never accepted again, whatever happens to the account later, as
\* long as no two revocations of one account overlapped (auth.py logout,
\* dependencies.py user_from_session_cookie).
EndedStaysEnded == ~lost => \A c \in ended : ~Accepts(c, users)

\* The sessions that are open.
Accepted == {c \in cookies : Accepts(c, users)}

Store == INSTANCE SessionStore WITH Accounts <- Ids, open <- Accepted, closed <- ended

\* The signed cookies that nobody stores are as good as a table of sessions: accounts
\* open sessions and end all of theirs at once, nobody else's, and none comes back, as
\* long as no two revocations of one account overlapped (auth.py login and logout,
\* dependencies.py user_from_session_cookie).
ActsAsStore == Store!Init /\ [][lost' \/ Store!Next]_<<Accepted, ended>>

\* A session never outlives the password it was opened with, even when the sign-in
\* and the change overlap (auth.py login and change_password, admin.py
\* reset_password).
SessionHasCurrentPassword ==
    ~lost => \A c \in cookies : Accepts(c, users) => c.pw = users[c.uid].pw

\* No token is left behind by the account it belongs to (token_service.py
\* delete_user_tokens, "called on user deletion").  Nothing calls it: where foreign
\* keys are enforced it is they who keep a user with tokens from going.
NoTokenOutlivesItsUser == \A t \in pats : t.uid \in DOMAIN users

\* A handler that read the version it replaces ends every session the account
\* had: none of them is accepted after its commit (auth.py logout: "This ends
\* the user's sessions on every device").
Revokes(w) == req[w].op \in {"logout", "change", "reset", "deactivate"}

RevocationEndsEverySession ==
    [][\A w \in Workers :
         /\ Revokes(w) /\ req'[w] = Idle
         /\ req[w].uid \in DOMAIN users
         /\ users[req[w].uid].ver = req[w].row.ver
         => \A c \in cookies : c.uid = req[w].uid /\ Accepts(c, users)
                                 => ~Accepts(c, users')]_vars

\* The same with overlapping revocations: a session that ended stays ended
\* (models/user.py: the version is "bumped on logout, password change or
\* deactivation [...] so older ones stop being accepted").
OlderSessionsStayEnded == \A c \in ended : ~Accepts(c, users)

=============================================================================
