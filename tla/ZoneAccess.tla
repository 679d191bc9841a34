------------------------------- MODULE ZoneAccess -------------------------------
(***************************************************************************)
(* Accounts, their members and their zones.                                *)
(*                                                                         *)
(* Accounts and memberships are rows of the backend's database; a zone is   *)
(* in PowerDNS and carries the NAME of its account.  No transaction spans   *)
(* the two, and every handler that changes a zone first asks PowerDNS and   *)
(* the database who may do it: Read* is the handler up to its last check,   *)
(* Commit* the call or the commit that follows, and what another handler    *)
(* commits comes between any two of them.                                  *)
(*                                                                         *)
(* The role of manager differs from that of viewer in what it may do to     *)
(* records only, which are not modelled: Roles has one name for both.  The  *)
(* kind of a zone is fixed: those in Catalogues are Producer or Consumer,   *)
(* which have endpoints of their own with the same checks.                 *)
(***************************************************************************)
EXTENDS Naturals, FiniteSets, FiniteSetsExt

CONSTANTS
    Names,        \* account names
    NoAccount,    \* the empty account field of a zone
    Users,        \* ordinary users
    Super,        \* any super admin
    Zones,        \* zone names
    Catalogues,   \* those of catalogue zones
    Workers,      \* request handlers that may run at the same time
    IdReuse,      \* TRUE: SQLite (max rowid + 1, foreign keys not enforced)
                  \* FALSE: MySQL/MariaDB (AUTO_INCREMENT, foreign keys enforced)
    MaxAccounts   \* bound: accounts ever created

ASSUME ZoneAccessAssumption ==
    /\ NoAccount \notin Names
    /\ Super \notin Users
    /\ Catalogues \subseteq Zones
    /\ IdReuse \in BOOLEAN
    /\ MaxAccounts \in Nat \ {0}

VARIABLES
    accounts,   \* the account table: id -> row
    created,    \* accounts ever created
    members,    \* the useraccount table: <<account id, user>> -> row
    zones,      \* PowerDNS: zone name -> zone
    req         \* what each handler has decided

vars == <<accounts, created, members, zones, req>>

Roles == {"admin", "viewer"}
Ids == 1 .. MaxAccounts
NoOne == 0
Astray == MaxAccounts + 1

\* born numbers the accounts in order of creation: it tells an account from a
\* later one of the same name or id.  The program has no such column.
Account == [name : Names, born : Ids]

\* owner and born are history: the account that the zone, or the membership, was
\* meant for when that was decided, NoOne when the name stood for no account then.
\* It is Astray when the backend has lost track of it, in a way it has no guard
\* against:
\*   - overtaken: the name, or the id, stands for another account, or none, when the
\*     call or the commit follows the check (SetAccount, LookUpGrant, SetMember,
\*     CommitAssign);
\*   - renamed: the zones keep the old name (RenameAccount);
\*   - late: given while the account was being deleted, the zone after its zones were
\*     listed, the membership, on SQLite, after those were; or the account got its id
\*     before the deletion of an earlier one was through (CommitDeleteAccount).
Owner == {NoOne, Astray} \cup Ids
Member == [role : Roles, born : Owner]
Zone == [account : Names \cup {NoAccount}, owner : Owner]

\* late is history: zones given to the account since its zones were listed.
Idle == [op |-> "idle"]
Request ==
    {Idle}
    \cup [op : {"create"}, zone : Zones, name : Names \cup {NoAccount}, owner : Owner]
    \cup [op : {"put"}, super : BOOLEAN, zone : Zones, name : Names \cup {NoAccount},
          owner : Owner]
    \cup [op : {"remove"}, zone : Zones]
    \cup [op : {"grant"}, name : Names, user : Users, role : Roles, born : Owner]
    \cup [op : {"upsert"}, id : Ids, born : Owner, user : Users, role : Roles,
          found : SUBSET Roles]
    \cup [op : {"revoke"}, name : Names, user : Users]
    \cup [op : {"drop"}, id : Ids, user : Users]
    \cup [op : {"assign"}, id : Ids, born : Ids, seen : SUBSET Users,
          users : SUBSET Users]
    \cup [op : {"detach"}, id : Ids, born : Ids, left : SUBSET Zones,
          late : SUBSET Zones]
    \cup [op : {"delete"}, id : Ids, born : Ids, seen : SUBSET Users,
          late : SUBSET Zones]

Deletions == {"detach", "delete"}

TypeOK ==
    /\ DOMAIN accounts \subseteq Ids
    /\ accounts \in [DOMAIN accounts -> Account]
    /\ created \in 0 .. MaxAccounts
    /\ DOMAIN members \subseteq Ids \X Users
    /\ members \in [DOMAIN members -> Member]
    /\ DOMAIN zones \subseteq Zones
    /\ zones \in [DOMAIN zones -> Zone]
    /\ req \in [Workers -> Request]

-----------------------------------------------------------------------------
(* Who may do what. *)

\* get_account_by_name: at most one, the column is unique.
Bearing(name) == {a \in DOMAIN accounts : accounts[a].name = name}

\* The account a name stands for.
BornOf(name) ==
    IF Bearing(name) = {} THEN NoOne
    ELSE accounts[CHOOSE a \in Bearing(name) : TRUE].born

\* get_user_account_names: any role on the account.
IsMember(c, name) ==
    c = Super \/ \E a \in Bearing(name) : <<a, c>> \in DOMAIN members

\* zone_access("admin"), get_user_role_for_account
IsAdmin(c, name) ==
    c = Super \/ \E a \in Bearing(name) :
                   <<a, c>> \in DOMAIN members /\ members[<<a, c>>].role = "admin"

-----------------------------------------------------------------------------
(* The two halves of a handler. *)

\* A handler that has no request takes one.
Free(w) == req[w] = Idle

Read(w, request) ==
    /\ req' = [req EXCEPT ![w] = request]
    /\ UNCHANGED <<accounts, created, members, zones>>

Finish(w) == req' = [req EXCEPT ![w] = Idle]

\* The call or the commit is refused.
GiveUp(w) == Finish(w) /\ UNCHANGED <<accounts, created, members, zones>>

-----------------------------------------------------------------------------
(* Zones. *)

\* create_zone asks for the admin role, create_catalogue and create_consumer for
\* any; a super admin may name whatever account or none.
ReadCreate(w, c, z, name) ==
    /\ c # Super => /\ name # NoAccount
                    /\ IsAdmin(c, name) \/ (z \in Catalogues /\ IsMember(c, name))
    /\ Read(w, [op |-> "create", zone |-> z, name |-> name, owner |-> BornOf(name)])

\* update_zone with an account: only a super admin may send another one.
ReadUpdate(w, c, z, name) ==
    /\ z \in DOMAIN zones
    /\ IsAdmin(c, zones[z].account)
    /\ c # Super => name = zones[z].account
    /\ Read(w, [op |-> "put", super |-> c = Super, zone |-> z, name |-> name,
                owner |-> IF name = zones[z].account THEN zones[z].owner
                          ELSE BornOf(name)])

\* add_member and remove_member of a catalogue write the account as they read it.
ReadJoin(w, c, k, z) ==
    /\ k \in Catalogues /\ {k, z} \subseteq DOMAIN zones
    /\ IsMember(c, zones[z].account)
    /\ Read(w, [op |-> "put", super |-> c = Super, zone |-> z,
                name |-> zones[z].account, owner |-> zones[z].owner])

\* v is deleting the account, and z is not among the zones it has yet to detach.
Overlooks(v, z, born) ==
    /\ req[v].op \in Deletions /\ req[v].born = born
    /\ req[v].op = "detach" => z \notin req[v].left

\* The zone gets its account; who is deleting that account may overlook it.
SetAccount(w, z) ==
    LET owner == IF req[w].owner = BornOf(req[w].name) THEN req[w].owner ELSE Astray
    IN  /\ zones' = [y \in DOMAIN zones \cup {z} |->
                       IF y = z THEN [account |-> req[w].name, owner |-> owner]
                       ELSE zones[y]]
        /\ req' = [v \in Workers |->
                     IF v = w THEN Idle
                     ELSE IF Overlooks(v, z, owner)
                       THEN [req[v] EXCEPT !.late = @ \cup {z}]
                       ELSE req[v]]
        /\ UNCHANGED <<accounts, created, members>>

\* PowerDNS refuses a zone that exists.
CommitCreate(w) ==
    /\ req[w].op = "create"
    /\ IF req[w].zone \in DOMAIN zones THEN GiveUp(w) ELSE SetAccount(w, req[w].zone)

\* PowerDNS knows no such zone, or takes the new account.
CommitPut(w) ==
    /\ req[w].op = "put"
    /\ IF req[w].zone \in DOMAIN zones THEN SetAccount(w, req[w].zone) ELSE GiveUp(w)

\* delete_zone, delete_catalogue and delete_consumer.
ReadRemove(w, c, z) ==
    /\ z \in DOMAIN zones
    /\ \/ IsAdmin(c, zones[z].account)
       \/ z \in Catalogues /\ IsMember(c, zones[z].account)
    /\ Read(w, [op |-> "remove", zone |-> z])

CommitRemove(w) ==
    /\ req[w].op = "remove"
    /\ zones' = [z \in DOMAIN zones \ {req[w].zone} |-> zones[z]]
    /\ Finish(w)
    /\ UNCHANGED <<accounts, created, members>>

-----------------------------------------------------------------------------
(* Members. *)

\* add_zone_member and update_zone_member: the members of a zone are those of its
\* account.
ReadGrant(w, c, z, u, role) ==
    /\ z \in DOMAIN zones
    /\ zones[z].account # NoAccount
    /\ IsAdmin(c, zones[z].account)
    /\ Read(w, [op |-> "grant", name |-> zones[z].account, user |-> u, role |-> role,
                born |-> BornOf(zones[z].account)])

\* upsert_account_member looks the account up by its name again, then the row, and has
\* nothing to write when that has the role.
LookUpGrant(w) ==
    /\ req[w].op = "grant"
    /\ \/ \E a \in Bearing(req[w].name) :
            LET found == {members[m].role : m \in DOMAIN members \cap {<<a, req[w].user>>}}
            IN  IF found = {req[w].role} THEN GiveUp(w)
                ELSE Read(w, [op |-> "upsert", id |-> a, user |-> req[w].user,
                              role |-> req[w].role, found |-> found,
                              born |-> IF req[w].born = accounts[a].born THEN req[w].born
                                       ELSE Astray])
       \/ Bearing(req[w].name) = {} /\ GiveUp(w)

\* What a handler writes under the id it has, which may have become the id of another
\* account, or of none.
Given(w, role) ==
    [role |-> role,
     born |-> IF \E a \in DOMAIN accounts :
                   a = req[w].id /\ accounts[a].born = req[w].born
                THEN req[w].born ELSE Astray]

\* The row of this member with that role.
SetMember(w, role) ==
    /\ members' = [m \in DOMAIN members \cup {<<req[w].id, req[w].user>>} |->
                     IF m = <<req[w].id, req[w].user>> THEN Given(w, role)
                     ELSE members[m]]
    /\ Finish(w)
    /\ UNCHANGED <<accounts, created, zones>>

\* The flush inserts the row or updates the one found.  It fails when the row appeared
\* or vanished meanwhile, and where foreign keys are enforced when the account is gone.
CommitUpsert(w) ==
    /\ req[w].op = "upsert"
    /\ LET exists == <<req[w].id, req[w].user>> \in DOMAIN members
       IN  IF /\ exists <=> req[w].found # {}
              /\ IdReuse \/ req[w].id \in DOMAIN accounts
             THEN SetMember(w, req[w].role)
             ELSE GiveUp(w)

\* remove_zone_member
ReadRevoke(w, c, z, u) ==
    /\ z \in DOMAIN zones
    /\ zones[z].account # NoAccount
    /\ IsAdmin(c, zones[z].account)
    /\ Read(w, [op |-> "revoke", name |-> zones[z].account, user |-> u])

\* remove_account_member looks up the account by its name, then the row.
LookUpRevoke(w) ==
    /\ req[w].op = "revoke"
    /\ \/ \E a \in Bearing(req[w].name) :
            /\ <<a, req[w].user>> \in DOMAIN members
            /\ Read(w, [op |-> "drop", id |-> a, user |-> req[w].user])
       \/ /\ \A a \in Bearing(req[w].name) : <<a, req[w].user>> \notin DOMAIN members
          /\ GiveUp(w)

CommitDrop(w) ==
    /\ req[w].op = "drop"
    /\ members' = [m \in DOMAIN members \ {<<req[w].id, req[w].user>>} |-> members[m]]
    /\ Finish(w)
    /\ UNCHANGED <<accounts, created, zones>>

MembersOf(a) == {u \in Users : <<a, u>> \in DOMAIN members}

\* set_account_users: the rows it replaces are those it has read.
ReadAssign(w, a, us) ==
    /\ a \in DOMAIN accounts
    /\ Read(w, [op |-> "assign", id |-> a, born |-> accounts[a].born, users |-> us,
                seen |-> MembersOf(a)])

\* Whoever is assigned becomes an admin.  The flush inserts the new rows, updates
\* those that are kept and deletes the rest; a row that appeared or vanished
\* meanwhile, or an account that is gone where foreign keys are enforced, makes
\* it fail as a whole.
CommitAssign(w) ==
    /\ req[w].op = "assign"
    /\ LET a     == req[w].id
           seen  == req[w].seen
           rows  == {a} \X req[w].users
       IN  IF /\ req[w].users \cap seen = req[w].users \cap MembersOf(a)
              /\ IdReuse \/ rows = {} \/ a \in DOMAIN accounts
             THEN /\ members' = [m \in (DOMAIN members \ ({a} \X seen)) \cup rows |->
                                   IF m \in rows THEN Given(w, "admin")
                                   ELSE members[m]]
                  /\ Finish(w)
                  /\ UNCHANGED <<accounts, created, zones>>
             ELSE GiveUp(w)

-----------------------------------------------------------------------------
(* Accounts, by a super admin. *)

\* The id the database gives to a new row.
NewId ==
    IF IdReuse THEN IF DOMAIN accounts = {} THEN 1 ELSE Max(DOMAIN accounts) + 1
    ELSE created + 1

\* create_account; a name in use is a 409, or the index refuses the commit.
CreateAccount(name) ==
    /\ created < MaxAccounts
    /\ Bearing(name) = {}
    /\ accounts' = [a \in DOMAIN accounts \cup {NewId} |->
                      IF a = NewId THEN [name |-> name, born |-> created + 1]
                      ELSE accounts[a]]
    /\ created' = created + 1
    /\ UNCHANGED <<members, zones, req>>

\* These zones go astray.
Disowned(zs) ==
    [z \in DOMAIN zones |-> IF z \in zs THEN [zones[z] EXCEPT !.owner = Astray]
                            ELSE zones[z]]

OwnedBy(born) == {z \in DOMAIN zones : zones[z].owner = born}

\* update_account: the zones keep the old name.
RenameAccount(a, name) ==
    /\ a \in DOMAIN accounts
    /\ Bearing(name) = {}
    /\ accounts' = [accounts EXCEPT ![a].name = name]
    /\ zones' = Disowned(OwnedBy(accounts[a].born))
    /\ UNCHANGED <<created, members, req>>

\* Mutant: the zones are not looked for.
ReadDeleteOnly(w, a) ==
    /\ a \in DOMAIN accounts
    /\ Read(w, [op |-> "detach", id |-> a, born |-> accounts[a].born, late |-> {},
                left |-> {}])

\* delete_account, up to the list of the zones that carry the account's name.
ReadDeleteAccount(w, a) ==
    /\ a \in DOMAIN accounts
    /\ Read(w, [op |-> "detach", id |-> a, born |-> accounts[a].born, late |-> {},
                left |-> {z \in DOMAIN zones : zones[z].account = accounts[a].name}])

\* Mutant: the field is reset to null.
DetachToNull(w, z) ==
    /\ req[w].op = "detach"
    /\ z \in req[w].left
    /\ z \in DOMAIN zones
    /\ zones' = [zones EXCEPT ![z] = [account |-> NoOne, owner |-> NoOne]]
    /\ req' = [req EXCEPT ![w].left = @ \ {z}]
    /\ UNCHANGED <<accounts, created, members>>

\* _clear_account_on_zones, one PUT per zone.
DetachZone(w, z) ==
    /\ req[w].op = "detach"
    /\ z \in req[w].left
    /\ z \in DOMAIN zones
    /\ zones' = [zones EXCEPT ![z] = [account |-> NoAccount, owner |-> NoOne]]
    /\ req' = [req EXCEPT ![w].left = @ \ {z}]
    /\ UNCHANGED <<accounts, created, members>>

\* A PUT fails: the zone is gone, or PowerDNS is.  The handler ends there.
DetachFails(w) ==
    /\ req[w].op = "detach"
    /\ req[w].left # {}
    /\ GiveUp(w)

\* All zones are detached: the memberships are listed.
ListMembers(w) ==
    /\ req[w].op = "detach"
    /\ req[w].left = {}
    /\ Read(w, [op |-> "delete", id |-> req[w].id, born |-> req[w].born,
                late |-> req[w].late, seen |-> MembersOf(req[w].id)])

\* What a deletion leaves behind: the zones given to the account in the meantime, or
\* those of a later account that has got the same id.
LeftBehind(w) ==
    IF req[w].id \notin DOMAIN accounts THEN {}
    ELSE IF accounts[req[w].id].born = req[w].born
      THEN OwnedBy(req[w].born) \cap req[w].late
      ELSE OwnedBy(accounts[req[w].id].born)

\* Mutant: the memberships stay.
CommitDeleteRowOnly(w) ==
    /\ req[w].op = "delete"
    /\ accounts' = [b \in DOMAIN accounts \ {req[w].id} |-> accounts[b]]
    /\ zones' = Disowned(LeftBehind(w))
    /\ Finish(w)
    /\ UNCHANGED <<created, members>>

\* The memberships listed and the row with that id go in one transaction, which
\* foreign keys refuse when the account has got another member.  Without them that
\* row stays behind, for the next account that gets the id.
CommitDeleteAccount(w) ==
    /\ req[w].op = "delete"
    /\ LET a     == req[w].id
           later == {a} \X (MembersOf(a) \ req[w].seen)
       IN  IF IdReuse \/ later = {}
             THEN /\ accounts' = [b \in DOMAIN accounts \ {a} |-> accounts[b]]
                  /\ members' = [m \in DOMAIN members \ ({a} \X req[w].seen) |->
                                   IF m \in later THEN [members[m] EXCEPT !.born = Astray]
                                   ELSE members[m]]
                  /\ zones' = Disowned(LeftBehind(w))
                  /\ Finish(w)
                  /\ UNCHANGED created
             ELSE GiveUp(w)

-----------------------------------------------------------------------------

Init ==
    /\ accounts = <<>>
    /\ created = 0
    /\ members = <<>>
    /\ zones = <<>>
    /\ req = [w \in Workers |-> Idle]

Callers == Users \cup {Super}

ReadZoneStep(w, c) ==
    /\ Free(w)
    /\ \/ \E z \in Zones, name \in Names \cup {NoAccount} :
            ReadCreate(w, c, z, name) \/ ReadUpdate(w, c, z, name)
       \/ \E k, z \in Zones : ReadJoin(w, c, k, z)
       \/ \E z \in Zones : ReadRemove(w, c, z)
       \/ \E z \in Zones, u \in Users, role \in Roles : ReadGrant(w, c, z, u, role)
       \/ \E z \in Zones, u \in Users : ReadRevoke(w, c, z, u)

ReadAccountStep(w) ==
    /\ Free(w)
    /\ \/ \E a \in Ids, us \in SUBSET Users : ReadAssign(w, a, us)
       \/ \E a \in Ids : ReadDeleteAccount(w, a)

CommitStep(w) ==
    \/ CommitCreate(w)
    \/ CommitPut(w)
    \/ CommitRemove(w)
    \/ LookUpGrant(w)
    \/ CommitUpsert(w)
    \/ LookUpRevoke(w)
    \/ CommitDrop(w)
    \/ CommitAssign(w)
    \/ \E z \in Zones : DetachZone(w, z)
    \/ DetachFails(w)
    \/ ListMembers(w)
    \/ CommitDeleteAccount(w)

Next ==
    \/ \E w \in Workers, c \in Callers : ReadZoneStep(w, c)
    \/ \E w \in Workers : ReadAccountStep(w) \/ CommitStep(w)
    \/ \E name \in Names : CreateAccount(name)
    \/ \E a \in Ids, name \in Names : RenameAccount(a, name)

Spec == Init /\ [][Next]_vars

-----------------------------------------------------------------------------
(* Properties. *)

\* The account a zone was meant for is still there and still goes by the name the
\* zone carries, so that no other account has the zone, unless it went astray: its
\* account was renamed, or changed between a check and its call, or the zone was
\* given to it while it was being deleted.  A deletion that fails half way, or is
\* tried again, or meets another handler at the zones it has listed, leaves none
\* behind (admin_service.py delete_account and _clear_account_on_zones).
ZonesKeepTheirAccount ==
    \A z \in DOMAIN zones : zones[z].owner \notin {NoOne, Astray} =>
      \E a \in DOMAIN accounts :
        accounts[a].born = zones[z].owner /\ accounts[a].name = zones[z].account

\* Nobody is a member of another account than the one the membership was meant for,
\* though ids come back, unless it went astray: the account changed between the
\* check and the commit, or was being deleted when the membership was given.  A
\* deletion leaves no membership it has listed, and none comes from an assignment
\* or a grant that ended before (admin_service.py upsert_account_member,
\* set_account_users and delete_account).
MembersKeepTheirAccount ==
    \A m \in DOMAIN members : members[m].born \notin {NoOne, Astray} =>
      m[1] \in DOMAIN accounts /\ accounts[m[1]].born = members[m].born

\* The request of an ordinary user does not change the account of a zone (zones.py
\* update_zone: "Prevent non-global-admins from changing the account field").
OnlySuperMovesZones ==
    [][\A w \in Workers :
         req[w].op = "put" /\ req'[w] = Idle /\ ~req[w].super =>
           \A z \in DOMAIN zones : zones'[z].account = zones[z].account]_vars

\* No step leaves a zone that pointed to an account pointing to none
\* (admin_service.py delete_account: "otherwise they would keep pointing to an
\* account that no longer exists").
ZonesPointToAccounts ==
    [][\A z \in DOMAIN zones \cap DOMAIN zones' :
         /\ zones'[z].account = zones[z].account
         /\ Bearing(zones[z].account) # {}
         => Bearing(zones[z].account)' # {}]_vars

===============================================================================
