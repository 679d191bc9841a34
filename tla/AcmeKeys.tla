---- MODULE AcmeKeys ----
(***************************************************************************)
(* The ACME keys of services/acme_service.py: who a key is said to belong  *)
(* to while users come and go.  A key's row holds the id of a user; the    *)
(* overview of the keys and the audit log of what a key has done show the  *)
(* name of the user who has that id at the time.                           *)
(*                                                                         *)
(* The zone of a key is part of it and never changes, so that a key is     *)
(* its row, and its name and comment say nothing of its user.              *)
(***************************************************************************)
EXTENDS Naturals

CONSTANTS
    KeyIds,
    Handlers,    \* requests that may run at the same time
    IdReuse,     \* SQLite: ids are given again and foreign keys are not enforced
    MaxAccounts  \* bound: users ever created

ASSUME AcmeAssumption ==
    /\ IdReuse \in BOOLEAN
    /\ MaxAccounts \in Nat

VARIABLES
    holders,  \* the user table: the account that has an id, or 0
    accounts, \* users created so far; their numbers tell them apart
    keys,     \* the acmeapikey table
    asks,     \* what each handler has read
    logged,   \* history: the audit entries of the keys: whose key, and whom they name
    crossed   \* history: users deleted while a request wrote or used a key of theirs

acmeVars == <<holders, accounts, keys, asks, logged, crossed>>

Accounts == 1..MaxAccounts
Ids == 1..MaxAccounts

\* `owner` is history: the account the key was created by or given to.
Key == [user : Ids \cup {0}, owner : Accounts]
NoKey == [user |-> 0, owner |-> 0]

NoAsk == [op |-> "none", user |-> 0]
Asks ==
    {NoAsk} \cup [op : {"create", "assign"}, user : Ids, owner : Accounts]
            \cup [op : {"reassign"}, user : Ids, owner : Accounts, key : KeyIds, was : Ids \cup {0}]
            \cup [op : {"use"}, user : Ids \cup {0}, owner : Accounts]
            \cup [op : {"remove"}, user : Ids]
            \cup [op : {"delete"}, user : Ids, found : SUBSET KeyIds, disturbed : BOOLEAN]

Moves(h, a) == asks[h] = NoAsk /\ asks' = [asks EXCEPT ![h] = a]

-----------------------------------------------------------------------------
(* Users.                                                                  *)

\* SQLite gives the largest id and one, the other databases never give one twice.
Given(i) ==
    /\ holders[i] = 0
    /\ IF IdReuse
       THEN (\A j \in Ids : holders[j] # 0 => j < i) /\ (i > 1 => holders[i - 1] # 0)
       ELSE i = accounts + 1

AddUser(i) ==
    /\ accounts < MaxAccounts
    /\ Given(i)
    /\ accounts' = accounts + 1
    /\ holders' = [holders EXCEPT ![i] = accounts + 1]
    /\ UNCHANGED <<keys, asks, logged, crossed>>

\* delete_user of the router has the row.
AskRemoval(h, i) ==
    /\ holders[i] # 0
    /\ Moves(h, [op |-> "remove", user |-> i])
    /\ UNCHANGED <<holders, accounts, keys, logged, crossed>>

\* Mutant: the keys are left to the database.
FindNone(h) ==
    /\ asks[h].op = "remove"
    /\ asks' = [asks EXCEPT ![h] =
         [op |-> "delete", user |-> asks[h].user, found |-> {}, disturbed |-> FALSE]]
    /\ UNCHANGED <<holders, accounts, keys, logged, crossed>>

\* The service looks for the user's keys,
FindKeys(h) ==
    /\ asks[h].op = "remove"
    /\ asks' = [asks EXCEPT ![h] =
         [op |-> "delete", user |-> asks[h].user, disturbed |-> FALSE,
          found |-> {k \in KeyIds : keys[k].user = asks[h].user}]]
    /\ UNCHANGED <<holders, accounts, keys, logged, crossed>>

\* Requests that have read the user of id i and are about to write or show it.
Relying(i) == {g \in Handlers : asks[g].user = i /\ asks[g].op \in {"create", "assign", "reassign", "use"}}

\* ... detaches them and deletes the user: a key that has gone meanwhile fails the
\* transaction, and so does, where foreign keys are enforced, one that has come.
CommitRemoval(h) ==
    /\ asks[h].op = "delete"
    /\ \A k \in asks[h].found : keys[k] # NoKey
    /\ IdReuse \/ \A k \in KeyIds \ asks[h].found : keys[k].user # asks[h].user
    /\ keys' = [k \in KeyIds |-> IF k \in asks[h].found THEN [keys[k] EXCEPT !.user = 0] ELSE keys[k]]
    /\ holders' = [holders EXCEPT ![asks[h].user] = 0]
    /\ asks' = [asks EXCEPT ![h] = NoAsk]
    /\ crossed' = crossed \cup
         {a \in {holders[asks[h].user]} : asks[h].disturbed \/ Relying(asks[h].user) # {}}
    /\ UNCHANGED <<accounts, logged>>

-----------------------------------------------------------------------------
(* Keys.                                                                   *)

\* A key of user i is written by h: deletions of i that have looked for its keys miss it.
Disturbed(h, i) ==
    [g \in Handlers |->
        CASE g = h -> NoAsk
          [] g # h /\ asks[g].op = "delete" /\ asks[g].user = i -> [asks[g] EXCEPT !.disturbed = TRUE]
          [] OTHER -> asks[g]]

\* The user of the session is known, the zone is being looked up.
AskCreate(h, i) ==
    /\ holders[i] # 0
    /\ Moves(h, [op |-> "create", user |-> i, owner |-> holders[i]])
    /\ UNCHANGED <<holders, accounts, keys, logged, crossed>>

\* The key gets an id that is free.
CommitCreate(h, k) ==
    /\ asks[h].op = "create"
    /\ keys[k] = NoKey
    /\ IdReuse \/ holders[asks[h].user] # 0
    /\ keys' = [keys EXCEPT ![k] = [user |-> asks[h].user, owner |-> asks[h].owner]]
    /\ asks' = Disturbed(h, asks[h].user)
    /\ UNCHANGED <<holders, accounts, logged, crossed>>

\* The new owner is looked up first,
AskReassign(h, i) ==
    /\ holders[i] # 0
    /\ Moves(h, [op |-> "assign", user |-> i, owner |-> holders[i]])
    /\ UNCHANGED <<holders, accounts, keys, logged, crossed>>

\* ... then the key,
FindKey(h, k) ==
    /\ asks[h].op = "assign"
    /\ keys[k] # NoKey
    /\ asks' = [asks EXCEPT ![h] =
         [op |-> "reassign", user |-> asks[h].user, owner |-> asks[h].owner, key |-> k, was |-> keys[k].user]]
    /\ UNCHANGED <<holders, accounts, keys, logged, crossed>>

\* ... whose row is written, if what was read differs.
CommitReassign(h) ==
    /\ asks[h].op = "reassign"
    /\ IF asks[h].was = asks[h].user
       THEN /\ asks' = [asks EXCEPT ![h] = NoAsk]
            /\ UNCHANGED keys
       ELSE /\ keys[asks[h].key] # NoKey
            /\ IdReuse \/ holders[asks[h].user] # 0
            /\ keys' = [keys EXCEPT ![asks[h].key] = [user |-> asks[h].user, owner |-> asks[h].owner]]
            /\ asks' = Disturbed(h, asks[h].user)
    /\ UNCHANGED <<holders, accounts, logged, crossed>>

\* By an administrator of the zone, or of the keys.
DeleteKey(k) ==
    /\ keys[k] # NoKey
    /\ keys' = [keys EXCEPT ![k] = NoKey]
    /\ UNCHANGED <<holders, accounts, asks, logged, crossed>>

\* A client presents the key: its use is recorded and its row read again.
VerifyKey(h, k) ==
    /\ keys[k] # NoKey
    /\ Moves(h, [op |-> "use", user |-> keys[k].user, owner |-> keys[k].owner])
    /\ UNCHANGED <<holders, accounts, keys, logged, crossed>>

\* What is done is logged under the name of the key's user, if there is one.
LogUse(h) ==
    /\ asks[h].op = "use"
    /\ logged' = logged \cup
         {[owner |-> asks[h].owner, named |-> IF asks[h].user = 0 THEN 0 ELSE holders[asks[h].user]]}
    /\ asks' = [asks EXCEPT ![h] = NoAsk]
    /\ UNCHANGED <<holders, accounts, keys, crossed>>

\* A row is missing, a constraint fails, or the process goes down.
GiveUp(h) ==
    /\ asks[h] # NoAsk
    /\ asks' = [asks EXCEPT ![h] = NoAsk]
    /\ UNCHANGED <<holders, accounts, keys, logged, crossed>>

AcmeInit ==
    /\ holders = [i \in Ids |-> 0]
    /\ accounts = 0
    /\ keys = [k \in KeyIds |-> NoKey]
    /\ asks = [h \in Handlers |-> NoAsk]
    /\ logged = {}
    /\ crossed = {}

AcmeNext ==
    \/ \E i \in Ids : AddUser(i)
    \/ \E h \in Handlers, i \in Ids : AskRemoval(h, i) \/ AskCreate(h, i) \/ AskReassign(h, i)
    \/ \E h \in Handlers, k \in KeyIds : CommitCreate(h, k) \/ FindKey(h, k) \/ VerifyKey(h, k)
    \/ \E h \in Handlers : FindKeys(h) \/ CommitRemoval(h) \/ CommitReassign(h) \/ LogUse(h) \/ GiveUp(h)
    \/ \E k \in KeyIds : DeleteKey(k)

AcmeSpec == AcmeInit /\ [][AcmeNext]_acmeVars

-----------------------------------------------------------------------------

AcmeTypeOK ==
    /\ holders \in [Ids -> Accounts \cup {0}]
    /\ accounts \in 0..MaxAccounts
    /\ keys \in [KeyIds -> Key \cup {NoKey}]
    /\ asks \in [Handlers -> Asks]
    /\ logged \subseteq [owner : Accounts, named : Accounts \cup {0}]
    /\ crossed \subseteq Accounts \cup {0}

\* Neither the overview nor the audit log names anybody but the account that a key was
\* created by or given to, whoever has its id now, unless that account was deleted while
\* a request wrote or used a key of its own.
KeysNameTheirOwner ==
    /\ \A k \in KeyIds :
         LET u == keys[k].user IN
         u # 0 => holders[u] \in {0, keys[k].owner} \/ keys[k].owner \in crossed
    /\ \A e \in logged : e.named \in {0, e.owner} \/ e.owner \in crossed

====
