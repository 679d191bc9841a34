--------------------------- MODULE ZoneAccess_proofs ---------------------------
(***************************************************************************)
(* Proofs about ZoneAccess for any number of accounts, users, zones and     *)
(* handlers, on either kind of database.                                   *)
(*                                                                         *)
(* The properties are not inductive by themselves: a deletion removes the   *)
(* account after it has detached the zones it listed, so IInv also says     *)
(* that these and the zones that came later are all it owns.  And ids,      *)
(* names and births of the accounts are distinct, which a reused id keeps   *)
(* because it is above all those in use.                                   *)
(***************************************************************************)
EXTENDS ZoneAccess, WellFoundedInduction, TLAPS

\* An account is found by its id, its name or its birth.
AccountsAreDistinct ==
    /\ \A a \in DOMAIN accounts : a <= created /\ accounts[a].born <= created
    /\ \A a, b \in DOMAIN accounts :
         accounts[a].name = accounts[b].name \/ accounts[a].born = accounts[b].born
           => a = b

\* The zones of an account that is being deleted are still to be detached or were
\* given to it after the list was taken.
DeletionsSeeEveryZone ==
    \A w \in Workers :
      /\ req[w].op = "detach" =>
           OwnedBy(req[w].born) \subseteq req[w].left \cup req[w].late
      /\ req[w].op = "delete" => OwnedBy(req[w].born) \subseteq req[w].late

IInv ==
    /\ TypeOK
    /\ AccountsAreDistinct
    /\ ZonesKeepTheirAccount
    /\ MembersKeepTheirAccount
    /\ DeletionsSeeEveryZone

-----------------------------------------------------------------------------
(* The id of a new account. *)

\* A nonempty set of numbers with an upper bound has a largest one.
LEMMA LargestExists ==
    ASSUME NEW N \in Nat, NEW S \in SUBSET (1 .. N), S # {}
    PROVE  Max(S) \in S /\ \A x \in S : x <= Max(S)
<1> DEFINE T == {n \in Nat : n <= N /\ N - n \in S}
<1>1. T \subseteq Nat /\ T # {}
  <2>1. PICK x \in S : TRUE
    OBVIOUS
  <2>2. N - x \in Nat /\ N - x <= N /\ N - (N - x) = x
    OBVIOUS
  <2> QED BY <2>1, <2>2
<1>2. PICK n \in T : \A m \in T : ~ (<<m, n>> \in OpToRel(<, Nat))
  <2> HIDE DEF T
  <2> QED BY <1>1, WFMin, NatLessThanWellFounded
<1>3. \A m \in T : ~ (m < n)
  BY <1>2, <1>1 DEF OpToRel
<1>4. N - n \in S /\ \A x \in S : N - n >= x
  <2> SUFFICES ASSUME NEW x \in S PROVE N - n >= x
    OBVIOUS
  <2>1. N - x \in T
    OBVIOUS
  <2>2. ~ (N - x < n)
    BY <2>1, <1>3
  <2>3. x \in Nat /\ n \in Nat
    OBVIOUS
  <2> QED BY <2>2, <2>3
<1>5. Max(S) \in S /\ \A x \in S : Max(S) >= x
  BY <1>4 DEF Max
<1>6. Max(S) \in 1 .. N
  BY <1>5
<1> QED BY <1>5, <1>6

\* A new account gets an id nobody has.
LEMMA NewIdIsNew ==
    ASSUME TypeOK, AccountsAreDistinct, created < MaxAccounts
    PROVE  NewId \in Ids /\ NewId \notin DOMAIN accounts /\ NewId <= created + 1
<1> USE ZoneAccessAssumption
<1>1. created \in Nat /\ DOMAIN accounts \subseteq 1 .. created
  BY DEF TypeOK, AccountsAreDistinct, Ids
<1>2. CASE IdReuse /\ DOMAIN accounts # {}
  <2>1. Max(DOMAIN accounts) \in DOMAIN accounts
        /\ \A x \in DOMAIN accounts : x <= Max(DOMAIN accounts)
    BY <1>1, <1>2, LargestExists
  <2>2. NewId = Max(DOMAIN accounts) + 1
    BY <1>2 DEF NewId
  <2> HIDE DEF Max
  <2> QED BY <2>1, <2>2, <1>1 DEF Ids
<1>3. CASE IdReuse /\ DOMAIN accounts = {}
  BY <1>1, <1>3 DEF NewId, Ids
<1>4. CASE ~IdReuse
  BY <1>1, <1>4 DEF NewId, Ids
<1> QED BY <1>2, <1>3, <1>4

\* What went astray belongs to no account.
LEMMA AstrayIsNoAccount == Astray \notin {NoOne} \cup Ids
BY ZoneAccessAssumption DEF Astray, NoOne, Ids

\* Whoever bears a name is the account the name stands for.
LEMMA BearerIsTheAccount ==
    ASSUME TypeOK, AccountsAreDistinct, NEW name
    PROVE  /\ BornOf(name) \in {NoOne} \cup Ids /\ BornOf(name) \in Owner
           /\ \A a \in Bearing(name) : accounts[a].born = BornOf(name)
           /\ BornOf(name) # NoOne => Bearing(name) # {}
<1> USE ZoneAccessAssumption
<1>1. CASE Bearing(name) = {}
  BY <1>1 DEF BornOf, Owner
<1>2. CASE Bearing(name) # {}
  <2>1. PICK b \in Bearing(name) : BornOf(name) = accounts[b].born
    BY <1>2 DEF BornOf
  <2>2. b \in DOMAIN accounts /\ accounts[b].born \in Ids
    BY DEF Bearing, TypeOK, Account
  <2>3. \A a \in Bearing(name) : a = b
    BY <2>2 DEF Bearing, AccountsAreDistinct
  <2> QED BY <1>2, <2>1, <2>2, <2>3 DEF Ids, NoOne, Owner
<1> QED BY <1>1, <1>2

-----------------------------------------------------------------------------
(* The steps. *)

LEMMA InitIInv == Init => IInv
<1> SUFFICES ASSUME Init PROVE IInv
  OBVIOUS
<1> USE ZoneAccessAssumption DEF Init
<1>1. DOMAIN accounts = {} /\ DOMAIN members = {} /\ DOMAIN zones = {}
  OBVIOUS
<1>2. TypeOK
  BY <1>1 DEF TypeOK, Request, Ids
<1>3. \A w \in Workers : req[w].op \notin {"detach", "delete"}
  BY DEF Idle
<1> QED
  BY <1>1, <1>2, <1>3 DEF IInv, AccountsAreDistinct, ZonesKeepTheirAccount,
     MembersKeepTheirAccount, DeletionsSeeEveryZone

\* A handler that reads changes nothing but its request.
LEMMA ReadKeepsIInv ==
    ASSUME IInv, NEW w \in Workers, NEW request \in Request, Read(w, request),
           request.op = "detach" =>
             OwnedBy(request.born) \subseteq request.left \cup request.late,
           request.op = "delete" => OwnedBy(request.born) \subseteq request.late
    PROVE  IInv'
<1> USE DEF Read, IInv
<1>1. TypeOK'
  BY DEF TypeOK
<1>2. AccountsAreDistinct' /\ ZonesKeepTheirAccount' /\ MembersKeepTheirAccount'
  BY DEF AccountsAreDistinct, ZonesKeepTheirAccount, MembersKeepTheirAccount
<1>3. DeletionsSeeEveryZone'
  BY DEF TypeOK, DeletionsSeeEveryZone, OwnedBy
<1> QED BY <1>1, <1>2, <1>3

\* A handler that is done leaves the requests of the others alone.
LEMMA FinishedRequests ==
    ASSUME TypeOK, NEW w \in Workers, Finish(w)
    PROVE  /\ req' \in [Workers -> Request]
           /\ \A v \in Workers : req'[v].op \in Deletions => req'[v] = req[v]
BY DEF TypeOK, Finish, Request, Idle, Deletions

\* A refusal changes nothing.
LEMMA GiveUpKeepsIInv ==
    ASSUME IInv, NEW w \in Workers, GiveUp(w)
    PROVE  IInv'
<1> USE DEF GiveUp, IInv
<1>1. /\ req' \in [Workers -> Request]
      /\ \A v \in Workers : req'[v].op \in Deletions => req'[v] = req[v]
  BY FinishedRequests
<1>2. TypeOK'
  BY <1>1 DEF TypeOK
<1>3. AccountsAreDistinct' /\ ZonesKeepTheirAccount' /\ MembersKeepTheirAccount'
  BY DEF AccountsAreDistinct, ZonesKeepTheirAccount, MembersKeepTheirAccount
<1>4. DeletionsSeeEveryZone'
  BY <1>1 DEF DeletionsSeeEveryZone, OwnedBy, Deletions
<1> QED BY <1>2, <1>3, <1>4

\* The requests of those who delete an account.
DeletionRequest ==
    [op : {"detach"}, id : Ids, born : Ids, left : SUBSET Zones, late : SUBSET Zones]
    \cup [op : {"delete"}, id : Ids, born : Ids, seen : SUBSET Users,
          late : SUBSET Zones]

LEMMA DeletionRequests ==
    ASSUME TypeOK, NEW w \in Workers, req[w].op \in Deletions
    PROVE  req[w] \in DeletionRequest
BY DEF TypeOK, Deletions, Request, DeletionRequest, Idle

\* A zone gets an account that bears the name now, or goes astray, and
\* the deletions under way take note of it.
LEMMA SetAccountKeepsIInv ==
    ASSUME IInv, NEW w \in Workers, req[w].op \in {"create", "put"},
           SetAccount(w, req[w].zone)
    PROVE  IInv'
<1> USE ZoneAccessAssumption
<1> DEFINE z == req[w].zone
           name == req[w].name
           owner == IF req[w].owner = BornOf(name) THEN req[w].owner ELSE Astray
<1>1. z \in Zones /\ name \in Names \cup {NoAccount} /\ owner \in Owner
  BY DEF IInv, TypeOK, Request, Idle, Owner
<1>2. owner \notin {NoOne, Astray} => \E a \in DOMAIN accounts :
                          accounts[a].born = owner /\ accounts[a].name = name
  <2>1. /\ \A a \in Bearing(name) : accounts[a].born = BornOf(name)
        /\ BornOf(name) # NoOne => Bearing(name) # {}
    BY BearerIsTheAccount DEF IInv
  <2> QED BY <2>1 DEF Bearing
<1>3. /\ zones' = [y \in DOMAIN zones \cup {z} |->
                     IF y = z THEN [account |-> name, owner |-> owner] ELSE zones[y]]
      /\ req' = [v \in Workers |->
                   IF v = w THEN Idle
                   ELSE IF Overlooks(v, z, owner)
                     THEN [req[v] EXCEPT !.late = @ \cup {z}]
                     ELSE req[v]]
      /\ accounts' = accounts /\ created' = created /\ members' = members
  BY DEF SetAccount
<1> HIDE DEF z, name, owner
<1>4. /\ DOMAIN zones' = DOMAIN zones \cup {z}
      /\ zones'[z] = [account |-> name, owner |-> owner]
      /\ \A y \in DOMAIN zones : y # z => zones'[y] = zones[y]
  BY <1>3
<1>5. zones' \in [DOMAIN zones' -> Zone] /\ DOMAIN zones' \subseteq Zones
  BY <1>1, <1>3, <1>4 DEF IInv, TypeOK, Zone
<1>6. req' \in [Workers -> Request]
  <2> SUFFICES ASSUME NEW v \in Workers PROVE req'[v] \in Request
    BY <1>3
  <2>1. CASE v # w /\ Overlooks(v, z, owner)
    <3>1. req[v] \in DeletionRequest
      BY <2>1, DeletionRequests DEF IInv, Overlooks
    <3>2. req'[v] = [req[v] EXCEPT !.late = @ \cup {z}]
      BY <1>3, <2>1
    <3> QED BY <3>1, <3>2, <1>1 DEF DeletionRequest, Request
  <2>2. CASE ~(v # w /\ Overlooks(v, z, owner))
    BY <1>3, <2>2 DEF IInv, TypeOK, Request
  <2> QED BY <2>1, <2>2
<1>7. TypeOK'
  BY <1>3, <1>5, <1>6 DEF IInv, TypeOK
<1>8. ZonesKeepTheirAccount'
  BY <1>2, <1>3, <1>4 DEF IInv, ZonesKeepTheirAccount
<1>9. DeletionsSeeEveryZone'
  <2> SUFFICES ASSUME NEW v \in Workers, req'[v].op \in Deletions,
                      NEW y \in DOMAIN zones', zones'[y].owner = req'[v].born
               PROVE  \/ y \in req'[v].late
                      \/ req'[v].op = "detach" /\ y \in req'[v].left
    BY DEF DeletionsSeeEveryZone, OwnedBy, Deletions
  <2>1. v # w /\ (req'[v] = req[v] \/ req[v].op \in Deletions)
    BY <1>3 DEF Idle, Deletions, Overlooks
  <2>2. req[v] \in DeletionRequest /\ req[v].op \in Deletions
    BY <2>1, DeletionRequests DEF IInv
  <2>3. /\ req'[v].born = req[v].born /\ req'[v].op = req[v].op
        /\ req[v].late \subseteq req'[v].late
        /\ req[v].op = "detach" => req'[v].left = req[v].left
        /\ req[v].born = owner =>
             z \in req'[v].late \/ (req[v].op = "detach" /\ z \in req[v].left)
    BY <1>3, <2>1, <2>2 DEF DeletionRequest, Overlooks
  <2>4. CASE y = z
    BY <2>3, <2>4, <1>4
  <2>5. CASE y # z
    <3>1. y \in OwnedBy(req[v].born)
      BY <2>3, <2>5, <1>4 DEF OwnedBy
    <3>2. \/ y \in req[v].late
          \/ req[v].op = "detach" /\ y \in req[v].left
      BY <3>1, <2>2 DEF IInv, DeletionsSeeEveryZone, Deletions
    <3> QED BY <3>2, <2>3
  <2> QED BY <2>4, <2>5
<1>10. AccountsAreDistinct' /\ MembersKeepTheirAccount'
  BY <1>3 DEF IInv, AccountsAreDistinct, MembersKeepTheirAccount
<1> QED BY <1>7, <1>8, <1>9, <1>10 DEF IInv

\* The three ways to change the memberships: they leave the zones, the accounts and
\* the requests of the others alone.
LEMMA NewMembersKeepIInv ==
    ASSUME IInv, NEW w \in Workers, Finish(w),
           UNCHANGED <<accounts, created, zones>>,
           DOMAIN members' \subseteq Ids \X Users,
           members' \in [DOMAIN members' -> Member],
           MembersKeepTheirAccount'
    PROVE  IInv'
<1>1. /\ req' \in [Workers -> Request]
      /\ \A v \in Workers : req'[v].op \in Deletions => req'[v] = req[v]
  BY FinishedRequests DEF IInv
<1>2. TypeOK'
  BY <1>1 DEF IInv, TypeOK
<1>3. AccountsAreDistinct' /\ ZonesKeepTheirAccount'
  BY DEF IInv, AccountsAreDistinct, ZonesKeepTheirAccount
<1>4. DeletionsSeeEveryZone'
  BY <1>1 DEF IInv, DeletionsSeeEveryZone, OwnedBy, Deletions
<1> QED BY <1>2, <1>3, <1>4 DEF IInv

\* The lookup finds the account that bears the name at that moment.
LEMMA LookUpKeepsIInv ==
    ASSUME IInv, NEW w \in Workers, LookUpGrant(w) \/ LookUpRevoke(w)
    PROVE  IInv'
<1> USE ZoneAccessAssumption
<1>1. CASE GiveUp(w)
  BY <1>1, GiveUpKeepsIInv
<1>2. ASSUME NEW a \in Bearing(req[w].name), req[w].op = "grant",
             NEW born \in Owner, NEW found \in SUBSET Roles,
             Read(w, [op |-> "upsert", id |-> a, user |-> req[w].user,
                      role |-> req[w].role, born |-> born, found |-> found])
      PROVE  IInv'
  <2>1. a \in Ids /\ req[w].user \in Users /\ req[w].role \in Roles
    BY <1>2 DEF Bearing, IInv, TypeOK, Request, Idle
  <2>2. [op |-> "upsert", id |-> a, user |-> req[w].user, role |-> req[w].role,
         born |-> born, found |-> found] \in Request
    BY <2>1 DEF Request
  <2> QED BY <1>2, <2>2, ReadKeepsIInv
<1>3. CASE LookUpGrant(w) /\ ~GiveUp(w)
  <2>1. PICK a \in Bearing(req[w].name) :
          Read(w, [op |-> "upsert", id |-> a, user |-> req[w].user,
                   role |-> req[w].role,
                   born |-> IF req[w].born = accounts[a].born THEN req[w].born ELSE Astray,
                   found |-> {members[m].role : m \in DOMAIN members
                                                       \cap {<<a, req[w].user>>}}])
    BY <1>3 DEF LookUpGrant
  <2>2. {members[m].role : m \in DOMAIN members \cap {<<a, req[w].user>>}} \subseteq Roles
    BY DEF IInv, TypeOK, Member
  <2>3. req[w].op = "grant" /\ req[w].born \in Owner /\ Astray \in Owner
    BY <1>3 DEF LookUpGrant, IInv, TypeOK, Request, Idle, Owner
  <2> QED BY <1>2, <2>1, <2>2, <2>3
<1>4. CASE LookUpRevoke(w) /\ ~GiveUp(w)
  <2>1. PICK a \in Bearing(req[w].name) :
          Read(w, [op |-> "drop", id |-> a, user |-> req[w].user])
    BY <1>4 DEF LookUpRevoke
  <2>2. a \in Ids /\ req[w].user \in Users
    BY <1>4 DEF LookUpRevoke, Bearing, IInv, TypeOK, Request, Idle
  <2>3. [op |-> "drop", id |-> a, user |-> req[w].user] \in Request
    BY <2>2 DEF Request
  <2> QED BY <2>1, <2>3, ReadKeepsIInv
<1> QED BY <1>1, <1>3, <1>4

\* What is written under an id is of the account that has the id, or astray.
LEMMA GivenIsOfTheAccount ==
    ASSUME NEW w \in Workers, NEW role \in Roles, req[w].born \in Owner
    PROVE  /\ Given(w, role) \in Member
           /\ Given(w, role).born # Astray =>
                \E a \in DOMAIN accounts :
                  a = req[w].id /\ accounts[a].born = Given(w, role).born
BY DEF Given, Member, Owner

\* A row written on another account than the one looked up is astray.
LEMMA CommitUpsertKeepsIInv ==
    ASSUME IInv, NEW w \in Workers, CommitUpsert(w)
    PROVE  IInv'
<1> USE ZoneAccessAssumption
<1> DEFINE row == <<req[w].id, req[w].user>>
           new == Given(w, req[w].role)
<1>1. CASE GiveUp(w)
  BY <1>1, GiveUpKeepsIInv
<1>2. CASE SetMember(w, req[w].role)
  <2>1. /\ req[w].id \in Ids /\ req[w].user \in Users /\ req[w].role \in Roles
        /\ req[w].born \in Owner
    BY DEF CommitUpsert, IInv, TypeOK, Request, Idle
  <2>2. /\ members' = [m \in DOMAIN members \cup {row} |->
                         IF m = row THEN new ELSE members[m]]
        /\ Finish(w) /\ UNCHANGED <<accounts, created, zones>>
    BY <1>2 DEF SetMember
  <2>3. /\ new \in Member
        /\ new.born # Astray =>
             row[1] \in DOMAIN accounts /\ accounts[row[1]].born = new.born
    BY <2>1, GivenIsOfTheAccount
  <2>4. row \in Ids \X Users
    BY <2>1
  <2> HIDE DEF row, new
  <2>5. /\ DOMAIN members' = DOMAIN members \cup {row}
        /\ members'[row] = new
        /\ \A m \in DOMAIN members : m # row => members'[m] = members[m]
    BY <2>2
  <2>6. members' \in [DOMAIN members' -> Member]
    <3>1. \A m \in DOMAIN members' : members'[m] \in Member
      BY <2>3, <2>5 DEF IInv, TypeOK
    <3> QED BY <2>2, <3>1
  <2>7. DOMAIN members' \subseteq Ids \X Users
    BY <2>4, <2>5 DEF IInv, TypeOK
  <2>8. MembersKeepTheirAccount'
    BY <2>2, <2>3, <2>5 DEF IInv, MembersKeepTheirAccount
  <2> QED BY <2>2, <2>6, <2>7, <2>8, NewMembersKeepIInv
<1> QED BY <1>1, <1>2 DEF CommitUpsert

\* Fewer memberships are as good as before.
LEMMA CommitDropKeepsIInv ==
    ASSUME IInv, NEW w \in Workers, CommitDrop(w)
    PROVE  IInv'
<1> DEFINE row == <<req[w].id, req[w].user>>
<1>1. members' = [m \in DOMAIN members \ {row} |-> members[m]]
  BY DEF CommitDrop
<1>2. UNCHANGED <<accounts, created, zones>> /\ Finish(w)
  BY DEF CommitDrop
<1> HIDE DEF row
<1>3. DOMAIN members' \subseteq Ids \X Users /\ members' \in [DOMAIN members' -> Member]
  BY <1>1 DEF IInv, TypeOK
<1>4. MembersKeepTheirAccount'
  BY <1>1, <1>2 DEF IInv, MembersKeepTheirAccount
<1> QED BY <1>2, <1>3, <1>4, NewMembersKeepIInv

\* The rows are written under the id, and are astray when that has become another
\* account's.
LEMMA CommitAssignKeepsIInv ==
    ASSUME IInv, NEW w \in Workers, CommitAssign(w)
    PROVE  IInv'
<1> USE ZoneAccessAssumption
<1> DEFINE a    == req[w].id
           seen == req[w].seen
           rows == {a} \X req[w].users
           new  == Given(w, "admin")
<1>1. CASE GiveUp(w)
  BY <1>1, GiveUpKeepsIInv
<1>2. CASE ~GiveUp(w)
  <2>1. a \in Ids /\ rows \subseteq Ids \X Users /\ req[w].born \in Owner
    BY DEF CommitAssign, IInv, TypeOK, Request, Idle, Owner
  <2>2. /\ members' = [m \in (DOMAIN members \ ({a} \X seen)) \cup rows |->
                         IF m \in rows THEN new ELSE members[m]]
        /\ Finish(w) /\ UNCHANGED <<accounts, created, zones>>
    BY <1>2 DEF CommitAssign
  <2>3. /\ new \in Member
        /\ \A m \in rows : new.born # Astray =>
             m[1] \in DOMAIN accounts /\ accounts[m[1]].born = new.born
    BY <2>1, GivenIsOfTheAccount DEF Roles
  <2> HIDE DEF a, seen, rows, new
  <2>4. /\ DOMAIN members' = (DOMAIN members \ ({a} \X seen)) \cup rows
        /\ \A m \in DOMAIN members' :
             members'[m] = IF m \in rows THEN new ELSE members[m]
    BY <2>2
  <2>5. DOMAIN members' \subseteq Ids \X Users
    BY <2>1, <2>4 DEF IInv, TypeOK
  <2>6. members' \in [DOMAIN members' -> Member]
    <3>1. \A m \in DOMAIN members' : members'[m] \in Member
      BY <2>3, <2>4 DEF IInv, TypeOK
    <3> QED BY <2>2, <3>1
  <2>7. MembersKeepTheirAccount'
    BY <2>2, <2>3, <2>4 DEF IInv, MembersKeepTheirAccount
  <2> QED BY <2>2, <2>5, <2>6, <2>7, NewMembersKeepIInv
<1> QED BY <1>1, <1>2

\* Fewer zones are as good as before.
LEMMA CommitRemoveKeepsIInv ==
    ASSUME IInv, NEW w \in Workers, CommitRemove(w)
    PROVE  IInv'
<1>1. /\ zones' = [z \in DOMAIN zones \ {req[w].zone} |-> zones[z]]
      /\ Finish(w) /\ UNCHANGED <<accounts, created, members>>
  BY DEF CommitRemove
<1>2. /\ req' \in [Workers -> Request]
      /\ \A v \in Workers : req'[v].op \in Deletions => req'[v] = req[v]
  BY <1>1, FinishedRequests DEF IInv
<1>3. TypeOK'
  BY <1>1, <1>2 DEF IInv, TypeOK
<1>4. AccountsAreDistinct' /\ ZonesKeepTheirAccount' /\ MembersKeepTheirAccount'
  BY <1>1 DEF IInv, AccountsAreDistinct, ZonesKeepTheirAccount, MembersKeepTheirAccount
<1>5. DeletionsSeeEveryZone'
  BY <1>1, <1>2 DEF IInv, DeletionsSeeEveryZone, OwnedBy, Deletions
<1> QED BY <1>3, <1>4, <1>5 DEF IInv

\* A detached zone has no account, and needs none.
LEMMA DetachZoneKeepsIInv ==
    ASSUME IInv, NEW w \in Workers, NEW z \in Zones, DetachZone(w, z)
    PROVE  IInv'
<1> USE ZoneAccessAssumption
<1>1. /\ z \in DOMAIN zones
      /\ zones' = [zones EXCEPT ![z] = [account |-> NoAccount, owner |-> NoOne]]
      /\ req' = [req EXCEPT ![w].left = @ \ {z}]
      /\ UNCHANGED <<accounts, created, members>>
  BY DEF DetachZone
<1>2. req[w] \in [op : {"detach"}, id : Ids, born : Ids, left : SUBSET Zones,
                  late : SUBSET Zones]
  BY DEF DetachZone, IInv, TypeOK, Request, Idle
<1>3. req' \in [Workers -> Request]
  <2>1. [req[w] EXCEPT !.left = @ \ {z}] \in Request
    BY <1>2 DEF Request
  <2> QED BY <1>1, <2>1 DEF IInv, TypeOK
<1>4. zones' \in [DOMAIN zones' -> Zone] /\ DOMAIN zones' = DOMAIN zones
  BY <1>1 DEF IInv, TypeOK, Zone, Owner
<1>5. TypeOK'
  BY <1>1, <1>3, <1>4 DEF IInv, TypeOK
<1>6. /\ zones'[z].owner = NoOne
      /\ \A y \in DOMAIN zones : y # z => zones'[y] = zones[y]
  BY <1>1 DEF IInv, TypeOK
<1>7. AccountsAreDistinct' /\ MembersKeepTheirAccount'
  BY <1>1 DEF IInv, AccountsAreDistinct, MembersKeepTheirAccount
<1>8. ZonesKeepTheirAccount'
  BY <1>1, <1>4, <1>6 DEF IInv, ZonesKeepTheirAccount
<1>9. DeletionsSeeEveryZone'
  <2> SUFFICES ASSUME NEW v \in Workers, req'[v].op \in Deletions,
                      NEW y \in DOMAIN zones', zones'[y].owner = req'[v].born
               PROVE  \/ y \in req'[v].late
                      \/ req'[v].op = "detach" /\ y \in req'[v].left
    BY DEF DeletionsSeeEveryZone, OwnedBy, Deletions
  <2>1. /\ req'[v].op = req[v].op /\ req'[v].born = req[v].born
        /\ req'[v].late = req[v].late
        /\ req[v].op = "detach" => req[v].left \ {z} \subseteq req'[v].left
    <3>1. CASE v = w
      BY <3>1, <1>1, <1>2 DEF IInv, TypeOK
    <3>2. CASE v # w
      BY <3>2, <1>1 DEF IInv, TypeOK
    <3> QED BY <3>1, <3>2
  <2>2. req[v].born \in Ids
    BY <2>1, DeletionRequests DEF IInv, DeletionRequest
  <2>3. y # z
    BY <1>6, <2>1, <2>2 DEF Ids, NoOne
  <2>4. y \in OwnedBy(req[v].born)
    BY <1>4, <1>6, <2>1, <2>3 DEF OwnedBy
  <2> QED BY <2>1, <2>3, <2>4 DEF IInv, DeletionsSeeEveryZone, Deletions
<1> QED BY <1>5, <1>7, <1>8, <1>9 DEF IInv

\* A new account disturbs no older one.
LEMMA CreateAccountKeepsIInv ==
    ASSUME IInv, NEW name \in Names, CreateAccount(name)
    PROVE  IInv'
<1> USE ZoneAccessAssumption
<1>1. /\ NewId \in Ids /\ NewId \notin DOMAIN accounts /\ NewId <= created + 1
      /\ created \in Nat /\ created < MaxAccounts
  BY NewIdIsNew DEF CreateAccount, IInv, TypeOK
<1> DEFINE new == NewId
<1>2. /\ accounts' = [a \in DOMAIN accounts \cup {new} |->
                        IF a = new THEN [name |-> name, born |-> created + 1]
                        ELSE accounts[a]]
      /\ created' = created + 1
      /\ UNCHANGED <<members, zones, req>>
      /\ Bearing(name) = {}
  BY DEF CreateAccount
<1> HIDE DEF new
<1>3. /\ new \in Ids /\ new \notin DOMAIN accounts /\ new <= created + 1
  BY <1>1 DEF new
<1>4. /\ DOMAIN accounts' = DOMAIN accounts \cup {new}
      /\ accounts'[new] = [name |-> name, born |-> created + 1]
      /\ \A a \in DOMAIN accounts : accounts'[a] = accounts[a]
  BY <1>2, <1>3
<1>5. TypeOK'
  <2>1. \A a \in DOMAIN accounts' : accounts'[a] \in Account
    BY <1>1, <1>4 DEF IInv, TypeOK, Account, Ids
  <2>2. accounts' \in [DOMAIN accounts' -> Account] /\ DOMAIN accounts' \subseteq Ids
    BY <1>2, <1>3, <1>4, <2>1 DEF IInv, TypeOK
  <2> QED BY <1>1, <1>2, <2>2 DEF IInv, TypeOK
<1>6. AccountsAreDistinct'
  <2>1. \A a \in DOMAIN accounts : /\ a \in Nat /\ accounts[a].born \in Nat
                                   /\ a <= created /\ accounts[a].born <= created
                                   /\ accounts[a].name # name
    BY <1>2 DEF IInv, TypeOK, AccountsAreDistinct, Account, Ids, Bearing
  <2>2. \A a \in DOMAIN accounts' : a <= created' /\ accounts'[a].born <= created'
    BY <1>1, <1>2, <1>3, <1>4, <2>1
  <2>3. ASSUME NEW a \in DOMAIN accounts', NEW b \in DOMAIN accounts',
               accounts'[a].name = accounts'[b].name
                 \/ accounts'[a].born = accounts'[b].born
        PROVE  a = b
    <3>1. CASE a # new /\ b # new
      BY <1>4, <2>3, <3>1 DEF IInv, AccountsAreDistinct
    <3>2. CASE a = new \/ b = new
      BY <1>1, <1>4, <2>1, <2>3, <3>2
    <3> QED BY <3>1, <3>2
  <2> QED BY <2>2, <2>3 DEF AccountsAreDistinct
<1>7. ZonesKeepTheirAccount' /\ MembersKeepTheirAccount'
  BY <1>2, <1>4 DEF IInv, ZonesKeepTheirAccount, MembersKeepTheirAccount
<1>8. DeletionsSeeEveryZone'
  BY <1>2 DEF IInv, DeletionsSeeEveryZone, OwnedBy
<1> QED BY <1>5, <1>6, <1>7, <1>8 DEF IInv

\* That zones go astray changes nothing else about them.
LEMMA DisownedZones ==
    ASSUME TypeOK, NEW zs, zones' = Disowned(zs)
    PROVE  /\ DOMAIN zones' = DOMAIN zones
           /\ zones' \in [DOMAIN zones -> Zone]
           /\ \A z \in DOMAIN zones : IF z \in zs THEN zones'[z].owner = Astray
                                      ELSE zones'[z] = zones[z]
BY DEF Disowned, TypeOK, Zone, Owner

\* Fewer zones have an owner, and the requests are as they were.
LEMMA DisownedDeletions ==
    ASSUME IInv, NEW zs, zones' = Disowned(zs),
           \A w \in Workers : req'[w].op \in Deletions => req'[w] = req[w]
    PROVE  DeletionsSeeEveryZone'
<1> USE ZoneAccessAssumption
<1> SUFFICES ASSUME NEW v \in Workers, req'[v].op \in Deletions,
                    NEW y \in DOMAIN zones', zones'[y].owner = req'[v].born
             PROVE  \/ y \in req'[v].late
                    \/ req'[v].op = "detach" /\ y \in req'[v].left
  BY DEF DeletionsSeeEveryZone, OwnedBy, Deletions
<1>1. req'[v] = req[v] /\ req[v].born \in Ids
  BY DeletionRequests DEF IInv, DeletionRequest
<1>2. y \in DOMAIN zones /\ zones'[y] = zones[y]
  BY <1>1, AstrayIsNoAccount, DisownedZones DEF IInv
<1> QED BY <1>1, <1>2 DEF IInv, DeletionsSeeEveryZone, OwnedBy, Deletions

\* The zones of a renamed account carry a name that is not its name any more, and
\* those are disowned.
LEMMA RenameAccountKeepsIInv ==
    ASSUME IInv, NEW a \in Ids, NEW name \in Names, RenameAccount(a, name)
    PROVE  IInv'
<1> USE ZoneAccessAssumption
<1>1. /\ a \in DOMAIN accounts /\ Bearing(name) = {}
      /\ accounts' = [accounts EXCEPT ![a].name = name]
      /\ zones' = Disowned(OwnedBy(accounts[a].born))
      /\ UNCHANGED <<created, members, req>>
  BY DEF RenameAccount
<1>2. /\ DOMAIN accounts' = DOMAIN accounts
      /\ accounts' \in [DOMAIN accounts -> Account]
      /\ accounts'[a].name = name
      /\ \A b \in DOMAIN accounts : /\ accounts'[b].born = accounts[b].born
                                    /\ b # a => accounts'[b] = accounts[b]
  BY <1>1 DEF IInv, TypeOK, Account
<1>3. /\ DOMAIN zones' = DOMAIN zones
      /\ zones' \in [DOMAIN zones -> Zone]
      /\ \A z \in DOMAIN zones :
           IF z \in OwnedBy(accounts[a].born) THEN zones'[z].owner = Astray
           ELSE zones'[z] = zones[z]
  BY <1>1, DisownedZones DEF IInv
<1>4. TypeOK'
  BY <1>1, <1>2, <1>3 DEF IInv, TypeOK
<1>5. AccountsAreDistinct'
  <2>1. \A b \in DOMAIN accounts : accounts[b].name # name
    BY <1>1 DEF Bearing
  <2> QED BY <1>1, <1>2, <2>1 DEF IInv, AccountsAreDistinct
<1>6. ZonesKeepTheirAccount'
  <2> SUFFICES ASSUME NEW z \in DOMAIN zones, zones'[z].owner \notin {NoOne, Astray}
               PROVE  \E b \in DOMAIN accounts : /\ accounts'[b].born = zones'[z].owner
                                                 /\ accounts'[b].name = zones'[z].account
    BY <1>2, <1>3 DEF ZonesKeepTheirAccount
  <2>1. z \notin OwnedBy(accounts[a].born) /\ zones'[z] = zones[z]
    BY <1>3
  <2>2. PICK b \in DOMAIN accounts : /\ accounts[b].born = zones[z].owner
                                     /\ accounts[b].name = zones[z].account
    BY <2>1 DEF IInv, ZonesKeepTheirAccount
  <2>3. b # a
    BY <2>1, <2>2 DEF OwnedBy
  <2> QED BY <1>2, <2>1, <2>2, <2>3
<1>7. MembersKeepTheirAccount'
  BY <1>1, <1>2 DEF IInv, MembersKeepTheirAccount
<1>8. DeletionsSeeEveryZone'
  BY <1>1, DisownedDeletions
<1> QED BY <1>4, <1>5, <1>6, <1>7, <1>8 DEF IInv

\* The zones that carry the name are all the account owns.
LEMMA ListIsComplete ==
    ASSUME IInv, NEW a \in DOMAIN accounts
    PROVE  OwnedBy(accounts[a].born)
             \subseteq {z \in DOMAIN zones : zones[z].account = accounts[a].name}
<1> USE ZoneAccessAssumption
<1> SUFFICES ASSUME NEW z \in DOMAIN zones, zones[z].owner = accounts[a].born
             PROVE  zones[z].account = accounts[a].name
  BY DEF OwnedBy
<1>1. zones[z].owner \notin {NoOne, Astray}
  BY AstrayIsNoAccount DEF IInv, TypeOK, Account, Ids, NoOne
<1>2. PICK b \in DOMAIN accounts : /\ accounts[b].born = zones[z].owner
                                   /\ accounts[b].name = zones[z].account
  BY <1>1 DEF IInv, ZonesKeepTheirAccount
<1>3. b = a
  BY <1>2 DEF IInv, AccountsAreDistinct
<1> QED BY <1>2, <1>3

\* Once all zones on the list are detached, what the account owns came later.
LEMMA ListMembersKeepsIInv ==
    ASSUME IInv, NEW w \in Workers, ListMembers(w)
    PROVE  IInv'
<1> USE ZoneAccessAssumption
<1>1. req[w] \in DeletionRequest /\ req[w].op = "detach" /\ req[w].left = {}
  BY DeletionRequests DEF ListMembers, IInv, Deletions
<1>2. OwnedBy(req[w].born) \subseteq req[w].late
  BY <1>1 DEF IInv, DeletionsSeeEveryZone
<1> DEFINE request == [op |-> "delete", id |-> req[w].id, born |-> req[w].born,
                       late |-> req[w].late, seen |-> MembersOf(req[w].id)]
<1>3. MembersOf(req[w].id) \subseteq Users
  BY DEF MembersOf
<1>4. request \in Request
  BY <1>1, <1>3 DEF DeletionRequest, Request
<1>5. Read(w, request)
  BY DEF ListMembers
<1> QED BY <1>2, <1>4, <1>5, ReadKeepsIInv

\* What the account still owns came after the list and is disowned; so is all of a
\* later account that has the id.
LEMMA CommitDeleteAccountKeepsIInv ==
    ASSUME IInv, NEW w \in Workers, CommitDeleteAccount(w), ~GiveUp(w)
    PROVE  IInv'
<1> USE ZoneAccessAssumption
<1> DEFINE a     == req[w].id
           later == {a} \X (MembersOf(a) \ req[w].seen)
           zs    == LeftBehind(w)
<1>1. /\ req[w].op = "delete"
      /\ accounts' = [b \in DOMAIN accounts \ {a} |-> accounts[b]]
      /\ members' = [m \in DOMAIN members \ ({a} \X req[w].seen) |->
                       IF m \in later THEN [members[m] EXCEPT !.born = Astray]
                       ELSE members[m]]
      /\ zones' = Disowned(zs)
      /\ Finish(w) /\ created' = created
  BY DEF CommitDeleteAccount
<1>2. OwnedBy(req[w].born) \subseteq req[w].late
  BY <1>1 DEF IInv, DeletionsSeeEveryZone
<1>3. a \in DOMAIN accounts => OwnedBy(accounts[a].born) \subseteq zs
  BY <1>2 DEF LeftBehind
<1>11. \A m \in DOMAIN members :
         m \notin {a} \X req[w].seen /\ m \notin later => m[1] # a
  BY DEF IInv, TypeOK, MembersOf
<1>12. /\ DOMAIN members' \subseteq DOMAIN members
       /\ members' \in [DOMAIN members' -> Member]
       /\ \A m \in DOMAIN members' :
            \/ members'[m].born = Astray
            \/ m[1] # a /\ members'[m] = members[m]
  <2> HIDE DEF a, later, zs
  <2>1. \A m \in DOMAIN members : /\ members[m] \in Member
                                  /\ [members[m] EXCEPT !.born = Astray] \in Member
                                  /\ [members[m] EXCEPT !.born = Astray].born = Astray
    BY DEF IInv, TypeOK, Member, Owner
  <2> QED BY <1>1, <1>11, <2>1
<1> HIDE DEF a, later, zs
<1>4. /\ req' \in [Workers -> Request]
      /\ \A v \in Workers : req'[v].op \in Deletions => req'[v] = req[v]
  BY <1>1, FinishedRequests DEF IInv
<1>5. /\ DOMAIN zones' = DOMAIN zones
      /\ zones' \in [DOMAIN zones -> Zone]
      /\ \A z \in DOMAIN zones : IF z \in zs THEN zones'[z].owner = Astray
                                 ELSE zones'[z] = zones[z]
  BY <1>1, DisownedZones DEF IInv
<1>6. TypeOK'
  BY <1>1, <1>4, <1>5, <1>12 DEF IInv, TypeOK
<1>7. AccountsAreDistinct'
  BY <1>1 DEF IInv, AccountsAreDistinct
<1>8. ZonesKeepTheirAccount'
  <2> SUFFICES ASSUME NEW z \in DOMAIN zones, zones'[z].owner \notin {NoOne, Astray}
               PROVE  \E b \in DOMAIN accounts' :
                        /\ accounts'[b].born = zones'[z].owner
                        /\ accounts'[b].name = zones'[z].account
    BY <1>5 DEF ZonesKeepTheirAccount
  <2>1. z \notin zs /\ zones'[z] = zones[z]
    BY <1>5
  <2>2. PICK b \in DOMAIN accounts : /\ accounts[b].born = zones[z].owner
                                     /\ accounts[b].name = zones[z].account
    BY <2>1 DEF IInv, ZonesKeepTheirAccount
  <2>3. b # a
    BY <1>3, <2>1, <2>2 DEF OwnedBy
  <2> QED BY <1>1, <2>1, <2>2, <2>3
<1>9. MembersKeepTheirAccount'
  BY <1>1, <1>12 DEF IInv, MembersKeepTheirAccount
<1>10. DeletionsSeeEveryZone'
  BY <1>1, <1>4, DisownedDeletions
<1> QED BY <1>6, <1>7, <1>8, <1>9, <1>10 DEF IInv

-----------------------------------------------------------------------------
(* The theorems. *)

\* Whatever a handler reads keeps the invariant.
LEMMA ReadStepsKeepIInv ==
    ASSUME IInv, NEW w \in Workers,
           (\E c \in Callers : ReadZoneStep(w, c)) \/ ReadAccountStep(w)
    PROVE  IInv'
<1> USE ZoneAccessAssumption
<1>1. ASSUME NEW c \in Callers, NEW z \in Zones, NEW name \in Names \cup {NoAccount},
             ReadCreate(w, c, z, name)
      PROVE  IInv'
  <2>1. [op |-> "create", zone |-> z, name |-> name, owner |-> BornOf(name)] \in Request
    BY BearerIsTheAccount DEF IInv, Request
  <2> QED BY <1>1, <2>1, ReadKeepsIInv DEF ReadCreate
<1>2. ASSUME NEW c \in Callers, NEW z \in Zones, NEW name \in Names \cup {NoAccount},
             ReadUpdate(w, c, z, name)
      PROVE  IInv'
  <2> DEFINE owner == IF name = zones[z].account THEN zones[z].owner ELSE BornOf(name)
  <2>1. owner \in Owner
    BY <1>2, BearerIsTheAccount DEF ReadUpdate, IInv, TypeOK, Zone
  <2>2. [op |-> "put", super |-> c = Super, zone |-> z, name |-> name,
         owner |-> owner] \in Request
    BY <2>1 DEF Request
  <2> QED BY <1>2, <2>2, ReadKeepsIInv DEF ReadUpdate
<1>3. ASSUME NEW c \in Callers, NEW k \in Zones, NEW z \in Zones, ReadJoin(w, c, k, z)
      PROVE  IInv'
  <2>1. [op |-> "put", super |-> c = Super, zone |-> z, name |-> zones[z].account,
         owner |-> zones[z].owner] \in Request
    BY <1>3 DEF ReadJoin, IInv, TypeOK, Zone, Request
  <2> QED BY <1>3, <2>1, ReadKeepsIInv DEF ReadJoin
<1>4. ASSUME NEW c \in Callers, NEW z \in Zones, ReadRemove(w, c, z)
      PROVE  IInv'
  <2>1. [op |-> "remove", zone |-> z] \in Request
    BY DEF Request
  <2> QED BY <1>4, <2>1, ReadKeepsIInv DEF ReadRemove
<1>5. ASSUME NEW c \in Callers, NEW z \in Zones, NEW u \in Users, NEW role \in Roles,
             ReadGrant(w, c, z, u, role)
      PROVE  IInv'
  <2>1. zones[z].account \in Names
    BY <1>5 DEF ReadGrant, IInv, TypeOK, Zone
  <2>2. [op |-> "grant", name |-> zones[z].account, user |-> u, role |-> role,
         born |-> BornOf(zones[z].account)] \in Request
    BY <2>1, BearerIsTheAccount DEF IInv, Request
  <2> QED BY <1>5, <2>2, ReadKeepsIInv DEF ReadGrant
<1>6. ASSUME NEW c \in Callers, NEW z \in Zones, NEW u \in Users, ReadRevoke(w, c, z, u)
      PROVE  IInv'
  <2>1. [op |-> "revoke", name |-> zones[z].account, user |-> u] \in Request
    BY <1>6 DEF ReadRevoke, IInv, TypeOK, Zone, Request
  <2> QED BY <1>6, <2>1, ReadKeepsIInv DEF ReadRevoke
<1>7. ASSUME NEW a \in Ids, NEW us \in SUBSET Users, ReadAssign(w, a, us)
      PROVE  IInv'
  <2>1. [op |-> "assign", id |-> a, born |-> accounts[a].born, users |-> us,
         seen |-> MembersOf(a)] \in Request
    BY <1>7 DEF ReadAssign, IInv, TypeOK, Account, MembersOf, Request
  <2> QED BY <1>7, <2>1, ReadKeepsIInv DEF ReadAssign
<1>8. ASSUME NEW a \in Ids, ReadDeleteAccount(w, a)
      PROVE  IInv'
  <2> DEFINE left == {z \in DOMAIN zones : zones[z].account = accounts[a].name}
  <2>1. OwnedBy(accounts[a].born) \subseteq left
    BY <1>8, ListIsComplete DEF ReadDeleteAccount
  <2>2. accounts[a].born \in Ids /\ left \subseteq Zones
    BY <1>8 DEF ReadDeleteAccount, IInv, TypeOK, Account
  <2>3. Read(w, [op |-> "detach", id |-> a, born |-> accounts[a].born, late |-> {},
                 left |-> left])
    BY <1>8 DEF ReadDeleteAccount
  <2> HIDE DEF left
  <2>4. [op |-> "detach", id |-> a, born |-> accounts[a].born, late |-> {},
         left |-> left] \in Request
    BY <2>2 DEF Request
  <2> QED BY <2>1, <2>3, <2>4, ReadKeepsIInv
<1> QED
  BY <1>1, <1>2, <1>3, <1>4, <1>5, <1>6, <1>7, <1>8 DEF ReadZoneStep, ReadAccountStep

\* So does whatever it carries out.
LEMMA CommitStepsKeepIInv ==
    ASSUME IInv, NEW w \in Workers, CommitStep(w)
    PROVE  IInv'
<1>1. CASE CommitCreate(w)
  BY <1>1, GiveUpKeepsIInv, SetAccountKeepsIInv DEF CommitCreate
<1>2. CASE CommitPut(w)
  BY <1>2, GiveUpKeepsIInv, SetAccountKeepsIInv DEF CommitPut
<1>3. CASE CommitRemove(w)
  BY <1>3, CommitRemoveKeepsIInv
<1>4. CASE LookUpGrant(w) \/ LookUpRevoke(w)
  BY <1>4, LookUpKeepsIInv
<1>5. CASE CommitUpsert(w)
  BY <1>5, CommitUpsertKeepsIInv
<1>10. CASE CommitDrop(w)
  BY <1>10, CommitDropKeepsIInv
<1>11. CASE ListMembers(w)
  BY <1>11, ListMembersKeepsIInv
<1>6. CASE CommitAssign(w)
  BY <1>6, CommitAssignKeepsIInv
<1>7. ASSUME NEW z \in Zones, DetachZone(w, z) PROVE IInv'
  BY <1>7, DetachZoneKeepsIInv
<1>8. CASE DetachFails(w)
  BY <1>8, GiveUpKeepsIInv DEF DetachFails
<1>9. CASE CommitDeleteAccount(w)
  BY <1>9, CommitDeleteAccountKeepsIInv, GiveUpKeepsIInv
<1> QED
  BY <1>1, <1>2, <1>3, <1>4, <1>5, <1>6, <1>7, <1>8, <1>9, <1>10, <1>11 DEF CommitStep

LEMMA NextKeepsIInv == IInv /\ [Next]_vars => IInv'
<1> SUFFICES ASSUME IInv, [Next]_vars PROVE IInv'
  OBVIOUS
<1>1. CASE \E w \in Workers, c \in Callers : ReadZoneStep(w, c)
  BY <1>1, ReadStepsKeepIInv
<1>2. CASE \E w \in Workers : ReadAccountStep(w) \/ CommitStep(w)
  BY <1>2, ReadStepsKeepIInv, CommitStepsKeepIInv
<1>3. CASE \E name \in Names : CreateAccount(name)
  BY <1>3, CreateAccountKeepsIInv
<1>4. CASE \E a \in Ids, name \in Names : RenameAccount(a, name)
  BY <1>4, RenameAccountKeepsIInv
<1>5. CASE UNCHANGED vars
  <2> USE <1>5 DEF vars, IInv
  <2>1. TypeOK'
    BY DEF TypeOK
  <2>2. AccountsAreDistinct' /\ ZonesKeepTheirAccount' /\ MembersKeepTheirAccount'
    BY DEF AccountsAreDistinct, ZonesKeepTheirAccount, MembersKeepTheirAccount
  <2>3. DeletionsSeeEveryZone'
    BY DEF DeletionsSeeEveryZone, OwnedBy
  <2> QED BY <2>1, <2>2, <2>3
<1> QED BY <1>1, <1>2, <1>3, <1>4, <1>5 DEF Next

\* The inductive invariant holds in every reachable state.
THEOREM IInvHolds == Spec => []IInv
BY InitIInv, NextKeepsIInv, PTL DEF Spec

\* Accounts, memberships, zones and requests are always well typed.
THEOREM TypeCorrect == Spec => []TypeOK
<1>1. IInv => TypeOK
  BY DEF IInv
<1> QED BY <1>1, IInvHolds, PTL

\* A zone is with the account it was meant for, and with no other, unless it went
\* astray: for any number of accounts, zones and handlers, and whether or not the
\* database gives ids twice.
THEOREM ZonesKept == Spec => []ZonesKeepTheirAccount
<1>1. IInv => ZonesKeepTheirAccount
  BY DEF IInv
<1> QED BY <1>1, IInvHolds, PTL

\* A membership is of the account it was meant for, unless it went astray, even where
\* the database gives ids twice.
THEOREM MembersKept == Spec => []MembersKeepTheirAccount
<1>1. IInv => MembersKeepTheirAccount
  BY DEF IInv
<1> QED BY <1>1, IInvHolds, PTL
===============================================================================
