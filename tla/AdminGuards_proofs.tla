-------------------------- MODULE AdminGuards_proofs --------------------------
(***************************************************************************)
(* The guards of the administrator's endpoints, for any set of users and of *)
(* handlers: one super admin remains, and in OIDC-only mode one OIDC admin. *)
(***************************************************************************)
EXTENDS AdminGuards, FiniteSetTheorems, TLAPS

\* What makes it safe to remove u: somebody else is left.
SparesAnAdmin(u) == Admins \ {u} # {}

SparesAnOidcAdmin(u) ==
    u \in ActiveOidcAdmins /\ OidcOnly => ActiveOidcAdmins \ {u} # {}

\* The guards a handler evaluated, as long as no other handler has committed.
DecisionHolds(w) ==
    /\ req[w] \in Update /\ req[w].fresh =>
         /\ req[w].user \in DOMAIN users
         /\ Removes(req[w].data) =>
              /\ users[req[w].user].admin => SparesAnAdmin(req[w].user)
              /\ SparesAnOidcAdmin(req[w].user)
    /\ req[w] \in Delete /\ req[w].fresh =>
         /\ req[w].user \in DOMAIN users
         /\ SparesAnAdmin(req[w].user)
         /\ SparesAnOidcAdmin(req[w].user)
    /\ req[w] \in Put /\ req[w].fresh =>
         (req[w].payload.enabled /\ req[w].payload.localOff => ActiveOidcAdmins # {})

IInv ==
    /\ TypeOK
    /\ SuperAdminRemains
    /\ OidcOnlyKeepsItsAdmin
    /\ \A w \in Workers : DecisionHolds(w)

-----------------------------------------------------------------------------
(* What the counts of the guards mean. *)

\* More than one element means one other than u.
LEMMA CountedOther ==
    ASSUME NEW S, NEW u \in S, ~(Cardinality(S) <= 1)
    PROVE  S \ {u} # {}
<1>1. SUFFICES ASSUME S \ {u} = {} PROVE FALSE
    OBVIOUS
<1>2. S = {u}
    BY <1>1
<1>3. Cardinality({u}) = 1
    BY FS_Singleton
<1> QED BY <1>2, <1>3

\* At least one element means that the set is not empty.
LEMMA CountedOne ==
    ASSUME NEW S, Cardinality(S) >= 1
    PROVE  S # {}
<1>1. Cardinality({}) = 0
    BY FS_EmptySet
<1> QED BY <1>1

\* The kind of a request is told by its op.
LEMMA RequestKinds ==
    ASSUME NEW r \in Request
    PROVE  /\ r.op = "update" => r \in Update
           /\ r.op = "delete" => r \in Delete
           /\ r.op = "settings" => r \in Put
           /\ r \in Update => r.op = "update"
           /\ r \in Delete => r.op = "delete"
           /\ r \in Put => r.op = "settings"
BY DEF Request, Idle, Update, Delete, Put

-----------------------------------------------------------------------------
(* The initial state. *)

LEMMA InitIInv == Init => IInv
<1> SUFFICES ASSUME Init PROVE IInv
    OBVIOUS
<1> USE AdminGuardsAssumption DEF Init
<1>1. TypeOK
    BY DEF TypeOK, Row, Settings, Request, Idle
<1>2. SuperAdminRemains
    BY DEF SuperAdminRemains, Admins
<1>3. OidcOnlyKeepsItsAdmin
    BY DEF OidcOnlyKeepsItsAdmin, OidcOnly, Effective
<1>4. \A w \in Workers : DecisionHolds(w)
    BY DEF DecisionHolds, Idle, Update, Delete, Put
<1> QED BY <1>1, <1>2, <1>3, <1>4 DEF IInv

-----------------------------------------------------------------------------
(* Steps that only record a decision. *)

\* A handler's decision holds when it is taken, and the others' still do.
LEMMA DecideKeepsIInv ==
    ASSUME IInv, NEW w \in Workers, NEW r \in Request,
           req' = [req EXCEPT ![w] = r],
           UNCHANGED <<users, stored, overtaken>>,
           r \in Update =>
             /\ r.user \in DOMAIN users
             /\ Removes(r.data) =>
                  /\ users[r.user].admin => SparesAnAdmin(r.user)
                  /\ SparesAnOidcAdmin(r.user),
           r \in Delete =>
             /\ r.user \in DOMAIN users
             /\ SparesAnAdmin(r.user)
             /\ SparesAnOidcAdmin(r.user),
           r \in Put =>
             (r.payload.enabled /\ r.payload.localOff => ActiveOidcAdmins # {})
    PROVE  IInv'
<1>1. TypeOK'
    BY DEF IInv, TypeOK
<1>2. SuperAdminRemains'
    BY DEF IInv, SuperAdminRemains, Admins
<1>3. OidcOnlyKeepsItsAdmin'
    BY DEF IInv, OidcOnlyKeepsItsAdmin, OidcOnly, Effective, ActiveOidcAdmins, Admins
<1>4. ASSUME NEW v \in Workers PROVE DecisionHolds(v)'
  <2>1. CASE v = w
    <3>1. req'[v] = r
        BY <2>1 DEF IInv, TypeOK
    <3> QED BY <3>1 DEF DecisionHolds, SparesAnAdmin, SparesAnOidcAdmin, OidcOnly,
                Effective, ActiveOidcAdmins, Admins
  <2>2. CASE v # w
    <3>1. req'[v] = req[v] /\ DecisionHolds(v)
        BY <2>2 DEF IInv, TypeOK
    <3> QED BY <3>1 DEF DecisionHolds, SparesAnAdmin, SparesAnOidcAdmin, OidcOnly,
                Effective, ActiveOidcAdmins, Admins
  <2> QED BY <2>1, <2>2
<1> QED BY <1>1, <1>2, <1>3, <1>4 DEF IInv

\* The guard on the last OIDC admin, read the other way round.
LEMMA OidcGuard ==
    ASSUME TypeOK, NEW u \in DOMAIN users, ~LastOidcAdmin(u)
    PROVE  SparesAnOidcAdmin(u)
<1> SUFFICES ASSUME u \in ActiveOidcAdmins, OidcOnly
             PROVE  ActiveOidcAdmins \ {u} # {}
    BY DEF SparesAnOidcAdmin
<1>1. ~(Cardinality(ActiveOidcAdmins) <= 1)
    BY DEF LastOidcAdmin, ActiveOidcAdmins, Admins
<1> QED BY <1>1, CountedOther

LEMMA ReadUpdateKeepsIInv ==
    ASSUME IInv, NEW w \in Workers, NEW u \in DOMAIN users, NEW data \in Payloads,
           ReadUpdate(w, u, data)
    PROVE  IInv'
<1> DEFINE changed == {f \in DOMAIN data : data[f] # users[u][f]}
           kept    == [f \in changed |-> data[f]]
           r       == [op |-> "update", user |-> u, fresh |-> TRUE, data |-> kept]
<1>1. req' = [req EXCEPT ![w] = r] /\ UNCHANGED <<users, stored, overtaken>>
    BY DEF ReadUpdate
<1>2. PICK D \in SUBSET Flags : data \in [D -> BOOLEAN]
    BY DEF Payloads
<1>3. changed \in SUBSET Flags /\ kept \in [changed -> BOOLEAN]
    BY <1>2
<1>4. kept \in UNION {[E -> BOOLEAN] : E \in SUBSET Flags}
    BY <1>3
<1>5. r \in Update /\ r \in Request
    BY <1>4 DEF Update, Request, IInv, TypeOK
<1>6. ASSUME Removes(kept)
      PROVE  (users[u].admin => SparesAnAdmin(u)) /\ SparesAnOidcAdmin(u)
  <2>1. Removes(data)
      BY <1>2, <1>6 DEF Removes
  <2>2. ~LastSuperAdmin(u) /\ ~LastOidcAdmin(u)
      BY <2>1 DEF ReadUpdate
  <2>3. SparesAnOidcAdmin(u)
      BY <2>2, OidcGuard DEF IInv
  <2>4. ASSUME users[u].admin PROVE SparesAnAdmin(u)
    <3>1. u \in Admins /\ ~(Cardinality(Admins) <= 1)
        BY <2>2, <2>4 DEF LastSuperAdmin, Admins
    <3> QED BY <3>1, CountedOther DEF SparesAnAdmin
  <2> QED BY <2>3, <2>4
<1>7. r \notin Delete /\ r \notin Put
    BY DEF Delete, Put
<1> HIDE DEF kept
<1> QED BY <1>1, <1>5, <1>6, <1>7, DecideKeepsIInv

LEMMA ReadDeleteKeepsIInv ==
    ASSUME IInv, NEW w \in Workers, NEW u \in DOMAIN users, ReadDelete(w, u)
    PROVE  IInv'
<1> DEFINE r == [op |-> "delete", user |-> u, fresh |-> TRUE]
<1>1. req' = [req EXCEPT ![w] = r] /\ UNCHANGED <<users, stored, overtaken>>
    BY DEF ReadDelete
<1>2. r \in Delete /\ r \in Request /\ r \notin Update /\ r \notin Put
    BY DEF Update, Delete, Put, Request, IInv, TypeOK
<1>3. SparesAnAdmin(u)
    BY DEF ReadDelete, Callers, SparesAnAdmin
<1>4. SparesAnOidcAdmin(u)
    BY OidcGuard DEF ReadDelete, IInv
<1> QED BY <1>1, <1>2, <1>3, <1>4, DecideKeepsIInv

LEMMA ReadPutKeepsIInv ==
    ASSUME IInv, NEW w \in Workers, NEW payload \in Settings, ReadPut(w, payload)
    PROVE  IInv'
<1> DEFINE r == [op |-> "settings", payload |-> payload, fresh |-> TRUE]
<1>1. req' = [req EXCEPT ![w] = r] /\ UNCHANGED <<users, stored, overtaken>>
    BY DEF ReadPut
<1>2. r \in Put /\ r \in Request /\ r \notin Update /\ r \notin Delete
    BY DEF Update, Delete, Put, Request
<1>3. payload.enabled /\ payload.localOff => ActiveOidcAdmins # {}
    BY CountedOne DEF ReadPut
<1> QED BY <1>1, <1>2, <1>3, DecideKeepsIInv

-----------------------------------------------------------------------------
(* Steps that commit. *)

\* After a commit no decision counts as fresh, and none has been overtaken only
\* if the one committed was not.
LEMMA AfterOvertake ==
    ASSUME TypeOK, NEW w \in Workers, Overtake(w)
    PROVE  /\ req' \in [Workers -> Request]
           /\ overtaken' \in BOOLEAN
           /\ \A v \in Workers : DecisionHolds(v)'
           /\ ~overtaken' => ~overtaken /\ (req[w] # Idle => req[w].fresh)
<1> USE DEF Overtake, TypeOK
<1>1. ASSUME NEW v \in Workers
      PROVE  /\ req'[v] \in Request
             /\ req'[v] # Idle => req'[v].fresh = FALSE
  <2>1. CASE v = w \/ req[v] = Idle
      BY <2>1 DEF Request
  <2>2. CASE ~(v = w \/ req[v] = Idle)
    <3>1. req'[v] = [req[v] EXCEPT !.fresh = FALSE]
        BY <2>2
    <3>2. req[v] \in Update \cup Delete \cup Put
        BY <2>2 DEF Request
    <3>3. req'[v] \in Update \cup Delete \cup Put
        BY <3>1, <3>2 DEF Update, Delete, Put
    <3>4. req'[v].fresh = FALSE
        BY <3>1, <3>2 DEF Update, Delete, Put
    <3> QED BY <3>3, <3>4 DEF Request
  <2> QED BY <2>1, <2>2
<1>2. ASSUME NEW v \in Workers PROVE DecisionHolds(v)'
    BY <1>1 DEF DecisionHolds, Idle, Update, Delete, Put
<1>3. req' \in [Workers -> Request]
    BY <1>1
<1>4. overtaken' \in BOOLEAN /\ (~overtaken' => ~overtaken /\ (req[w] # Idle => req[w].fresh))
    OBVIOUS
<1> QED BY <1>2, <1>3, <1>4

\* A commit that keeps everybody but u, and takes from u only what somebody else
\* makes up for.
LEMMA TakingFromOne ==
    ASSUME IInv, NEW u \in Users, stored' = stored,
           DOMAIN users' \subseteq DOMAIN users,
           \A v \in DOMAIN users \ {u} : v \in DOMAIN users' /\ users'[v] = users[v],
           ~overtaken' => ~overtaken,
           ~overtaken' /\ u \in Admins => u \in Admins' \/ SparesAnAdmin(u),
           ~overtaken' => (u \in ActiveOidcAdmins => u \in ActiveOidcAdmins')
                            \/ SparesAnOidcAdmin(u)
    PROVE  SuperAdminRemains' /\ OidcOnlyKeepsItsAdmin'
<1>1. Admins \ {u} \subseteq Admins' /\ ActiveOidcAdmins \ {u} \subseteq ActiveOidcAdmins'
    BY DEF Admins, ActiveOidcAdmins
<1>2. SuperAdminRemains'
    BY <1>1 DEF SuperAdminRemains, SparesAnAdmin, IInv
<1>3. OidcOnly' = OidcOnly
    BY DEF OidcOnly, Effective
<1>4. OidcOnlyKeepsItsAdmin'
    BY <1>1, <1>3 DEF OidcOnlyKeepsItsAdmin, SparesAnOidcAdmin, IInv
<1> QED BY <1>2, <1>4

LEMMA CommitUpdateKeepsIInv ==
    ASSUME IInv, NEW w \in Workers, CommitUpdate(w)
    PROVE  IInv'
<1> DEFINE u    == req[w].user
           data == req[w].data
<1>0. req[w] \in Update /\ req[w] # Idle /\ TypeOK
    BY RequestKinds DEF IInv, TypeOK, CommitUpdate, Idle
<1>1. Overtake(w) /\ stored' = stored
    BY DEF CommitUpdate
<1>2. u \in Users /\ DOMAIN data \subseteq Flags /\ data \in [DOMAIN data -> BOOLEAN]
    BY <1>0 DEF Update
<1>3. CASE u \notin DOMAIN users
  <2>1. users' = users
      BY <1>3 DEF CommitUpdate
  <2>2. SuperAdminRemains' /\ OidcOnlyKeepsItsAdmin'
      BY <1>0, <1>1, <1>2, <1>3, <2>1, AfterOvertake, TakingFromOne
         DEF ActiveOidcAdmins, Admins
  <2>3. TypeOK'
      BY <1>0, <1>1, <2>1, AfterOvertake DEF TypeOK
  <2> QED BY <1>0, <1>1, <2>2, <2>3, AfterOvertake DEF IInv
<1>4. CASE u \in DOMAIN users
  <2> DEFINE row == [admin  |-> IF "admin" \in DOMAIN data
                                  THEN data["admin"] ELSE users[u].admin,
                     active |-> IF "active" \in DOMAIN data
                                  THEN data["active"] ELSE users[u].active,
                     sso    |-> users[u].sso]
  <2>1. users' = [users EXCEPT ![u] = row]
      BY <1>4 DEF CommitUpdate
  <2>2. users[u] \in Row /\ row \in Row
      BY <1>0, <1>2, <1>4 DEF TypeOK, Row
  <2>3. DOMAIN users' = DOMAIN users /\ users'[u] = row
        /\ \A v \in DOMAIN users \ {u} : users'[v] = users[v]
      BY <1>0, <1>4, <2>1 DEF TypeOK
  <2>4. TypeOK'
      BY <1>0, <1>1, <2>1, <2>2, AfterOvertake DEF TypeOK
  <2>5. ~Removes(data) => (u \in Admins => u \in Admins')
                          /\ (u \in ActiveOidcAdmins => u \in ActiveOidcAdmins')
      BY <1>2, <1>4, <2>3 DEF Removes, Admins, ActiveOidcAdmins
  <2>6. ~overtaken' => ~overtaken /\ req[w].fresh
      BY <1>0, <1>1, AfterOvertake
  <2>7. ~overtaken' /\ Removes(data) =>
          (u \in Admins => SparesAnAdmin(u)) /\ SparesAnOidcAdmin(u)
      BY <1>0, <2>6 DEF IInv, DecisionHolds, Admins
  <2>8. SuperAdminRemains' /\ OidcOnlyKeepsItsAdmin'
      BY <1>1, <1>2, <2>3, <2>5, <2>6, <2>7, TakingFromOne
  <2> QED BY <1>0, <1>1, <2>4, <2>8, AfterOvertake DEF IInv
<1> QED BY <1>3, <1>4

LEMMA CommitDeleteKeepsIInv ==
    ASSUME IInv, NEW w \in Workers, CommitDelete(w)
    PROVE  IInv'
<1> DEFINE u == req[w].user
<1>0. req[w] \in Delete /\ req[w] # Idle /\ TypeOK
    BY RequestKinds DEF IInv, TypeOK, CommitDelete, Idle
<1>1. Overtake(w) /\ stored' = stored
      /\ users' = [v \in DOMAIN users \ {u} |-> users[v]]
    BY DEF CommitDelete
<1>2. u \in Users
    BY <1>0 DEF Delete
<1>3. TypeOK'
    BY <1>0, <1>1, AfterOvertake DEF TypeOK
<1>4. ~overtaken' => ~overtaken /\ SparesAnAdmin(u) /\ SparesAnOidcAdmin(u)
    BY <1>0, <1>1, AfterOvertake DEF IInv, DecisionHolds
<1>5. SuperAdminRemains' /\ OidcOnlyKeepsItsAdmin'
    BY <1>1, <1>2, <1>4, TakingFromOne
<1> QED BY <1>0, <1>1, <1>3, <1>5, AfterOvertake DEF IInv

LEMMA CommitPutKeepsIInv ==
    ASSUME IInv, NEW w \in Workers, CommitPut(w)
    PROVE  IInv'
<1>0. req[w] \in Put /\ req[w] # Idle /\ TypeOK
    BY RequestKinds DEF IInv, TypeOK, CommitPut, Idle
<1>1. Overtake(w) /\ users' = users
    BY DEF CommitPut
<1>2. stored' = [f \in DOMAIN stored |->
                   IF f \in DOMAIN Pinned THEN stored[f] ELSE req[w].payload[f]]
    BY DEF CommitPut
<1>3. req[w].payload \in Settings /\ stored \in Settings
    BY <1>0 DEF Put, TypeOK
<1>4. stored' \in Settings
    BY <1>2, <1>3 DEF Settings
<1>5. TypeOK'
    BY <1>0, <1>1, <1>4, AfterOvertake DEF TypeOK
<1>6. ~overtaken' => ~overtaken /\ req[w].fresh
    BY <1>0, <1>1, AfterOvertake
<1>7. SuperAdminRemains'
    BY <1>1, <1>6 DEF IInv, SuperAdminRemains, Admins
<1>8. OidcOnlyKeepsItsAdmin'
  <2> SUFFICES ASSUME ~overtaken', DOMAIN Pinned = {}, OidcOnly'
               PROVE  ActiveOidcAdmins' # {}
      BY DEF OidcOnlyKeepsItsAdmin
  <2>1. req[w].payload.enabled /\ req[w].payload.localOff
      BY <1>2, <1>3 DEF OidcOnly, Effective, Settings
  <2>2. ActiveOidcAdmins # {}
      BY <1>0, <1>6, <2>1 DEF IInv, DecisionHolds
  <2> QED BY <1>1, <2>2 DEF ActiveOidcAdmins, Admins
<1> QED BY <1>0, <1>1, <1>5, <1>7, <1>8, AfterOvertake DEF IInv

-----------------------------------------------------------------------------
(* Accounts that appear. *)

\* A new account takes nothing from the others.
LEMMA AddingKeepsIInv ==
    ASSUME IInv, NEW u \in Users, NEW row \in Row, u \notin DOMAIN users,
           users' = Adding(u, row), UNCHANGED <<stored, overtaken>>,
           req' = req \/ req' = [w \in Workers |-> Idle]
    PROVE  IInv'
<1>1. /\ DOMAIN users' = DOMAIN users \cup {u}
      /\ \A v \in DOMAIN users : users'[v] = users[v]
      /\ users'[u] = row
    BY DEF Adding
<1>2. req' \in [Workers -> Request]
    BY DEF IInv, TypeOK, Request
<1>3. TypeOK'
    BY <1>1, <1>2 DEF IInv, TypeOK, Adding
<1>4. Admins \subseteq Admins' /\ ActiveOidcAdmins \subseteq ActiveOidcAdmins'
      /\ (OidcOnly' = OidcOnly)
    BY <1>1 DEF Admins, ActiveOidcAdmins, OidcOnly, Effective
<1>5. SuperAdminRemains' /\ OidcOnlyKeepsItsAdmin'
    BY <1>4 DEF IInv, SuperAdminRemains, OidcOnlyKeepsItsAdmin
<1>6. ASSUME NEW v \in Workers PROVE DecisionHolds(v)'
  <2>1. CASE req' = req
    <3>1. DecisionHolds(v)
        BY DEF IInv
    <3>2. ASSUME NEW t \in DOMAIN users
          PROVE  /\ t \in DOMAIN users' /\ users'[t] = users[t]
                 /\ SparesAnAdmin(t) => SparesAnAdmin(t)'
                 /\ SparesAnOidcAdmin(t) => SparesAnOidcAdmin(t)'
      <4>1. t \in DOMAIN users' /\ users'[t] = users[t]
          BY <1>1
      <4>2. t \in ActiveOidcAdmins' => t \in ActiveOidcAdmins
          BY <4>1 DEF ActiveOidcAdmins, Admins
      <4> QED BY <1>4, <4>1, <4>2 DEF SparesAnAdmin, SparesAnOidcAdmin
    <3> QED BY <1>4, <2>1, <3>1, <3>2 DEF DecisionHolds
  <2>2. CASE req' = [w \in Workers |-> Idle]
      BY <2>2 DEF DecisionHolds, Idle, Update, Delete, Put
  <2> QED BY <2>1, <2>2
<1> QED BY <1>3, <1>5, <1>6 DEF IInv

LEMMA RestartKeepsIInv ==
    ASSUME IInv, Restart
    PROVE  IInv'
<1> USE AdminGuardsAssumption
<1>0. UNCHANGED <<stored, overtaken>> /\ req' = [w \in Workers |-> Idle]
    BY DEF Restart
<1>1. CASE BuiltIn \notin DOMAIN users
  <2>1. users' = Adding(BuiltIn, [admin |-> TRUE, active |-> TRUE, sso |-> FALSE])
      BY <1>1 DEF Restart
  <2>2. [admin |-> TRUE, active |-> TRUE, sso |-> FALSE] \in Row
      BY DEF Row
  <2> QED BY <1>0, <1>1, <2>1, <2>2, AddingKeepsIInv
<1>2. CASE BuiltIn \in DOMAIN users
  <2>1. users' = [users EXCEPT ![BuiltIn].admin = TRUE]
      BY <1>2 DEF Restart
  <2>2. users[BuiltIn] \in Row
      BY <1>2 DEF IInv, TypeOK
  <2>3. /\ DOMAIN users' = DOMAIN users
        /\ \A v \in DOMAIN users \ {BuiltIn} : users'[v] = users[v]
        /\ users'[BuiltIn] = [users[BuiltIn] EXCEPT !.admin = TRUE]
      BY <1>2, <2>1 DEF IInv, TypeOK
  <2>4. users'[BuiltIn] \in Row /\ users'[BuiltIn].admin
        /\ users'[BuiltIn].active = users[BuiltIn].active
        /\ users'[BuiltIn].sso = users[BuiltIn].sso
      BY <2>2, <2>3 DEF Row
  <2>5. TypeOK'
      BY <1>0, <2>3, <2>4, <2>1 DEF IInv, TypeOK, Request
  <2>6. Admins \subseteq Admins' /\ ActiveOidcAdmins \subseteq ActiveOidcAdmins'
        /\ OidcOnly' = OidcOnly
      BY <1>0, <2>3, <2>4 DEF Admins, ActiveOidcAdmins, OidcOnly, Effective
  <2>7. SuperAdminRemains' /\ OidcOnlyKeepsItsAdmin'
      BY <1>0, <2>6 DEF IInv, SuperAdminRemains, OidcOnlyKeepsItsAdmin
  <2>8. \A v \in Workers : DecisionHolds(v)'
      BY <1>0 DEF DecisionHolds, Idle, Update, Delete, Put
  <2> QED BY <2>5, <2>7, <2>8 DEF IInv
<1> QED BY <1>1, <1>2

-----------------------------------------------------------------------------
(* The invariant and what it gives. *)

LEMMA NextKeepsIInv == IInv /\ [Next]_vars => IInv'
<1> SUFFICES ASSUME IInv, [Next]_vars PROVE IInv'
    OBVIOUS
<1>1. ASSUME NEW w \in Workers, ReadStep(w) PROVE IInv'
    BY <1>1, ReadUpdateKeepsIInv, ReadDeleteKeepsIInv, ReadPutKeepsIInv DEF ReadStep
<1>2. ASSUME NEW w \in Workers, CommitStep(w) PROVE IInv'
    BY <1>2, CommitUpdateKeepsIInv, CommitDeleteKeepsIInv, CommitPutKeepsIInv
       DEF CommitStep
<1>3. ASSUME NEW u \in Users, NEW admin \in BOOLEAN, CreateUser(u, admin) PROVE IInv'
  <2>1. [admin |-> admin, active |-> TRUE, sso |-> FALSE] \in Row
      BY DEF Row
  <2> QED BY <1>3, <2>1, AddingKeepsIInv DEF CreateUser
<1>4. ASSUME NEW u \in Users, SignInSso(u) PROVE IInv'
  <2>1. [admin |-> FALSE, active |-> TRUE, sso |-> TRUE] \in Row
      BY DEF Row
  <2> QED BY <1>4, <2>1, AddingKeepsIInv DEF SignInSso
<1>5. CASE Restart
    BY <1>5, RestartKeepsIInv
<1>6. CASE UNCHANGED vars
    BY <1>6 DEF vars, IInv, TypeOK, SuperAdminRemains, OidcOnlyKeepsItsAdmin,
       DecisionHolds, SparesAnAdmin, SparesAnOidcAdmin, OidcOnly, Effective,
       ActiveOidcAdmins, Admins
<1> QED BY <1>1, <1>2, <1>3, <1>4, <1>5, <1>6 DEF Next

LEMMA Invariance == Spec => []IInv
<1> QED BY InitIInv, NextKeepsIInv, PTL DEF Spec

\* The variables keep their types (admin.py update_user, delete_user and
\* update_oidc_settings).
THEOREM TypeCorrect == Spec => []TypeOK
<1>1. IInv => TypeOK
    BY DEF IInv
<1> QED BY <1>1, Invariance, PTL

\* One super admin remains, for any number of users and of handlers (admin.py
\* update_user and delete_user).
THEOREM OneSuperAdmin == Spec => []SuperAdminRemains
<1>1. IInv => SuperAdminRemains
    BY DEF IInv
<1> QED BY <1>1, Invariance, PTL

\* The guards of the accounts and the guard of the settings fit together: where
\* the environment pins neither setting, one OIDC admin remains as long as only
\* SSO can sign in (admin.py update_user, delete_user, update_oidc_settings).
THEOREM OneOidcAdmin == Spec => []OidcOnlyKeepsItsAdmin
<1>1. IInv => OidcOnlyKeepsItsAdmin
    BY DEF IInv
<1> QED BY <1>1, Invariance, PTL

===============================================================================
