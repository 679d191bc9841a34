---------------------------- MODULE Sessions_proofs ----------------------------
(***************************************************************************)
(* Proofs about Sessions for any number of names, accounts and handlers,   *)
(* on a database that never reuses an id (MySQL, MariaDB).                 *)
(*                                                                         *)
(* IInv strengthens the properties so that every step keeps it.  Ids are   *)
(* the order of creation, so an id names one account for ever.  And as     *)
(* long as no version was lost, whatever was read from a row (a cookie, or *)
(* the row a handler holds) has a version no later than the row's, and the *)
(* same password when it has the same version; what has ended is strictly  *)
(* older.                                                                  *)
(***************************************************************************)
EXTENDS Sessions, TLAPS

\* Ids are never reused, so the account an id was given to is its owner for ever.
IdsAreFinal ==
    /\ \A i \in DOMAIN users : users[i].born = i /\ i <= created
    /\ \A c \in cookies : c.born = c.uid /\ c.uid <= created
    /\ \A t \in pats : t.born = t.uid /\ t.uid \in DOMAIN users
    /\ \A w \in Workers : req[w] # Idle =>
         req[w].row.born = req[w].uid /\ req[w].uid <= created

\* What was read from a row is no newer than the row.
NothingAhead ==
    /\ \A c \in cookies : c.uid \in DOMAIN users =>
         /\ c.ver <= users[c.uid].ver
         /\ c.ver = users[c.uid].ver => c.pw = users[c.uid].pw
    /\ \A w \in Workers : req[w] # Idle /\ req[w].uid \in DOMAIN users =>
         /\ req[w].row.ver <= users[req[w].uid].ver
         /\ req[w].row.ver = users[req[w].uid].ver
              => req[w].row.pw = users[req[w].uid].pw

\* A session that ended is older than its row.
EndedIsOlder ==
    \A c \in ended : c.uid \in DOMAIN users => c.ver < users[c.uid].ver

IInv ==
    /\ TypeOK
    /\ IdsAreFinal
    /\ ~lost => NothingAhead /\ EndedIsOlder

-----------------------------------------------------------------------------

\* A written row is a row of the same name and account, and each of the other
\* columns is the current value or the handler's.
LEMMA WrittenRow ==
    ASSUME NEW now \in Row, NEW read \in Row, NEW changed \in Row
    PROVE  LET new == Written(now, read, changed)
           IN  /\ new \in Row
               /\ new.name = now.name /\ new.born = now.born
               /\ new.active = IF changed.active = read.active THEN now.active
                                                               ELSE changed.active
               /\ new.ver = IF changed.ver = read.ver THEN now.ver ELSE changed.ver
               /\ new.pw = IF changed.pw = read.pw THEN now.pw ELSE changed.pw
  BY DEF Written, Row

\* What a handler can write: the row it read, revoked with or without a new
\* password, or only reactivated.
MayWrite(read, changed) ==
    /\ changed \in Row
    /\ changed.name = read.name /\ changed.born = read.born
    /\ \/ changed.ver = read.ver + 1
       \/ /\ changed.ver = read.ver /\ changed.pw = read.pw
          /\ changed.active

\* The write of a handler keeps the invariant: the only cookie it sets is made
\* from the row it writes.
LEMMA WriteKeepsIInv ==
    ASSUME IInv, NEW w \in Workers, req[w] # Idle,
           NEW changed, MayWrite(req[w].row, changed),
           NEW issued \in SUBSET {SessionOf(req[w].uid, changed)},
           issued # {} => changed.ver = req[w].row.ver + 1
                            /\ changed.pw # req[w].row.pw,
           Write(w, changed, issued)
    PROVE  IInv'
<1> DEFINE id == req[w].uid
           read == req[w].row
<1>1. /\ req[w] \in [op : Ops, uid : Ids, row : Row]
      /\ id \in Ids /\ read \in Row /\ changed \in Row
  BY DEF IInv, TypeOK, Request, MayWrite
<1>2. /\ req' = [req EXCEPT ![w] = Idle]
      /\ created' = created /\ pats' = pats
  BY DEF Write, Finish
<1>3. CASE id \notin DOMAIN users
  <2>1. users' = users /\ ended' = ended /\ lost' = lost /\ cookies' = cookies
    BY <1>3 DEF Write
  <2>2. TypeOK'
    BY <2>1, <1>2 DEF IInv, TypeOK, Request
  <2>3. IdsAreFinal' /\ (~lost' => NothingAhead' /\ EndedIsOlder')
    BY <2>1, <1>2 DEF IInv, TypeOK, IdsAreFinal, NothingAhead, EndedIsOlder
  <2> QED BY <2>2, <2>3 DEF IInv
<1>4. CASE id \in DOMAIN users
  <2> DEFINE now == users[id]
             new == Written(now, read, changed)
  <2>1. /\ users' = [users EXCEPT ![id] = new]
        /\ ended' = ended \cup {c \in cookies : Accepts(c, users) /\ ~Accepts(c, users')}
        /\ lost' = (lost \/ (changed.ver # read.ver /\ now.ver # read.ver))
        /\ cookies' = cookies \cup issued
    BY <1>4 DEF Write, NoteEnded, Issue, Written
  <2>2. now \in Row
    BY <1>4 DEF IInv, TypeOK
  <2>3. /\ new \in Row
        /\ new.name = now.name /\ new.born = now.born
        /\ new.active = IF changed.active = read.active THEN now.active
                                                        ELSE changed.active
        /\ new.ver = IF changed.ver = read.ver THEN now.ver ELSE changed.ver
        /\ new.pw = IF changed.pw = read.pw THEN now.pw ELSE changed.pw
    BY <2>2, <1>1, WrittenRow
  <2> HIDE DEF new, now, read, id
  <2>4. /\ DOMAIN users' = DOMAIN users
        /\ users'[id] = new
        /\ \A i \in DOMAIN users : i # id => users'[i] = users[i]
        /\ users' \in [DOMAIN users' -> Row]
    BY <2>1, <2>3, <1>4 DEF IInv, TypeOK
  <2>5. \A c \in issued : /\ c \in Cookie /\ c.uid = id /\ c.born = read.born
                          /\ c.ver = changed.ver /\ c.pw = changed.pw
                          /\ changed.ver = read.ver + 1
                          /\ changed.pw # read.pw
    BY <1>1 DEF SessionOf, Cookie, Row, MayWrite, id, read
  <2>6. TypeOK'
    BY <2>1, <2>4, <2>5, <1>2, <1>1 DEF IInv, TypeOK, Request
  <2>7. IdsAreFinal'
    <3>1. read.born = id /\ id <= created
      BY DEF IInv, IdsAreFinal, id, read
    <3>2. now.born = id
      BY <1>4 DEF IInv, IdsAreFinal, now
    <3> QED
      BY <3>1, <3>2, <2>1, <2>3, <2>4, <2>5, <1>2 DEF IInv, TypeOK, IdsAreFinal
  <2>8. ASSUME ~lost' PROVE NothingAhead' /\ EndedIsOlder'
    <3>1. /\ ~lost /\ NothingAhead /\ EndedIsOlder
          /\ changed.ver # read.ver => now.ver = read.ver
      BY <2>8, <2>1 DEF IInv
    <3>2. \/ /\ new.ver = now.ver + 1 /\ now.ver = read.ver
             /\ changed.ver = read.ver + 1
             /\ now.pw = read.pw /\ new.pw = changed.pw
          \/ /\ new.ver = now.ver /\ new.pw = now.pw
             /\ changed.ver = read.ver /\ changed.pw = read.pw
             /\ changed.active
      <4>1. now.ver = read.ver => now.pw = read.pw
        BY <3>1, <1>4 DEF NothingAhead, now, read, id
      <4>2. now.ver \in Nat /\ read.ver \in Nat
        BY <2>2, <1>1 DEF Row, read
      <4>3. changed.ver = read.ver + 1 \/ (/\ changed.ver = read.ver
                                           /\ changed.pw = read.pw
                                           /\ changed.active)
        BY DEF MayWrite, read
      <4> QED BY <4>1, <4>2, <4>3, <3>1, <2>3
    <3>3. /\ \A c \in cookies : c.ver \in Nat
          /\ \A v \in Workers : req[v] # Idle => req[v].row.ver \in Nat
          /\ now.ver \in Nat
      BY <2>2 DEF IInv, TypeOK, Cookie, Request, Row
    <3>4. \A c \in cookies : c.uid = id =>
             /\ c.ver <= now.ver
             /\ c.ver = now.ver => c.pw = now.pw
      BY <3>1, <1>4 DEF NothingAhead, now
    <3>5. \A v \in Workers : req[v] # Idle /\ req[v].uid = id =>
             /\ req[v].row.ver <= now.ver
             /\ req[v].row.ver = now.ver => req[v].row.pw = now.pw
      BY <3>1, <1>4 DEF NothingAhead, now
    <3>6. \A c \in cookies' : c.uid \in DOMAIN users' =>
             /\ c.ver <= users'[c.uid].ver
             /\ c.ver = users'[c.uid].ver => c.pw = users'[c.uid].pw
      <4> SUFFICES ASSUME NEW c \in cookies', c.uid \in DOMAIN users'
                   PROVE  /\ c.ver <= users'[c.uid].ver
                          /\ c.ver = users'[c.uid].ver => c.pw = users'[c.uid].pw
        OBVIOUS
      <4>1. CASE c \in cookies /\ c.uid # id
        BY <4>1, <3>1, <2>4 DEF NothingAhead
      <4>2. CASE c \in cookies /\ c.uid = id
        BY <4>2, <3>2, <3>3, <3>4, <2>4
      <4>3. CASE c \in issued
        BY <4>3, <3>2, <3>3, <2>4, <2>5
      <4> QED BY <4>1, <4>2, <4>3, <2>1
    <3>7. \A v \in Workers : req'[v] # Idle /\ req'[v].uid \in DOMAIN users' =>
             /\ req'[v].row.ver <= users'[req'[v].uid].ver
             /\ req'[v].row.ver = users'[req'[v].uid].ver
                  => req'[v].row.pw = users'[req'[v].uid].pw
      <4> SUFFICES ASSUME NEW v \in Workers, req'[v] # Idle,
                          req'[v].uid \in DOMAIN users'
                   PROVE  /\ req'[v].row.ver <= users'[req'[v].uid].ver
                          /\ req'[v].row.ver = users'[req'[v].uid].ver
                               => req'[v].row.pw = users'[req'[v].uid].pw
        OBVIOUS
      <4>1. v # w /\ req'[v] = req[v]
        BY <1>2 DEF IInv, TypeOK
      <4>2. CASE req[v].uid # id
        BY <4>1, <4>2, <3>1, <2>4 DEF NothingAhead
      <4>3. CASE req[v].uid = id
        BY <4>1, <4>3, <3>2, <3>3, <3>5, <2>4
      <4> QED BY <4>2, <4>3
    <3>8. \A c \in ended' : c.uid \in DOMAIN users' => c.ver < users'[c.uid].ver
      <4> SUFFICES ASSUME NEW c \in ended', c.uid \in DOMAIN users'
                   PROVE  c.ver < users'[c.uid].ver
        OBVIOUS
      <4>1. CASE c \in ended
        <5>1. c \in cookies /\ c.ver < users[c.uid].ver
          BY <4>1, <3>1, <2>4 DEF IInv, TypeOK, EndedIsOlder
        <5>2. CASE c.uid # id
          BY <5>1, <5>2, <2>4
        <5>3. CASE c.uid = id
          BY <5>1, <5>3, <3>2, <3>3, <2>4 DEF now
        <5> QED BY <5>2, <5>3
      <4>2. CASE c \in cookies /\ Accepts(c, users) /\ ~Accepts(c, users')
        <5>1. c.uid = id
          BY <4>2, <2>4 DEF Accepts
        <5>2. c.ver = now.ver /\ now.active /\ c.sub = now.name
          BY <4>2, <5>1 DEF Accepts, now
        <5>3. ~(new.active /\ new.ver = c.ver)
          BY <4>2, <5>1, <5>2, <2>3, <2>4, <1>4 DEF Accepts
        <5>4. changed.active => new.active
          BY <5>2, <2>3
        <5>5. new.ver # now.ver
          BY <5>2, <5>3, <5>4, <3>2, <3>3
        <5> QED BY <5>1, <5>2, <5>5, <3>2, <3>3, <2>4
      <4> QED BY <4>1, <4>2, <2>1
    <3> QED BY <3>6, <3>7, <3>8 DEF NothingAhead, EndedIsOlder
  <2> QED BY <2>6, <2>7, <2>8 DEF IInv
<1> QED BY <1>3, <1>4

-----------------------------------------------------------------------------

LEMMA InitIInv == Init => IInv
<1> SUFFICES ASSUME Init PROVE IInv
  OBVIOUS
<1>1. PICK n \in Names :
        users = [i \in {1} |-> [name |-> n, active |-> TRUE, ver |-> 0, pw |-> 1,
                                born |-> 1]]
  BY DEF Init
<1>2. DOMAIN users = {1} /\ users[1].born = 1 /\ users[1] \in Row /\ 1 \in Ids
  BY <1>1, SessionsAssumption DEF Row, Ids
<1>3. TypeOK
  <2>1. users \in [DOMAIN users -> Row] /\ DOMAIN users \subseteq Ids
    BY <1>1, <1>2
  <2>2. created \in 0 .. MaxAccounts
    BY SessionsAssumption DEF Init
  <2>3. req \in [Workers -> Request]
    BY DEF Init, Request
  <2> QED BY <2>1, <2>2, <2>3 DEF Init, TypeOK
<1>4. IdsAreFinal
  BY <1>2 DEF Init, IdsAreFinal
<1>5. NothingAhead /\ EndedIsOlder
  BY DEF Init, NothingAhead, EndedIsOlder
<1> QED BY <1>3, <1>4, <1>5 DEF IInv

\* Reading a row keeps the invariant: a row is not ahead of itself.
LEMMA ReadKeepsIInv ==
    ASSUME IInv, NEW w \in Workers, NEW id \in DOMAIN users, NEW op \in Ops,
           Read(w, op, id)
    PROVE  IInv'
<1> DEFINE new == [op |-> op, uid |-> id, row |-> users[id]]
<1>1. /\ req' = [req EXCEPT ![w] = new]
      /\ UNCHANGED <<users, created, cookies, pats, ended, lost>>
  BY DEF Read
<1>2. new \in [op : Ops, uid : Ids, row : Row]
  BY DEF IInv, TypeOK
<1>3. /\ new.uid = id /\ new.row = users[id]
      /\ users[id].ver \in Nat
  BY DEF IInv, TypeOK, Row
<1> HIDE DEF new
<1>4. req' \in [Workers -> Request] /\ req'[w] = new
      /\ \A v \in Workers : v # w => req'[v] = req[v]
  BY <1>1, <1>2 DEF IInv, TypeOK, Request
<1>5. TypeOK'
  BY <1>1, <1>4 DEF IInv, TypeOK
<1>6. IdsAreFinal'
  BY <1>1, <1>3, <1>4 DEF IInv, IdsAreFinal
<1>7. ~lost' => NothingAhead' /\ EndedIsOlder'
  BY <1>1, <1>3, <1>4 DEF IInv, NothingAhead, EndedIsOlder
<1> QED BY <1>5, <1>6, <1>7 DEF IInv

\* Revoking a row adds one to its version and changes nothing else.
LEMMA RevokedRow ==
    ASSUME NEW row \in Row
    PROVE  /\ Revoked(row) \in Row
           /\ Revoked(row).ver = row.ver + 1
           /\ Revoked(row).name = row.name /\ Revoked(row).born = row.born
           /\ Revoked(row).pw = row.pw /\ Revoked(row).active = row.active
  BY DEF Revoked, Row

LEMMA LoginKeepsIInv ==
    ASSUME IInv, NEW w \in Workers, IssueLogin(w)
    PROVE  IInv'
<1> DEFINE id == req[w].uid
           row == req[w].row
           new == SessionOf(id, row)
<1>1. req[w].op = "login"
      /\ cookies' = cookies \cup {new}
      /\ req' = [req EXCEPT ![w] = Idle]
      /\ UNCHANGED <<users, created, pats, ended, lost>>
  BY DEF IssueLogin, Issue, Finish
<1>2. req[w] # Idle /\ req[w] \in [op : Ops, uid : Ids, row : Row]
  BY <1>1 DEF IInv, TypeOK, Request, Idle
<1>3. /\ new \in Cookie
      /\ new.uid = id /\ new.ver = row.ver /\ new.pw = row.pw /\ new.born = row.born
  BY <1>2 DEF SessionOf, Cookie, Row
<1> HIDE DEF new
<1>4. TypeOK'
  BY <1>1, <1>3 DEF IInv, TypeOK, Request
<1>5. \A v \in Workers : req'[v] # Idle => req'[v] = req[v]
  BY <1>1 DEF IInv, TypeOK
<1>6. IdsAreFinal'
  BY <1>1, <1>2, <1>3, <1>5 DEF IInv, IdsAreFinal
<1>7. ~lost' => NothingAhead' /\ EndedIsOlder'
  BY <1>1, <1>2, <1>3, <1>5 DEF IInv, NothingAhead, EndedIsOlder
<1> QED BY <1>4, <1>6, <1>7 DEF IInv

\* What a handler that changes its row writes.
LEMMA CommitWrites ==
    ASSUME IInv, NEW w \in Workers,
           \/ CommitLogout(w)
           \/ CommitChangePassword(w)
           \/ CommitResetPassword(w)
           \/ CommitDeactivate(w)
           \/ CommitReactivate(w)
    PROVE  /\ req[w] # Idle
           /\ \E changed, issued :
                /\ MayWrite(req[w].row, changed)
                /\ issued \in SUBSET {SessionOf(req[w].uid, changed)}
                /\ issued # {} => changed.ver = req[w].row.ver + 1 /\ changed.pw # req[w].row.pw
                /\ Write(w, changed, issued)
<1> DEFINE row == req[w].row
           withPassword == [row EXCEPT !.pw = @ + 1]
           inactive == [row EXCEPT !.active = FALSE]
           active == [row EXCEPT !.active = TRUE]
<1>1. req[w].op \in {"logout", "change", "reset", "deactivate", "reactivate"}
  BY DEF CommitLogout, CommitChangePassword, CommitResetPassword, CommitDeactivate,
         CommitReactivate
<1>2. req[w] # Idle /\ row \in Row
  BY <1>1 DEF IInv, TypeOK, Request, Idle
<1>3. /\ withPassword \in Row /\ withPassword.pw # row.pw
      /\ withPassword.ver = row.ver /\ withPassword.name = row.name
      /\ withPassword.born = row.born
  BY <1>2 DEF Row
<1>4. /\ inactive \in Row /\ inactive.ver = row.ver
      /\ inactive.name = row.name /\ inactive.born = row.born
  BY <1>2 DEF Row
<1>5. /\ active \in Row /\ active.ver = row.ver /\ active.pw = row.pw /\ active.active
      /\ active.name = row.name /\ active.born = row.born
  BY <1>2 DEF Row
<1> HIDE DEF withPassword, inactive, active
<1>6. CASE CommitLogout(w)
  <2>1. MayWrite(row, Revoked(row)) /\ Write(w, Revoked(row), {})
    BY <1>2, <1>6, RevokedRow DEF MayWrite, CommitLogout
  <2> QED BY <1>2, <2>1
<1>7. CASE CommitChangePassword(w)
  <2> DEFINE changed == Revoked(withPassword)
  <2>1. /\ MayWrite(row, changed)
        /\ changed.ver = row.ver + 1 /\ changed.pw # row.pw
    BY <1>3, RevokedRow DEF MayWrite
  <2>2. Write(w, changed, {SessionOf(req[w].uid, changed)})
    BY <1>7 DEF CommitChangePassword, withPassword
  <2> HIDE DEF changed
  <2> QED BY <1>2, <2>1, <2>2
<1>8. CASE CommitResetPassword(w)
  <2>1. MayWrite(row, Revoked(withPassword))
    BY <1>3, RevokedRow DEF MayWrite
  <2>2. Write(w, Revoked(withPassword), {})
    BY <1>8 DEF CommitResetPassword, withPassword
  <2> QED BY <1>2, <2>1, <2>2
<1>9. CASE CommitDeactivate(w)
  <2>1. MayWrite(row, Revoked(inactive))
    BY <1>4, RevokedRow DEF MayWrite
  <2>2. Write(w, Revoked(inactive), {})
    BY <1>9 DEF CommitDeactivate, inactive
  <2> QED BY <1>2, <2>1, <2>2
<1>10. CASE CommitReactivate(w)
  <2>1. MayWrite(row, active)
    BY <1>5 DEF MayWrite
  <2>2. Write(w, active, {})
    BY <1>10 DEF CommitReactivate, active
  <2> QED BY <1>2, <2>1, <2>2
<1> QED BY <1>6, <1>7, <1>8, <1>9, <1>10

LEMMA CommitKeepsIInv ==
    ASSUME IInv, NEW w \in Workers,
           \/ CommitLogout(w)
           \/ CommitChangePassword(w)
           \/ CommitResetPassword(w)
           \/ CommitDeactivate(w)
           \/ CommitReactivate(w)
    PROVE  IInv'
BY CommitWrites, WriteKeepsIInv

\* A deleted row takes its sessions with it; the foreign key keeps the rows
\* tokens point to.
LEMMA DeleteKeepsIInv ==
    ASSUME ~IdReuse, IInv, NEW w \in Workers, CommitDelete(w)
    PROVE  IInv'
<1> DEFINE id == req[w].uid
<1>1. /\ req' = [req EXCEPT ![w] = Idle]
      /\ UNCHANGED <<created, cookies, pats, lost>>
      /\ ended' = ended \cup {c \in cookies : Accepts(c, users) /\ ~Accepts(c, users')}
  BY DEF CommitDelete, Finish, NoteEnded
<1>2. /\ DOMAIN users' \subseteq DOMAIN users
      /\ users' \in [DOMAIN users' -> Row]
      /\ \A i \in DOMAIN users' : users'[i] = users[i]
      /\ \A t \in pats : t.uid \in DOMAIN users => t.uid \in DOMAIN users'
  <2>1. CASE Deletable(id)
    BY <2>1 DEF CommitDelete, Deletable, IInv, TypeOK
  <2>2. CASE ~Deletable(id)
    BY <2>2 DEF CommitDelete, IInv, TypeOK
  <2> QED BY <2>1, <2>2
<1>3. TypeOK'
  BY <1>1, <1>2 DEF IInv, TypeOK, Request
<1>4. \A v \in Workers : req'[v] # Idle => req'[v] = req[v]
  BY <1>1 DEF IInv, TypeOK
<1>5. IdsAreFinal'
  BY <1>1, <1>2, <1>4 DEF IInv, IdsAreFinal
<1>6. \A c \in ended' : c \in ended \/ c.uid \notin DOMAIN users'
  BY <1>1, <1>2 DEF Accepts
<1>7. ~lost' => NothingAhead' /\ EndedIsOlder'
  BY <1>1, <1>2, <1>4, <1>6 DEF IInv, NothingAhead, EndedIsOlder
<1> QED BY <1>3, <1>5, <1>7 DEF IInv

\* A new account gets an id nothing refers to yet.
LEMMA CreateKeepsIInv ==
    ASSUME ~IdReuse, IInv, NEW n \in Names, NEW pw \in {NoPassword, 1}, CreateUser(n, pw)
    PROVE  IInv'
<1> DEFINE id == created + 1
           row == [name |-> n, active |-> TRUE, ver |-> 0, pw |-> pw, born |-> id]
<1>1. /\ users' = [i \in DOMAIN users \cup {id} |-> IF i = id THEN row ELSE users[i]]
      /\ created < MaxAccounts /\ created' = id
      /\ ended' = ended \cup {c \in cookies : Accepts(c, users) /\ ~Accepts(c, users')}
      /\ UNCHANGED <<cookies, pats, req, lost>>
  BY DEF CreateUser, NewId, NoteEnded
<1>2. id \in Ids /\ created \in Nat /\ id \notin DOMAIN users
  BY <1>1, SessionsAssumption DEF IInv, TypeOK, IdsAreFinal, Ids
<1>3. row \in Row /\ row.born = id
  BY <1>2 DEF Row, NoPassword
<1> HIDE DEF row
<1>4. /\ DOMAIN users' = DOMAIN users \cup {id}
      /\ users' \in [DOMAIN users' -> Row]
      /\ users'[id] = row
      /\ \A i \in DOMAIN users : users'[i] = users[i]
  BY <1>1, <1>2, <1>3 DEF IInv, TypeOK
<1>5. ended' = ended
  BY <1>1, <1>4 DEF Accepts
<1>6. /\ \A c \in cookies : c.uid # id
      /\ \A v \in Workers : req[v] # Idle => req[v].uid # id
  BY <1>2 DEF IInv, TypeOK, IdsAreFinal, Cookie, Request, Ids
<1>7. TypeOK'
  BY <1>1, <1>2, <1>4, <1>5, SessionsAssumption DEF IInv, TypeOK, Ids
<1>8. IdsAreFinal'
  BY <1>1, <1>2, <1>3, <1>4, <1>6 DEF IInv, TypeOK, IdsAreFinal, Ids, Cookie, Request
<1>9. ~lost' => NothingAhead' /\ EndedIsOlder'
  BY <1>1, <1>4, <1>5, <1>6 DEF IInv, TypeOK, NothingAhead, EndedIsOlder
<1> QED BY <1>7, <1>8, <1>9 DEF IInv

LEMMA TokenKeepsIInv ==
    ASSUME ~IdReuse, IInv, NEW w \in Workers, CommitCreateToken(w)
    PROVE  IInv'
<1> DEFINE new == [uid |-> req[w].uid, born |-> req[w].row.born]
<1>1. /\ req[w].op = "token"
      /\ req' = [req EXCEPT ![w] = Idle]
      /\ UNCHANGED <<users, created, cookies, ended, lost>>
      /\ \A t \in pats' : t \in pats \/ (t = new /\ req[w].uid \in DOMAIN users)
  BY DEF CommitCreateToken, Finish
<1>2. req[w] # Idle /\ req[w] \in [op : Ops, uid : Ids, row : Row]
  BY <1>1 DEF IInv, TypeOK, Request, Idle
<1>3. new \in Token /\ new.uid = req[w].uid /\ new.born = req[w].row.born
  BY <1>2 DEF Token, Row
<1> HIDE DEF new
<1>4. TypeOK'
  BY <1>1, <1>3 DEF IInv, TypeOK, Request
<1>5. \A v \in Workers : req'[v] # Idle => req'[v] = req[v]
  BY <1>1 DEF IInv, TypeOK
<1>6. IdsAreFinal'
  BY <1>1, <1>2, <1>3, <1>5 DEF IInv, IdsAreFinal
<1>7. ~lost' => NothingAhead' /\ EndedIsOlder'
  BY <1>1, <1>5 DEF IInv, NothingAhead, EndedIsOlder
<1> QED BY <1>4, <1>6, <1>7 DEF IInv

-----------------------------------------------------------------------------

\* Every step keeps the invariant.
LEMMA NextKeepsIInv ==
    ASSUME ~IdReuse, IInv, [Next]_vars
    PROVE  IInv'
<1>1. ASSUME NEW w \in Workers, NEW id \in DOMAIN users, ReadStep(w, id)
      PROVE  IInv'
  <2>1. PICK op \in Ops : Read(w, op, id)
    BY <1>1 DEF ReadStep, ReadLogin, ReadLogout, ReadChangePassword, ReadResetPassword,
                ReadDeactivate, ReadReactivate, ReadDelete, ReadCreateToken, Ops
  <2> QED BY <2>1, ReadKeepsIInv
<1>2. ASSUME NEW w \in Workers, CommitStep(w)
      PROVE  IInv'
  BY <1>2, LoginKeepsIInv, CommitKeepsIInv, DeleteKeepsIInv, TokenKeepsIInv DEF CommitStep
<1>3. ASSUME NEW c \in cookies, Expire(c)
      PROVE  IInv'
  BY <1>3 DEF Expire, IInv, TypeOK, IdsAreFinal, NothingAhead, EndedIsOlder
<1>4. ASSUME NEW n \in Names, NEW pw \in {NoPassword, 1}, CreateUser(n, pw)
      PROVE  IInv'
  BY <1>4, CreateKeepsIInv
<1>5. ASSUME NEW t \in pats, DropToken(t)
      PROVE  IInv'
  BY <1>5 DEF DropToken, IInv, TypeOK, IdsAreFinal, NothingAhead, EndedIsOlder
<1>6. ASSUME UNCHANGED vars
      PROVE  IInv'
  BY <1>6 DEF vars, IInv, TypeOK, IdsAreFinal, NothingAhead, EndedIsOlder
<1> QED BY <1>1, <1>2, <1>3, <1>4, <1>5, <1>6 DEF Next

\* The invariant and what it implies, in every reachable state.
LEMMA Invariance ==
    ASSUME ~IdReuse
    PROVE  Spec => []IInv
<1>1. Init => IInv
  BY InitIInv
<1>2. IInv /\ [Next]_vars => IInv'
  BY NextKeepsIInv
<1> QED BY <1>1, <1>2, PTL DEF Spec

\* The variables keep their types.
THEOREM TypeCorrect ==
    ASSUME ~IdReuse
    PROVE  Spec => []TypeOK
<1>1. IInv => TypeOK
  BY DEF IInv
<1> QED BY <1>1, Invariance, PTL

\* A session that ended is never accepted again, unless two revocations of one
\* account overlapped.
THEOREM EndedForGood ==
    ASSUME ~IdReuse
    PROVE  Spec => []EndedStaysEnded
<1>1. IInv => EndedStaysEnded
  BY DEF IInv, TypeOK, Cookie, Row, EndedIsOlder, EndedStaysEnded, Accepts
<1> QED BY <1>1, Invariance, PTL

\* A session never outlives the password it was opened with, unless two
\* revocations of one account overlapped.
THEOREM CurrentPassword ==
    ASSUME ~IdReuse
    PROVE  Spec => []SessionHasCurrentPassword
<1>1. IInv => SessionHasCurrentPassword
  BY DEF IInv, NothingAhead, SessionHasCurrentPassword, Accepts
<1> QED BY <1>1, Invariance, PTL

-----------------------------------------------------------------------------

\* A handler at work becomes idle by its own step alone, which is not a read.
LEMMA OwnStepEnds ==
    ASSUME TypeOK, NEW w \in Workers, Revokes(w), req'[w] = Idle, [Next]_vars
    PROVE  \/ CommitLogout(w) \/ CommitChangePassword(w)
           \/ CommitResetPassword(w) \/ CommitDeactivate(w)
<1>1. req[w] # Idle
  BY DEF Revokes, Idle
<1>2. req' # req
  BY <1>1
<1>3. PICK v \in Workers : (\E id \in DOMAIN users : ReadStep(v, id)) \/ CommitStep(v)
  BY <1>2 DEF Next, vars, Expire, CreateUser, DropToken
<1>4. v = w
  <2>1. CASE \E id \in DOMAIN users : ReadStep(v, id)
    BY <1>1, <2>1 DEF ReadStep, ReadLogin, ReadLogout, ReadChangePassword, ReadResetPassword,
       ReadDeactivate, ReadReactivate, ReadDelete, ReadCreateToken, Read, TypeOK
  <2>2. CASE CommitStep(v)
    BY <1>1, <2>2 DEF CommitStep, IssueLogin, CommitLogout, CommitChangePassword,
       CommitResetPassword, CommitDeactivate, CommitReactivate, CommitDelete,
       CommitCreateToken, Write, Finish, TypeOK
  <2> QED BY <1>3, <2>1, <2>2
<1>5. ~\E id \in DOMAIN users : ReadStep(w, id)
  BY <1>1 DEF ReadStep, ReadLogin, ReadLogout, ReadChangePassword, ReadResetPassword,
     ReadDeactivate, ReadReactivate, ReadDelete, ReadCreateToken, Read
<1>6. CommitStep(w)
  BY <1>3, <1>4, <1>5
<1> QED BY <1>6 DEF CommitStep, Revokes, IssueLogin, CommitReactivate, CommitDelete,
        CommitCreateToken

\* The commit of a handler that read the current version leaves the next one.
LEMMA RevocationRaises ==
    ASSUME TypeOK, NEW w \in Workers, req[w].op \in Ops, req[w] # Idle,
           req[w].uid \in DOMAIN users, users[req[w].uid].ver = req[w].row.ver,
           NEW changed \in Row, changed.ver = req[w].row.ver + 1,
           NEW issued, Write(w, changed, issued)
    PROVE  users'[req[w].uid].ver = users[req[w].uid].ver + 1
<1>1. req[w].row \in Row /\ users[req[w].uid] \in Row
  BY DEF TypeOK, Request
<1>2. users'[req[w].uid] = Written(users[req[w].uid], req[w].row, changed)
  BY DEF Write
<1>3. Written(users[req[w].uid], req[w].row, changed).ver = changed.ver
  BY <1>1, WrittenRow DEF Row
<1> QED BY <1>2, <1>3

\* A handler that read the version it replaces ends every session of the account,
\* whatever else overlaps.
THEOREM RevocationsEndSessions ==
    ASSUME ~IdReuse
    PROVE  Spec => RevocationEndsEverySession
<1>1. ASSUME TypeOK, [Next]_vars, NEW w \in Workers, Revokes(w), req'[w] = Idle,
             req[w].uid \in DOMAIN users, users[req[w].uid].ver = req[w].row.ver,
             NEW c \in cookies, c.uid = req[w].uid, Accepts(c, users)
      PROVE  ~Accepts(c, users')
  <2>1. req[w] # Idle /\ req[w].op \in Ops /\ req[w].row \in Row
    BY <1>1 DEF TypeOK, Request, Revokes, Idle, Ops
  <2>2. users'[req[w].uid].ver = users[req[w].uid].ver + 1
    <3>1. PICK changed, issued : /\ changed \in Row /\ changed.ver = req[w].row.ver + 1
                                 /\ Write(w, changed, issued)
      <4> DEFINE repassed == [req[w].row EXCEPT !.pw = @ + 1]
                 inactive == [req[w].row EXCEPT !.active = FALSE]
      <4>1. ASSUME NEW row \in {req[w].row, repassed, inactive}
            PROVE  Revoked(row) \in Row /\ Revoked(row).ver = req[w].row.ver + 1
        <5>1. req[w].row \in Row /\ req[w].row.ver \in Nat
          BY <2>1 DEF Row
        <5>2. repassed \in Row /\ repassed.ver = req[w].row.ver
          BY <5>1 DEF Row
        <5>3. inactive \in Row /\ inactive.ver = req[w].row.ver
          BY <5>1 DEF Row
        <5> HIDE DEF repassed, inactive
        <5>4. row \in Row /\ row.ver = req[w].row.ver
          BY <4>1, <5>1, <5>2, <5>3
        <5> QED BY <5>4 DEF Revoked, Row
      <4>2. CASE CommitLogout(w)
        <5>1. Write(w, Revoked(req[w].row), {})
          BY <4>2 DEF CommitLogout
        <5> QED BY <4>1, <5>1
      <4>3. CASE CommitChangePassword(w)
        <5>1. Write(w, Revoked(repassed), {SessionOf(req[w].uid, Revoked(repassed))})
          BY <4>3 DEF CommitChangePassword
        <5> HIDE DEF repassed
        <5> QED BY <4>1, <5>1
      <4>4. CASE CommitResetPassword(w)
        <5>1. Write(w, Revoked(repassed), {})
          BY <4>4 DEF CommitResetPassword
        <5> HIDE DEF repassed
        <5> QED BY <4>1, <5>1
      <4>5. CASE CommitDeactivate(w)
        <5>1. Write(w, Revoked(inactive), {})
          BY <4>5 DEF CommitDeactivate
        <5> HIDE DEF inactive
        <5> QED BY <4>1, <5>1
      <4> QED BY <1>1, <4>2, <4>3, <4>4, <4>5, OwnStepEnds
    <3> QED BY <1>1, <2>1, <3>1, RevocationRaises
  <2>3. c.ver = users[req[w].uid].ver /\ users[req[w].uid].ver \in Nat
    BY <1>1 DEF Accepts, TypeOK, Row
  <2> QED BY <1>1, <2>2, <2>3 DEF Accepts
<1>2. IInv /\ [Next]_vars =>
        [\A w \in Workers :
           /\ Revokes(w) /\ req'[w] = Idle
           /\ req[w].uid \in DOMAIN users
           /\ users[req[w].uid].ver = req[w].row.ver
           => \A c \in cookies : c.uid = req[w].uid /\ Accepts(c, users)
                                   => ~Accepts(c, users')]_vars
  BY <1>1 DEF IInv
<1> QED BY <1>2, Invariance, PTL DEF Spec, RevocationEndsEverySession

-----------------------------------------------------------------------------
(* The table of sessions that the cookies amount to.                       *)

\* No session is open and ended at once.
LEMMA OpenIsNotClosed ==
    ASSUME IInv', ~lost'
    PROVE  \A c \in Accepted' : c \notin ended'
<1> SUFFICES ASSUME NEW c \in Accepted', c \in ended' PROVE FALSE
  OBVIOUS
<1>1. c.uid \in DOMAIN users' /\ c.ver = users'[c.uid].ver
  BY DEF Accepted, Accepts
<1>2. c.ver < users'[c.uid].ver /\ users'[c.uid].ver \in Nat
  BY <1>1 DEF IInv, EndedIsOlder, TypeOK, Row
<1> QED BY <1>1, <1>2

\* A row that is written ends all sessions of its account, or lets some begin.
LEMMA WriteActsAsStore ==
    ASSUME IInv, IInv', ~lost', NEW w \in Workers, req[w] # Idle,
           NEW changed, MayWrite(req[w].row, changed),
           NEW issued \in SUBSET {SessionOf(req[w].uid, changed)},
           Write(w, changed, issued)
    PROVE  Store!Next \/ UNCHANGED <<Accepted, ended>>
<1> DEFINE id == req[w].uid
           read == req[w].row
           now == users[id]
           new == users'[id]
<1>1. /\ id \in Ids /\ read \in Row /\ changed \in Row
      /\ read.born = id /\ changed.born = id
  BY DEF IInv, TypeOK, Request, MayWrite, IdsAreFinal
<1>2. CASE id \notin DOMAIN users
  BY <1>2 DEF Write, Accepted
<1>3. CASE id \in DOMAIN users
  <2>1. /\ users' = [users EXCEPT ![id] = Written(now, read, changed)]
        /\ ended' = ended \cup {c \in cookies : Accepts(c, users) /\ ~Accepts(c, users')}
        /\ ~(changed.ver # read.ver /\ now.ver # read.ver)
        /\ cookies' = cookies \cup issued
    BY <1>3 DEF Write, NoteEnded, Issue
  <2>2. now \in Row /\ new = Written(now, read, changed) /\ DOMAIN users' = DOMAIN users
        /\ \A i \in DOMAIN users : i # id => users'[i] = users[i]
    BY <1>3, <2>1 DEF IInv, TypeOK
  <2>3. /\ new \in Row /\ new.name = now.name
        /\ new.active = IF changed.active = read.active THEN now.active ELSE changed.active
        /\ new.ver = IF changed.ver = read.ver THEN now.ver ELSE changed.ver
    BY <1>1, <2>2, WrittenRow
  <2>4. \A c \in issued : c.uid = id /\ c.born = id
    BY <1>1 DEF SessionOf
  <2>5. \A c \in cookies : c.born = c.uid
    BY DEF IInv, IdsAreFinal
  <2>6. \A c \in Accepted' : c \notin ended'
    BY OpenIsNotClosed
  <2>7. read.ver \in Nat /\ now.ver \in Nat /\ new.ver \in Nat
    BY <1>1, <2>2, <2>3 DEF Row
  <2> HIDE DEF new, now, read, id
  <2>8. \A c \in cookies \cup issued : c.uid # id => (Accepts(c, users') <=> Accepts(c, users))
    BY <2>2 DEF Accepts
  <2>9. CASE changed.ver = read.ver + 1
    <3>1. new.ver # now.ver
      BY <2>1, <2>3, <2>7, <2>9
    <3>2. \A c \in cookies : c.uid = id /\ Accepts(c, users) => ~Accepts(c, users')
      BY <3>1 DEF Accepts, now, new
    <3>3. ended' = ended \cup {c \in Accepted : c.born = id}
      BY <2>1, <2>5, <2>8, <3>2 DEF Accepted
    <3>4. {c \in Accepted' : c.born # id} = {c \in Accepted : c.born # id}
      BY <2>1, <2>4, <2>5, <2>8 DEF Accepted
    <3>5. Store!EndAll(id)
      BY <2>6, <3>3, <3>4 DEF Store!EndAll
    <3> QED BY <1>1, <3>5 DEF id, Store!Next
  <2>10. CASE changed.ver = read.ver /\ changed.active
    <3>1. new.ver = now.ver /\ (now.active => new.active)
      BY <2>3, <2>10
    <3>2. \A c \in cookies : Accepts(c, users) => Accepts(c, users')
      BY <1>3, <2>2, <2>3, <2>8, <3>1 DEF Accepts, now, new, id
    <3>3. ended' = ended
      BY <2>1, <3>2
    <3>4. Accepted \subseteq Accepted'
      BY <2>1, <3>2 DEF Accepted
    <3>5. \A c \in Accepted' \ Accepted : c.born = id
      BY <2>1, <2>4, <2>5, <2>8 DEF Accepted
    <3>6. Store!Begin(id)
      BY <2>6, <3>3, <3>4, <3>5 DEF Store!Begin
    <3> QED BY <1>1, <3>6 DEF id, Store!Next
  <2> QED BY <2>9, <2>10 DEF MayWrite, read
<1> QED BY <1>2, <1>3

\* Every step is one of the table's, or one it does not see.
LEMMA StepActsAsStore ==
    ASSUME ~IdReuse, IInv, IInv', [Next]_vars, ~lost'
    PROVE  Store!Next \/ UNCHANGED <<Accepted, ended>>
<1>1. ASSUME UNCHANGED <<users, cookies, ended>> PROVE UNCHANGED <<Accepted, ended>>
  BY <1>1 DEF Accepted
<1>2. ASSUME NEW w \in Workers, NEW id \in DOMAIN users, ReadStep(w, id)
      PROVE  UNCHANGED <<users, cookies, ended>>
  BY <1>2 DEF ReadStep, ReadLogin, ReadLogout, ReadChangePassword, ReadResetPassword,
     ReadDeactivate, ReadReactivate, ReadDelete, ReadCreateToken, Read
<1>3. ASSUME NEW w \in Workers, IssueLogin(w) PROVE Store!Next
  <2> DEFINE id == req[w].uid
             session == SessionOf(id, req[w].row)
  <2>1. req[w].op = "login" /\ UNCHANGED <<users, ended>> /\ cookies' = cookies \cup {session}
    BY <1>3 DEF IssueLogin, Issue
  <2>2. req[w] # Idle
    BY <2>1 DEF Idle
  <2>3. id \in Ids /\ session.born = id
    BY <2>2 DEF IInv, TypeOK, Request, IdsAreFinal, SessionOf
  <2>4. Accepted \subseteq Accepted' /\ \A c \in Accepted' \ Accepted : c = session
    BY <2>1 DEF Accepted
  <2>5. Store!Begin(id)
    BY <2>1, <2>3, <2>4, OpenIsNotClosed DEF Store!Begin
  <2> QED BY <2>3, <2>5 DEF Store!Next
<1>4. ASSUME NEW w \in Workers,
             \/ CommitLogout(w) \/ CommitChangePassword(w) \/ CommitResetPassword(w)
             \/ CommitDeactivate(w) \/ CommitReactivate(w)
      PROVE  Store!Next \/ UNCHANGED <<Accepted, ended>>
  <2> PICK changed, issued :
             /\ MayWrite(req[w].row, changed)
             /\ issued \in SUBSET {SessionOf(req[w].uid, changed)}
             /\ Write(w, changed, issued) /\ req[w] # Idle
    BY <1>4, CommitWrites
  <2> QED BY WriteActsAsStore
<1>5. ASSUME NEW w \in Workers, CommitDelete(w) PROVE Store!Next \/ UNCHANGED <<Accepted, ended>>
  <2> DEFINE id == req[w].uid
  <2>1. id \in Ids
    BY <1>5 DEF CommitDelete, IInv, TypeOK, Request, Idle
  <2>2. /\ cookies' = cookies
        /\ ended' = ended \cup {c \in cookies : Accepts(c, users) /\ ~Accepts(c, users')}
    BY <1>5 DEF CommitDelete, NoteEnded
  <2>3. CASE ~Deletable(id)
    BY <1>5, <2>2, <2>3 DEF CommitDelete, Accepted
  <2>4. CASE Deletable(id)
    <3>1. \A c \in cookies : Accepts(c, users') <=> Accepts(c, users) /\ c.uid # id
      BY <1>5, <2>4 DEF CommitDelete, Accepts
    <3>2. \A c \in cookies : c.born = c.uid
      BY DEF IInv, IdsAreFinal
    <3>3. ended' = ended \cup {c \in Accepted : c.born = id}
      BY <2>2, <3>1, <3>2 DEF Accepted
    <3>4. /\ {c \in Accepted' : c.born # id} = {c \in Accepted : c.born # id}
          /\ \A c \in Accepted' : c.born # id
      BY <2>2, <3>1, <3>2 DEF Accepted
    <3>5. Store!EndAll(id)
      BY <3>3, <3>4 DEF Store!EndAll
    <3> QED BY <2>1, <3>5 DEF Store!Next
  <2> QED BY <2>3, <2>4
<1>6. ASSUME NEW w \in Workers, CommitCreateToken(w) PROVE UNCHANGED <<users, cookies, ended>>
  BY <1>6 DEF CommitCreateToken
<1>7. ASSUME NEW c \in cookies, Expire(c) PROVE Store!Next \/ UNCHANGED <<Accepted, ended>>
  <2>1. Accepted' = Accepted \ {c} /\ ended' = ended \ {c}
    BY <1>7 DEF Expire, Accepted
  <2>2. CASE c \in Accepted \cup ended
    BY <2>1, <2>2 DEF Store!Expire, Store!Next
  <2>3. CASE c \notin Accepted \cup ended
    BY <2>1, <2>3
  <2> QED BY <2>2, <2>3
<1>8. ASSUME NEW n \in Names, NEW pw \in {NoPassword, 1}, CreateUser(n, pw)
      PROVE  UNCHANGED <<Accepted, ended>>
  <2> DEFINE id == created + 1
  <2>1. /\ cookies' = cookies
        /\ ended' = ended \cup {c \in cookies : Accepts(c, users) /\ ~Accepts(c, users')}
        /\ DOMAIN users' = DOMAIN users \cup {id}
        /\ \A i \in DOMAIN users : i # id => users'[i] = users[i]
    BY <1>8 DEF CreateUser, NewId, NoteEnded
  <2>2. \A c \in cookies : c.uid # id
    <3>1. created \in Nat
      BY SessionsAssumption DEF IInv, TypeOK
    <3>2. \A c \in cookies : c.uid <= created /\ c.uid \in Nat
      BY DEF IInv, TypeOK, IdsAreFinal, Cookie, Ids
    <3> QED BY <3>1, <3>2
  <2>3. \A c \in cookies : Accepts(c, users') <=> Accepts(c, users)
    BY <2>1, <2>2 DEF Accepts
  <2> QED BY <2>1, <2>3 DEF Accepted
<1>9. ASSUME NEW t \in pats, DropToken(t) PROVE UNCHANGED <<users, cookies, ended>>
  BY <1>9 DEF DropToken
<1>10. CASE UNCHANGED vars
  BY <1>1, <1>10 DEF vars
<1> QED BY <1>1, <1>2, <1>3, <1>4, <1>5, <1>6, <1>7, <1>8, <1>9, <1>10 DEF Next, CommitStep

\* The signed cookies implement a table of sessions, until two revocations of one
\* account overlap.
THEOREM CookiesActAsStore ==
    ASSUME ~IdReuse
    PROVE  Spec => ActsAsStore
<1>1. Init => Store!Init
  BY DEF Init, Store!Init, Accepted
<1>2. IInv /\ IInv' /\ [Next]_vars => [lost' \/ Store!Next]_<<Accepted, ended>>
  BY StepActsAsStore
<1> QED BY <1>1, <1>2, Invariance, PTL DEF Spec, ActsAsStore

=============================================================================
