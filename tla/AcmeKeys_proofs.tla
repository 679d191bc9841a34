---- MODULE AcmeKeys_proofs ----
(***************************************************************************)
(* Proofs about AcmeKeys for any number of keys, users and handlers, and   *)
(* for both kinds of database; and that it and AdminGuards move in         *)
(* MCAdminGuards as their own specifications say.                          *)
(***************************************************************************)
EXTENDS MCAdminGuards, AdminGuards_proofs

Relies(a) == a.op \in {"create", "assign", "reassign", "use"} /\ a.user # 0

\* A key, or a request about one, and the account that has the id it names.
KeysKept ==
    \A k \in KeyIds : keys[k].user # 0 /\ keys[k].owner \notin crossed => holders[keys[k].user] = keys[k].owner
AsksKept ==
    \A h \in Handlers : Relies(asks[h]) /\ asks[h].owner \notin crossed => holders[asks[h].user] = asks[h].owner

\* A deletion that no write crossed has found every key of its user.
AllFound ==
    \A h \in Handlers : asks[h].op = "delete" /\ ~asks[h].disturbed =>
        \A k \in KeyIds : keys[k].user = asks[h].user => k \in asks[h].found

LogKept == \A e \in logged : e.named \in {0, e.owner} \/ e.owner \in crossed

AcmeInv == AcmeTypeOK /\ KeysKept /\ AsksKept /\ AllFound /\ LogKept

Creation == [op : {"create", "assign"}, user : Ids, owner : Accounts]
Reassignment == [op : {"reassign"}, user : Ids, owner : Accounts, key : KeyIds, was : Ids \cup {0}]
Usage == [op : {"use"}, user : Ids \cup {0}, owner : Accounts]
Removal == [op : {"remove"}, user : Ids]
Deletion == [op : {"delete"}, user : Ids, found : SUBSET KeyIds, disturbed : BOOLEAN]

USE AcmeAssumption

LEMMA AllAsks == Asks = {NoAsk} \cup Creation \cup Reassignment \cup Usage \cup Removal \cup Deletion
  BY DEF Asks, Creation, Reassignment, Usage, Removal, Deletion

\* What a request has read, told by its kind.
LEMMA Kinds ==
    ASSUME NEW a \in Asks
    PROVE  /\ a.op \in {"create", "assign"} => a \in Creation
           /\ a.op = "reassign" => a \in Reassignment
           /\ a.op = "use" => a \in Usage
           /\ a.op = "remove" => a \in Removal
           /\ a.op = "delete" => a \in Deletion
           /\ a.user \in Ids \cup {0}
  BY AllAsks DEF Creation, Reassignment, Usage, Removal, Deletion, NoAsk

LEMMA Plain == NoAsk.op = "none" /\ NoAsk.user = 0 /\ ~Relies(NoAsk) /\ NoAsk \in Asks
               /\ NoKey.user = 0 /\ NoKey.owner = 0
  BY DEF NoAsk, NoKey, Relies, Asks

-----------------------------------------------------------------------------
(* Requests change one at a time.                                          *)

\* Only the request of h changes, and not into one that promises something new.
LEMMA QuietStep ==
    ASSUME AcmeInv, NEW h \in Handlers, NEW a \in Asks,
           asks' = [asks EXCEPT ![h] = a],
           UNCHANGED <<holders, accounts, keys, logged, crossed>>,
           Relies(a) /\ a.owner \notin crossed => holders[a.user] = a.owner,
           a.op = "delete" /\ ~a.disturbed => \A k \in KeyIds : keys[k].user = a.user => k \in a.found
    PROVE  AcmeInv'
<1> USE DEF AcmeInv
<1>1. \A g \in Handlers : asks'[g] = IF g = h THEN a ELSE asks[g]
  BY DEF AcmeTypeOK
<1>2. AcmeTypeOK'
  BY DEF AcmeTypeOK
<1>3. KeysKept' /\ LogKept'
  BY DEF KeysKept, LogKept
<1>4. AsksKept' /\ AllFound'
  BY <1>1 DEF AsksKept, AllFound
<1> QED
  BY <1>2, <1>3, <1>4

LEMMA AddUserStep == ASSUME AcmeInv, NEW i \in Ids, AddUser(i) PROVE AcmeInv'
<1> USE DEF AcmeInv, AddUser
<1>1. holders[i] = 0 /\ 0 \notin Accounts
  BY DEF Given, Accounts
<1>2. accounts + 1 \in Accounts /\ accounts' \in 0..MaxAccounts
  BY DEF AcmeTypeOK, Accounts
<1>3. \A j \in Ids : holders'[j] = IF j = i THEN accounts + 1 ELSE holders[j]
  BY DEF AcmeTypeOK
<1>4. AcmeTypeOK'
  BY <1>2 DEF AcmeTypeOK
<1>5. KeysKept'
  <2> SUFFICES ASSUME NEW k \in KeyIds, keys[k].user # 0, keys[k].owner \notin crossed
               PROVE  holders'[keys[k].user] = keys[k].owner
    BY DEF KeysKept
  <2>1. keys[k] \in Key
    BY Plain DEF AcmeTypeOK
  <2>2. holders[keys[k].user] = keys[k].owner /\ keys[k].owner \in Accounts /\ keys[k].user \in Ids
    BY <2>1 DEF KeysKept, Key
  <2> QED
    BY <2>2, <1>1, <1>3
<1>6. AsksKept'
  <2> SUFFICES ASSUME NEW h \in Handlers, Relies(asks[h]), asks[h].owner \notin crossed
               PROVE  holders'[asks[h].user] = asks[h].owner
    BY DEF AsksKept
  <2>1. asks[h] \in Creation \/ asks[h] \in Reassignment \/ asks[h] \in Usage
    BY Kinds DEF Relies, AcmeTypeOK
  <2>2. asks[h].owner \in Accounts /\ asks[h].user \in Ids
    BY <2>1 DEF Creation, Reassignment, Usage, Relies
  <2>3. holders[asks[h].user] = asks[h].owner
    BY DEF AsksKept
  <2> QED
    BY <2>2, <2>3, <1>1, <1>3
<1>7. AllFound' /\ LogKept'
  BY DEF AllFound, LogKept
<1> QED
  BY <1>4, <1>5, <1>6, <1>7

LEMMA AskStep ==
    ASSUME AcmeInv, NEW h \in Handlers, NEW i \in Ids, AskRemoval(h, i) \/ AskCreate(h, i) \/ AskReassign(h, i)
    PROVE  AcmeInv'
<1>1. holders[i] # 0 => holders[i] \in Accounts
  BY DEF AcmeInv, AcmeTypeOK
<1>2. CASE AskRemoval(h, i)
  <2>1. PICK a : a = [op |-> "remove", user |-> i]
    OBVIOUS
  <2>2. a \in Asks /\ ~Relies(a) /\ a.op # "delete"
    BY <2>1 DEF Asks, Relies
  <2> QED
    BY <1>2, <2>1, <2>2, QuietStep DEF AskRemoval, Moves
<1>3. CASE AskCreate(h, i)
  <2>1. PICK a : a = [op |-> "create", user |-> i, owner |-> holders[i]]
    OBVIOUS
  <2>2. a \in Asks /\ a.op # "delete" /\ a.owner = holders[a.user]
    BY <1>1, <1>3, <2>1 DEF Asks, AskCreate
  <2> QED
    BY <1>3, <2>1, <2>2, QuietStep DEF AskCreate, Moves
<1>4. CASE AskReassign(h, i)
  <2>1. PICK a : a = [op |-> "assign", user |-> i, owner |-> holders[i]]
    OBVIOUS
  <2>2. a \in Asks /\ a.op # "delete" /\ a.owner = holders[a.user]
    BY <1>1, <1>4, <2>1 DEF Asks, AskReassign
  <2> QED
    BY <1>4, <2>1, <2>2, QuietStep DEF AskReassign, Moves
<1> QED
  BY <1>2, <1>3, <1>4

LEMMA FindKeysStep == ASSUME AcmeInv, NEW h \in Handlers, FindKeys(h) PROVE AcmeInv'
<1>1. PICK a : a = [op |-> "delete", user |-> asks[h].user, disturbed |-> FALSE,
                    found |-> {k \in KeyIds : keys[k].user = asks[h].user}]
  OBVIOUS
<1>2. asks[h].user \in Ids
  BY Kinds DEF FindKeys, AcmeInv, AcmeTypeOK, Removal
<1>3. a \in Asks /\ ~Relies(a)
  BY <1>1, <1>2 DEF Asks, Relies
<1> QED
  BY <1>1, <1>3, QuietStep DEF FindKeys

LEMMA FindKeyStep == ASSUME AcmeInv, NEW h \in Handlers, NEW k \in KeyIds, FindKey(h, k) PROVE AcmeInv'
<1>1. PICK a : a = [op |-> "reassign", user |-> asks[h].user, owner |-> asks[h].owner, key |-> k,
                    was |-> keys[k].user]
  OBVIOUS
<1>2. asks[h].user \in Ids /\ asks[h].owner \in Accounts
  BY Kinds DEF FindKey, AcmeInv, AcmeTypeOK, Creation
<1>3. keys[k].user \in Ids \cup {0}
  BY Plain DEF AcmeInv, AcmeTypeOK, Key
<1>4. a \in Asks /\ a.op # "delete"
  BY <1>1, <1>2, <1>3 DEF Asks
<1>5. a.owner \notin crossed => holders[a.user] = a.owner
  BY <1>1, <1>2 DEF AcmeInv, AsksKept, Relies, FindKey, Ids
<1> QED
  BY <1>1, <1>4, <1>5, QuietStep DEF FindKey

LEMMA VerifyKeyStep == ASSUME AcmeInv, NEW h \in Handlers, NEW k \in KeyIds, VerifyKey(h, k) PROVE AcmeInv'
<1>1. PICK a : a = [op |-> "use", user |-> keys[k].user, owner |-> keys[k].owner]
  OBVIOUS
<1>2. keys[k].user \in Ids \cup {0} /\ keys[k].owner \in Accounts
  BY DEF AcmeInv, AcmeTypeOK, Key, VerifyKey
<1>3. a \in Asks /\ a.op # "delete"
  BY <1>1, <1>2 DEF Asks
<1>4. Relies(a) /\ a.owner \notin crossed => holders[a.user] = a.owner
  BY <1>1 DEF AcmeInv, KeysKept, Relies
<1> QED
  BY <1>1, <1>3, <1>4, QuietStep DEF VerifyKey, Moves

LEMMA GiveUpStep == ASSUME AcmeInv, NEW h \in Handlers, GiveUp(h) PROVE AcmeInv'
  BY Plain, QuietStep DEF GiveUp

-----------------------------------------------------------------------------
(* Writes.                                                                 *)

\* A key of user i is written by a request that relied on i, and deletions of i know.
LEMMA WriteStep ==
    ASSUME AcmeInv, NEW h \in Handlers, NEW k \in KeyIds, Relies(asks[h]),
           asks[h].user \in Ids, asks[h].owner \in Accounts,
           keys' = [keys EXCEPT ![k] = [user |-> asks[h].user, owner |-> asks[h].owner]],
           asks' = Disturbed(h, asks[h].user),
           UNCHANGED <<holders, accounts, logged, crossed>>
    PROVE  AcmeInv'
<1> USE DEF AcmeInv
<1>1. PICK r : r = [user |-> asks[h].user, owner |-> asks[h].owner]
  OBVIOUS
<1>2. r \in Key /\ r.user = asks[h].user /\ r.owner = asks[h].owner
  BY <1>1 DEF Key
<1>3. keys' \in [KeyIds -> Key \cup {NoKey}] /\ \A l \in KeyIds : keys'[l] = IF l = k THEN r ELSE keys[l]
  BY <1>1, <1>2 DEF AcmeTypeOK
<1>4. \A g \in Handlers :
         \/ g = h /\ asks'[g] = NoAsk
         \/ asks[g].op # "delete" /\ asks'[g] = asks[g]
         \/ asks[g].op = "delete" /\ asks[g].user # asks[h].user /\ asks'[g] = asks[g]
         \/ asks[g].op = "delete" /\ asks'[g] = [asks[g] EXCEPT !.disturbed = TRUE]
  BY DEF Disturbed
<1>5. \A g \in Handlers :
         asks[g].op = "delete" =>
             LET a == [asks[g] EXCEPT !.disturbed = TRUE] IN a \in Asks /\ a.op = "delete" /\ a.disturbed
  <2> SUFFICES ASSUME NEW g \in Handlers, asks[g].op = "delete"
               PROVE  LET a == [asks[g] EXCEPT !.disturbed = TRUE] IN
                      a \in Asks /\ a.op = "delete" /\ a.disturbed
    OBVIOUS
  <2>1. asks[g] \in Deletion
    BY Kinds DEF AcmeTypeOK
  <2>2. [asks[g] EXCEPT !.disturbed = TRUE] \in Deletion
    BY <2>1 DEF Deletion
  <2>3. [asks[g] EXCEPT !.disturbed = TRUE].disturbed = TRUE
    BY <2>1 DEF Deletion
  <2> QED
    BY <2>2, <2>3, AllAsks DEF Deletion
<1>6. asks' \in [Handlers -> Asks]
  <2>1. DOMAIN asks' = Handlers /\ asks' = [g \in Handlers |-> asks'[g]]
    BY DEF Disturbed
  <2>2. \A g \in Handlers : asks'[g] \in Asks
    BY <1>4, <1>5, Plain DEF AcmeTypeOK
  <2> QED
    BY <2>1, <2>2
<1>7. AcmeTypeOK'
  BY <1>3, <1>6 DEF AcmeTypeOK
<1>8. KeysKept'
  BY <1>2, <1>3 DEF KeysKept, AsksKept
<1>9. AsksKept'
  BY <1>4, <1>5, Plain DEF AsksKept, Relies
<1>10. AllFound'
  BY <1>2, <1>3, <1>4, <1>5, Plain DEF AllFound
<1>11. LogKept'
  BY DEF LogKept
<1> QED
  BY <1>7, <1>8, <1>9, <1>10, <1>11

LEMMA CommitCreateStep == ASSUME AcmeInv, NEW h \in Handlers, NEW k \in KeyIds, CommitCreate(h, k) PROVE AcmeInv'
<1>1. asks[h] \in Creation
  BY Kinds DEF CommitCreate, AcmeInv, AcmeTypeOK
<1>2. asks[h].user \in Ids /\ asks[h].owner \in Accounts /\ Relies(asks[h])
  BY <1>1 DEF Creation, Relies, Ids, CommitCreate
<1> QED
  BY <1>2, WriteStep DEF CommitCreate

LEMMA CommitReassignStep == ASSUME AcmeInv, NEW h \in Handlers, CommitReassign(h) PROVE AcmeInv'
<1>1. asks[h] \in Reassignment
  BY Kinds DEF CommitReassign, AcmeInv, AcmeTypeOK
<1>2. /\ asks[h].user \in Ids /\ asks[h].owner \in Accounts /\ asks[h].key \in KeyIds
      /\ Relies(asks[h])
  BY <1>1 DEF Reassignment, Relies, Ids, CommitReassign
<1>3. CASE asks[h].was = asks[h].user
  BY <1>3, Plain, QuietStep DEF CommitReassign
<1>4. CASE asks[h].was # asks[h].user
  BY <1>2, <1>4, WriteStep DEF CommitReassign
<1> QED
  BY <1>3, <1>4

LEMMA DeleteKeyStep == ASSUME AcmeInv, NEW k \in KeyIds, DeleteKey(k) PROVE AcmeInv'
<1> USE DEF AcmeInv, DeleteKey
<1>1. keys' \in [KeyIds -> Key \cup {NoKey}] /\ \A l \in KeyIds : keys'[l] = IF l = k THEN NoKey ELSE keys[l]
  BY DEF AcmeTypeOK
<1>2. AcmeTypeOK'
  BY <1>1 DEF AcmeTypeOK
<1>3. KeysKept' /\ AsksKept' /\ LogKept'
  BY <1>1, Plain DEF KeysKept, AsksKept, LogKept
<1>4. AllFound'
  <2> SUFFICES ASSUME NEW h \in Handlers, asks[h].op = "delete", ~asks[h].disturbed, NEW l \in KeyIds,
                      keys'[l].user = asks[h].user
               PROVE  l \in asks[h].found
    BY DEF AllFound
  <2>1. asks[h].user \in Ids
    BY Kinds DEF AcmeTypeOK, Deletion
  <2>2. asks[h].user # 0
    BY <2>1 DEF Ids
  <2>3. l # k /\ keys[l].user = asks[h].user
    BY <1>1, <2>2, Plain
  <2> QED
    BY <2>3 DEF AllFound
<1> QED
  BY <1>2, <1>3, <1>4

LEMMA LogUseStep == ASSUME AcmeInv, NEW h \in Handlers, LogUse(h) PROVE AcmeInv'
<1> USE DEF AcmeInv, LogUse
<1>1. asks[h] \in Usage
  BY Kinds DEF AcmeTypeOK
<1>2. asks[h].user \in Ids \cup {0} /\ asks[h].owner \in Accounts
  BY <1>1 DEF Usage
<1>3. PICK n : n = IF asks[h].user = 0 THEN 0 ELSE holders[asks[h].user]
  OBVIOUS
<1>4. n \in Accounts \cup {0} /\ (n \in {0, asks[h].owner} \/ asks[h].owner \in crossed)
  BY <1>2, <1>3 DEF AcmeTypeOK, AsksKept, Relies
<1>5. logged' = logged \cup {[owner |-> asks[h].owner, named |-> n]}
  BY <1>3
<1>6. \A g \in Handlers : asks'[g] = IF g = h THEN NoAsk ELSE asks[g]
  BY DEF AcmeTypeOK
<1>7. AcmeTypeOK'
  BY <1>2, <1>4, <1>5, Plain DEF AcmeTypeOK
<1>8. LogKept'
  BY <1>4, <1>5 DEF LogKept
<1>9. KeysKept' /\ AsksKept' /\ AllFound'
  BY <1>6, Plain DEF KeysKept, AsksKept, AllFound
<1> QED
  BY <1>7, <1>8, <1>9

\* The user goes; what still names the id is of an account that was crossed.
LEMMA CommitRemovalStep == ASSUME AcmeInv, NEW h \in Handlers, CommitRemoval(h) PROVE AcmeInv'
<1> USE DEF AcmeInv, CommitRemoval
<1>1. PICK i : i = asks[h].user
  OBVIOUS
<1>2. asks[h] \in Deletion /\ i \in Ids /\ i # 0
  BY <1>1, Kinds DEF AcmeTypeOK, Deletion, Ids
<1>3. \A k \in KeyIds :
         \/ k \notin asks[h].found /\ keys'[k] = keys[k]
         \/ keys'[k] \in Key /\ keys'[k].user = 0
  BY DEF AcmeTypeOK, Key
<1>4. keys' \in [KeyIds -> Key \cup {NoKey}]
  <2>1. DOMAIN keys' = KeyIds /\ keys' = [k \in KeyIds |-> keys'[k]]
    OBVIOUS
  <2>2. \A k \in KeyIds : keys'[k] \in Key \cup {NoKey}
    BY <1>3 DEF AcmeTypeOK
  <2> QED
    BY <2>1, <2>2
<1>5. \A j \in Ids : holders'[j] = IF j = i THEN 0 ELSE holders[j]
  BY <1>1 DEF AcmeTypeOK
<1>6. \A g \in Handlers : asks'[g] = IF g = h THEN NoAsk ELSE asks[g]
  BY DEF AcmeTypeOK
<1>7. /\ crossed \subseteq crossed'
      /\ crossed' \subseteq crossed \cup {holders[i]}
      /\ asks[h].disturbed \/ Relying(i) # {} => holders[i] \in crossed'
  BY <1>1
<1>8. AcmeTypeOK'
  BY <1>1, <1>2, <1>4, <1>7, Plain DEF AcmeTypeOK
<1>9. KeysKept'
  <2> SUFFICES ASSUME NEW k \in KeyIds, keys'[k].user # 0, keys'[k].owner \notin crossed'
               PROVE  holders'[keys'[k].user] = keys'[k].owner
    BY DEF KeysKept
  <2>1. keys'[k] = keys[k] /\ k \notin asks[h].found /\ keys[k].user \in Ids
    BY <1>3, Plain DEF AcmeTypeOK, Key
  <2>2. holders[keys[k].user] = keys[k].owner
    BY <2>1, <1>7 DEF KeysKept
  <2>3. keys[k].user # i
    BY <1>1, <1>7, <2>1, <2>2 DEF AllFound
  <2> QED
    BY <1>5, <2>1, <2>2, <2>3
<1>10. AsksKept'
  <2> SUFFICES ASSUME NEW g \in Handlers, Relies(asks'[g]), asks'[g].owner \notin crossed'
               PROVE  holders'[asks'[g].user] = asks'[g].owner
    BY DEF AsksKept
  <2>1. asks'[g] = asks[g] /\ asks[g].user \in Ids
    BY <1>6, Plain, Kinds DEF AcmeTypeOK, Relies
  <2>2. holders[asks[g].user] = asks[g].owner
    BY <2>1, <1>7 DEF AsksKept
  <2>3. asks[g].user # i
    BY <1>7, <2>1, <2>2 DEF Relying, Relies
  <2> QED
    BY <1>5, <2>1, <2>2, <2>3
<1>11. AllFound'
  <2> SUFFICES ASSUME NEW g \in Handlers, asks'[g].op = "delete", ~asks'[g].disturbed, NEW k \in KeyIds,
                      keys'[k].user = asks'[g].user
               PROVE  k \in asks'[g].found
    BY DEF AllFound
  <2>1. asks'[g] = asks[g]
    BY <1>6, Plain
  <2>2. asks[g].user \in Ids
    BY <2>1, Kinds DEF AcmeTypeOK, Deletion
  <2>3. asks[g].user # 0
    BY <2>2 DEF Ids
  <2>4. keys[k].user = asks[g].user
    BY <1>3, <2>1, <2>3
  <2> QED
    BY <2>1, <2>4 DEF AllFound
<1>12. LogKept'
  BY <1>7 DEF LogKept
<1> QED
  BY <1>8, <1>9, <1>10, <1>11, <1>12

-----------------------------------------------------------------------------

LEMMA InitInvariant == AcmeInit => AcmeInv
<1> SUFFICES ASSUME AcmeInit PROVE AcmeInv
  OBVIOUS
<1>1. AcmeTypeOK
  BY Plain DEF AcmeTypeOK, AcmeInit
<1>2. KeysKept /\ AsksKept /\ AllFound /\ LogKept
  BY Plain DEF KeysKept, AsksKept, AllFound, LogKept, AcmeInit
<1> QED
  BY <1>1, <1>2 DEF AcmeInv

LEMMA StepInvariant == AcmeInv /\ [AcmeNext]_acmeVars => AcmeInv'
<1> SUFFICES ASSUME AcmeInv, [AcmeNext]_acmeVars PROVE AcmeInv'
  OBVIOUS
<1>1. ASSUME NEW i \in Ids, AddUser(i) PROVE AcmeInv'
  BY <1>1, AddUserStep
<1>2. ASSUME NEW h \in Handlers, NEW i \in Ids, AskRemoval(h, i) \/ AskCreate(h, i) \/ AskReassign(h, i)
      PROVE  AcmeInv'
  BY <1>2, AskStep
<1>3. ASSUME NEW h \in Handlers, NEW k \in KeyIds, CommitCreate(h, k) \/ FindKey(h, k) \/ VerifyKey(h, k)
      PROVE  AcmeInv'
  BY <1>3, CommitCreateStep, FindKeyStep, VerifyKeyStep
<1>4. ASSUME NEW h \in Handlers,
             FindKeys(h) \/ CommitRemoval(h) \/ CommitReassign(h) \/ LogUse(h) \/ GiveUp(h)
      PROVE  AcmeInv'
  BY <1>4, FindKeysStep, CommitRemovalStep, CommitReassignStep, LogUseStep, GiveUpStep
<1>5. ASSUME NEW k \in KeyIds, DeleteKey(k) PROVE AcmeInv'
  BY <1>5, DeleteKeyStep
<1>6. CASE UNCHANGED acmeVars
  BY <1>6 DEF acmeVars, AcmeInv, AcmeTypeOK, KeysKept, AsksKept, AllFound, LogKept
<1> QED
  BY <1>1, <1>2, <1>3, <1>4, <1>5, <1>6 DEF AcmeNext

\* The tables and requests keep their types.
THEOREM AcmeTypeCorrect == AcmeSpec => []AcmeTypeOK
<1>1. AcmeInv => AcmeTypeOK
  BY DEF AcmeInv
<1> QED
  BY <1>1, InitInvariant, StepInvariant, PTL DEF AcmeSpec

\* The overview and the audit log name only the account a key was created by or given to.
THEOREM KeysKeepTheirOwner == AcmeSpec => []KeysNameTheirOwner
<1>1. AcmeInv => KeysNameTheirOwner
  BY DEF AcmeInv, KeysKept, LogKept, KeysNameTheirOwner
<1> QED
  BY <1>1, InitInvariant, StepInvariant, PTL DEF AcmeSpec

-----------------------------------------------------------------------------
(* The two parts of the administration, one at a time.                     *)

\* Each part moves as its own specification says: what is proved about the guards and
\* about the keys holds of the administration they are checked in.
THEOREM AdministrationBehaves == MCSpec => Spec /\ AcmeSpec
<1>1. MCInit => Init /\ AcmeInit
  BY DEF MCInit
<1>2. [MCNext]_allVars => [Next]_vars /\ [AcmeNext]_acmeVars
  BY DEF MCNext, allVars
<1> QED
  BY <1>1, <1>2, PTL DEF MCSpec, Spec, AcmeSpec

\* The tables, the workers' decisions and the requests about keys keep their types.
THEOREM AdministrationTypeCorrect == MCSpec => []MCTypeOK
<1>1. TypeOK /\ AcmeTypeOK => MCTypeOK
  BY DEF MCTypeOK
<1> QED
  BY <1>1, AdministrationBehaves, TypeCorrect, AcmeTypeCorrect, PTL

====
