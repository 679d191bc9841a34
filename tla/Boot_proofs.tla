------------------------------ MODULE Boot_proofs ------------------------------
(***************************************************************************)
(* Start-up, for any set of workers: the key file is written once, the      *)
(* workers sign alike, and the startup lock keeps the initialization safe.  *)
(***************************************************************************)
EXTENDS Boot, TLAPS

\* What a worker may rely on about the key file.
KeyInv ==
    /\ \A w \in Workers : shared[w] => file.key # NoKey /\ key[w] = file.key
    /\ file.key # NoKey => file.exists
    /\ ~damaged /\ file.exists => file.key # NoKey
    /\ ~failed /\ ~damaged => \A w \in Workers : key[w] # NoKey => shared[w]
    /\ \A w \in Workers : pc[w] # "down" => run[w] # 0

\* The steps a worker takes while it holds the lock.
Critical == {"migrate", "seed", "seeding", "find", "creating", "promoting"}

\* Unless DATA_DIR failed, one worker at a time initializes the database, and what
\* it read is still so.
LockInv ==
    /\ \A v, w \in locked : v = w
    /\ ~failed => \A w \in Workers : pc[w] \in Critical => w \in locked
    /\ NoStartCollides
    /\ ShownPasswordWorks
    /\ ~failed => \A w \in Workers : pc[w] = "creating" => shown = run[w]

IInv == TypeOK /\ KeyInv /\ LockInv

-----------------------------------------------------------------------------
(* Each part of the invariant is kept by every action. *)

\* Types.
LEMMA TypeKept ==
    ASSUME TypeOK, [Next]_vars
    PROVE  TypeOK'
<1> USE BootAssumption DEF TypeOK, Steps, Runs, NoKey
<1>1. ASSUME NEW w \in Workers, Start(w) PROVE TypeOK'
    BY <1>1 DEF Start, Goto, dbVars, keyVars
<1>2. ASSUME NEW w \in Workers, FindKey(w) PROVE TypeOK'
    BY <1>2 DEF FindKey, Goto, Resolved, dbVars
<1>3. ASSUME NEW w \in Workers, DrawKey(w) PROVE TypeOK'
    BY <1>3 DEF DrawKey, Goto, dbVars, keyVars
<1>4. ASSUME NEW w \in Workers, LinkKey(w) PROVE TypeOK'
    BY <1>4 DEF LinkKey, Goto, Resolved, dbVars
<1>5. ASSUME NEW w \in Workers, TakeOthersKey(w) PROVE TypeOK'
  <2>1. CASE file.key # NoKey
      BY <1>5, <2>1 DEF TakeOthersKey, Goto, Resolved, dbVars
  <2>2. CASE file.key = NoKey
    <3>1. key' = [key EXCEPT ![w] = run[w]] /\ run[w] \in {0} \cup Runs
        BY <1>5, <2>2 DEF TakeOthersKey, Resolved
    <3>2. key' \in [Workers -> {NoKey} \cup Runs]
        BY <3>1
    <3> QED BY <1>5, <2>2, <3>2 DEF TakeOthersKey, Goto, Resolved, dbVars
  <2> QED BY <2>1, <2>2
<1>6. ASSUME NEW w \in Workers, Migrate(w) PROVE TypeOK'
    BY <1>6 DEF Migrate, Goto, keyVars
<1>7. ASSUME NEW w \in Workers, ReadTypes(w) PROVE TypeOK'
    BY <1>7 DEF ReadTypes, Goto, dbVars, keyVars
<1>8. ASSUME NEW w \in Workers, SeedTypes(w) PROVE TypeOK'
    BY <1>8 DEF SeedTypes, Goto, Gone, Refused
<1>9. ASSUME NEW w \in Workers, FindAdmin(w) PROVE TypeOK'
    BY <1>9 DEF FindAdmin, Goto, Serve, keyVars
<1>10. ASSUME NEW w \in Workers, CreateAdmin(w) PROVE TypeOK'
  <2>1. CASE admin.kind = "none"
    <3>1. admin' = [kind |-> "super", pw |-> run[w]] /\ run[w] \in {0} \cup Runs
        BY <1>10, <2>1 DEF CreateAdmin
    <3>2. admin' \in [kind : {"none", "plain", "super"}, pw : {0} \cup Runs]
        BY <3>1
    <3> QED BY <1>10, <2>1, <3>2 DEF CreateAdmin, Goto, Serve
  <2>2. CASE admin.kind # "none"
      BY <1>10, <2>2 DEF CreateAdmin, Goto, Gone, Refused
  <2> QED BY <2>1, <2>2
<1>11. ASSUME NEW w \in Workers, PromoteAdmin(w) PROVE TypeOK'
    BY <1>11 DEF PromoteAdmin, Goto, Gone, Refused, Serve
<1>12. ASSUME NEW w \in Workers, Lock(w) PROVE TypeOK'
    BY <1>12 DEF Lock, Goto, keyVars
<1>13. ASSUME NEW w \in Workers, Crash(w) PROVE TypeOK'
    BY <1>13 DEF Crash, Goto, Gone
<1>14. ASSUME NEW w \in Workers, CannotRead(w) PROVE TypeOK'
    BY <1>14 DEF CannotRead, Goto, dbVars, keyVars
<1>15. ASSUME NEW w \in Workers, CannotReadAgain(w) PROVE TypeOK'
    BY <1>15 DEF CannotReadAgain, Goto, Gone
<1>16. ASSUME NEW w \in Workers, CannotPersist(w) PROVE TypeOK'
    BY <1>16 DEF CannotPersist, Goto, Resolved, dbVars
<1>17. ASSUME NEW w \in Workers, LockMissing(w) PROVE TypeOK'
    BY <1>17 DEF LockMissing, Goto, dbVars, keyVars
<1>18. CASE PowerLoss
  <2>1. pc' \in [Workers -> Steps] /\ key' \in [Workers -> {NoKey} \cup Runs]
        /\ shared' \in [Workers -> BOOLEAN] /\ locked' \subseteq Workers
      BY <1>18 DEF PowerLoss
  <2>2. \/ file' = file /\ damaged' = damaged
        \/ file' = [exists |-> FALSE, key |-> NoKey] /\ damaged' = damaged
        \/ file' = [exists |-> TRUE, key |-> NoKey] /\ damaged' = TRUE
      BY <1>18, Zenon DEF PowerLoss
  <2>3. file' \in [exists : BOOLEAN, key : {NoKey} \cup Runs]
    <3>1. CASE file' = file
        BY <3>1
    <3>2. CASE file' = [exists |-> FALSE, key |-> NoKey]
        BY <3>2
    <3>3. CASE file' = [exists |-> TRUE, key |-> NoKey]
        BY <3>3
    <3> QED BY <2>2, <3>1, <3>2, <3>3, Zenon
  <2>4. damaged' \in BOOLEAN
      BY <2>2, Zenon
  <2> QED BY <1>18, <2>1, <2>3, <2>4 DEF PowerLoss
<1>19. CASE Flush
    BY <1>19 DEF Flush, dbVars
<1>20. CASE Demote
    BY <1>20 DEF Demote, keyVars
<1>21. CASE Remove
    BY <1>21 DEF Remove, keyVars
<1>22. CASE UNCHANGED vars
    BY <1>22 DEF vars
<1> QED
    BY <1>1, <1>2, <1>3, <1>4, <1>5, <1>6, <1>7, <1>8, <1>9, <1>10, <1>11, <1>12,
       <1>13, <1>14, <1>15, <1>16, <1>17, <1>18, <1>19, <1>20, <1>21, <1>22
    DEF Next, Step, Mishap

\* The key file and the keys taken from it.
LEMMA KeyKept ==
    ASSUME TypeOK, KeyInv, [Next]_vars
    PROVE  KeyInv'
<1> USE BootAssumption DEF TypeOK, KeyInv, NoKey, Runs
<1>1. ASSUME NEW w \in Workers, Start(w) PROVE KeyInv'
    BY <1>1 DEF Start, Goto, dbVars, keyVars
<1>2. ASSUME NEW w \in Workers, FindKey(w) PROVE KeyInv'
    BY <1>2 DEF FindKey, Goto, Resolved, dbVars
<1>3. ASSUME NEW w \in Workers, DrawKey(w) PROVE KeyInv'
    BY <1>3 DEF DrawKey, Goto, dbVars, keyVars
<1>4. ASSUME NEW w \in Workers, LinkKey(w) PROVE KeyInv'
    BY <1>4 DEF LinkKey, Goto, Resolved, dbVars
<1>5. ASSUME NEW w \in Workers, TakeOthersKey(w) PROVE KeyInv'
    BY <1>5 DEF TakeOthersKey, Goto, Resolved, dbVars
<1>6. ASSUME NEW w \in Workers, Migrate(w) PROVE KeyInv'
    BY <1>6 DEF Migrate, Goto, keyVars
<1>7. ASSUME NEW w \in Workers, ReadTypes(w) PROVE KeyInv'
    BY <1>7 DEF ReadTypes, Goto, dbVars, keyVars
<1>8. ASSUME NEW w \in Workers, SeedTypes(w) PROVE KeyInv'
    BY <1>8 DEF SeedTypes, Goto, Gone, Refused
<1>9. ASSUME NEW w \in Workers, FindAdmin(w) PROVE KeyInv'
    BY <1>9 DEF FindAdmin, Goto, Serve, keyVars
<1>10. ASSUME NEW w \in Workers, CreateAdmin(w) PROVE KeyInv'
    BY <1>10 DEF CreateAdmin, Goto, Gone, Refused, Serve
<1>11. ASSUME NEW w \in Workers, PromoteAdmin(w) PROVE KeyInv'
    BY <1>11 DEF PromoteAdmin, Goto, Gone, Refused, Serve
<1>12. ASSUME NEW w \in Workers, Lock(w) PROVE KeyInv'
    BY <1>12 DEF Lock, Goto, keyVars
<1>13. ASSUME NEW w \in Workers, Crash(w) PROVE KeyInv'
    BY <1>13 DEF Crash, Goto, Gone
<1>14. ASSUME NEW w \in Workers, CannotRead(w) PROVE KeyInv'
    BY <1>14 DEF CannotRead, Goto, dbVars, keyVars
<1>15. ASSUME NEW w \in Workers, CannotReadAgain(w) PROVE KeyInv'
    BY <1>15 DEF CannotReadAgain, Goto, Gone
<1>16. ASSUME NEW w \in Workers, CannotPersist(w) PROVE KeyInv'
    BY <1>16 DEF CannotPersist, Goto, Resolved, dbVars
<1>17. ASSUME NEW w \in Workers, LockMissing(w) PROVE KeyInv'
    BY <1>17 DEF LockMissing, Goto, dbVars, keyVars
<1>18. CASE PowerLoss
    BY <1>18 DEF PowerLoss
<1>19. CASE Flush
    BY <1>19 DEF Flush, dbVars
<1>20. CASE Demote
    BY <1>20 DEF Demote, keyVars
<1>21. CASE Remove
    BY <1>21 DEF Remove, keyVars
<1>22. CASE UNCHANGED vars
    BY <1>22 DEF vars
<1> QED
    BY <1>1, <1>2, <1>3, <1>4, <1>5, <1>6, <1>7, <1>8, <1>9, <1>10, <1>11, <1>12,
       <1>13, <1>14, <1>15, <1>16, <1>17, <1>18, <1>19, <1>20, <1>21, <1>22
    DEF Next, Step, Mishap

\* The lock and what is done under it.
LEMMA LockKept ==
    ASSUME TypeOK, LockInv, [Next]_vars
    PROVE  LockInv'
<1> USE BootAssumption DEF TypeOK, LockInv, Critical, NoStartCollides, ShownPasswordWorks
<1>1. ASSUME NEW w \in Workers, Start(w) PROVE LockInv'
    BY <1>1 DEF Start, Goto, dbVars, keyVars
<1>2. ASSUME NEW w \in Workers, FindKey(w) PROVE LockInv'
    BY <1>2 DEF FindKey, Goto, Resolved, dbVars
<1>3. ASSUME NEW w \in Workers, DrawKey(w) PROVE LockInv'
    BY <1>3 DEF DrawKey, Goto, dbVars, keyVars
<1>4. ASSUME NEW w \in Workers, LinkKey(w) PROVE LockInv'
    BY <1>4 DEF LinkKey, Goto, Resolved, dbVars
<1>5. ASSUME NEW w \in Workers, TakeOthersKey(w) PROVE LockInv'
    BY <1>5 DEF TakeOthersKey, Goto, Resolved, dbVars
<1>6. ASSUME NEW w \in Workers, Migrate(w) PROVE LockInv'
    BY <1>6 DEF Migrate, Goto, keyVars
<1>7. ASSUME NEW w \in Workers, ReadTypes(w) PROVE LockInv'
    BY <1>7 DEF ReadTypes, Goto, dbVars, keyVars
<1>8. ASSUME NEW w \in Workers, SeedTypes(w) PROVE LockInv'
    BY <1>8 DEF SeedTypes, Goto, Gone, Refused
<1>9. ASSUME NEW w \in Workers, FindAdmin(w) PROVE LockInv'
    BY <1>9 DEF FindAdmin, Goto, Serve, keyVars
<1>10. ASSUME NEW w \in Workers, CreateAdmin(w) PROVE LockInv'
    BY <1>10 DEF CreateAdmin, Goto, Gone, Refused, Serve
<1>11. ASSUME NEW w \in Workers, PromoteAdmin(w) PROVE LockInv'
    BY <1>11 DEF PromoteAdmin, Goto, Gone, Refused, Serve
<1>12. ASSUME NEW w \in Workers, Lock(w) PROVE LockInv'
    BY <1>12 DEF Lock, Goto, keyVars
<1>13. ASSUME NEW w \in Workers, Crash(w) PROVE LockInv'
    BY <1>13 DEF Crash, Goto, Gone
<1>14. ASSUME NEW w \in Workers, CannotRead(w) PROVE LockInv'
    BY <1>14 DEF CannotRead, Goto, dbVars, keyVars
<1>15. ASSUME NEW w \in Workers, CannotReadAgain(w) PROVE LockInv'
    BY <1>15 DEF CannotReadAgain, Goto, Gone
<1>16. ASSUME NEW w \in Workers, CannotPersist(w) PROVE LockInv'
    BY <1>16 DEF CannotPersist, Goto, Resolved, dbVars
<1>17. ASSUME NEW w \in Workers, LockMissing(w) PROVE LockInv'
    BY <1>17 DEF LockMissing, Goto, dbVars, keyVars
<1>18. CASE PowerLoss
    BY <1>18 DEF PowerLoss
<1>19. CASE Flush
    BY <1>19 DEF Flush, dbVars
<1>20. CASE Demote
    BY <1>20 DEF Demote, keyVars
<1>21. CASE Remove
    BY <1>21 DEF Remove, keyVars
<1>22. CASE UNCHANGED vars
    BY <1>22 DEF vars
<1> QED
    BY <1>1, <1>2, <1>3, <1>4, <1>5, <1>6, <1>7, <1>8, <1>9, <1>10, <1>11, <1>12,
       <1>13, <1>14, <1>15, <1>16, <1>17, <1>18, <1>19, <1>20, <1>21, <1>22
    DEF Next, Step, Mishap

LEMMA InitIInv == Init => IInv
<1> SUFFICES ASSUME Init PROVE IInv
    OBVIOUS
<1> USE BootAssumption DEF Init, NoKey
<1>1. TypeOK
  <2>1. file \in [exists : BOOLEAN, key : {NoKey} \cup Runs]
      OBVIOUS
  <2>2. admin \in [kind : {"none", "plain", "super"}, pw : {0} \cup Runs]
      OBVIOUS
  <2>3. pc \in [Workers -> Steps] /\ run \in [Workers -> {0} \cup Runs]
        /\ key \in [Workers -> {NoKey} \cup Runs] /\ shared \in [Workers -> BOOLEAN]
      BY DEF Steps
  <2>4. starts \in 0 .. MaxStarts /\ shown \in {0} \cup Runs /\ locked \subseteq Workers
      OBVIOUS
  <2>5. durable \in BOOLEAN /\ schema \in BOOLEAN /\ seeded \in BOOLEAN
        /\ failed \in BOOLEAN /\ damaged \in BOOLEAN
      BY Zenon
  <2> HIDE DEF Init
  <2> QED BY <2>1, <2>2, <2>3, <2>4, <2>5, Zenon DEF TypeOK
<1>2. KeyInv
    BY DEF KeyInv
<1>3. LockInv
    BY DEF LockInv, NoStartCollides, ShownPasswordWorks, Critical
<1> QED BY <1>1, <1>2, <1>3 DEF IInv

LEMMA Invariance == Spec => []IInv
<1>1. IInv /\ [Next]_vars => IInv'
    BY TypeKept, KeyKept, LockKept DEF IInv
<1> QED BY InitIInv, <1>1, PTL DEF Spec

-----------------------------------------------------------------------------
(* What it gives. *)

\* The variables keep their types (config.py, main.py, database.py).
THEOREM TypeCorrect == Spec => []TypeOK
<1>1. IInv => TypeOK
    BY DEF IInv
<1> QED BY <1>1, Invariance, PTL

\* Every worker signs with the same key while DATA_DIR works, whatever races and
\* dies (config.py _resolve_secret_key).
THEOREM SameKey == Spec => []AllSignAlike
<1>1. IInv => AllSignAlike
    BY DEF IInv, KeyInv, AllSignAlike
<1> QED BY <1>1, Invariance, PTL

\* No start finds the rows it was about to create (main.py startup_lock).
THEOREM StartsDoNotCollide == Spec => []NoStartCollides
<1>1. IInv => NoStartCollides
    BY DEF IInv, LockInv
<1> QED BY <1>1, Invariance, PTL

\* The password printed last is the administrator's (main.py _initialize).
THEOREM ShownPassword == Spec => []ShownPasswordWorks
<1>1. IInv => ShownPasswordWorks
    BY DEF IInv, LockInv
<1> QED BY <1>1, Invariance, PTL

-----------------------------------------------------------------------------
(* The key file is a write-once register. *)

\* The key each worker shares with the file.
Known == [w \in Workers |-> IF shared[w] THEN key[w] ELSE NoKey]

\* Steps that touch neither the file nor a key.
LEMMA QuietStep ==
    ASSUME UNCHANGED <<file, key, shared>>
    PROVE  UNCHANGED <<file.key, Known>>
BY DEF Known

\* A worker that has taken the key of the file has learnt it.
LEMMA LearnStep ==
    ASSUME TypeOK, NEW w \in Workers, file.key # NoKey, UNCHANGED file,
           key' = [key EXCEPT ![w] = file.key], shared' = [shared EXCEPT ![w] = TRUE]
    PROVE  Abstract!Learn(w)
<1>1. Known' = [Known EXCEPT ![w] = file.key]
    BY DEF TypeOK, Known
<1> QED BY <1>1 DEF Abstract!Learn, Abstract!None, NoKey, Known

\* A worker that dies, or that goes on with a key of its own, has forgotten it.
LEMMA ForgetStep ==
    ASSUME TypeOK, NEW w \in Workers, NEW k, UNCHANGED file,
           key' = [key EXCEPT ![w] = k], shared' = [shared EXCEPT ![w] = FALSE]
    PROVE  Abstract!Forget(w)
<1>1. Known' = [Known EXCEPT ![w] = NoKey]
    BY DEF TypeOK, Known
<1> QED BY <1>1 DEF Abstract!Forget, Abstract!None, NoKey, Known

\* Each step of a worker is one of these, or decides the key.
LEMMA WorkerStep ==
    ASSUME IInv, NEW w \in Workers, Start(w) \/ Step(w) \/ Lock(w) \/ Mishap(w)
    PROVE  Abstract!Next \/ UNCHANGED <<file.key, Known>>
<1>0. TypeOK /\ KeyInv
    BY DEF IInv
<1>1. ASSUME Start(w) \/ DrawKey(w) \/ Migrate(w) \/ ReadTypes(w) \/ FindAdmin(w)
             \/ Lock(w) \/ CannotRead(w) \/ LockMissing(w)
      PROVE  UNCHANGED <<file.key, Known>>
  <2>1. UNCHANGED <<file, key, shared>>
      BY <1>1 DEF Start, DrawKey, Migrate, ReadTypes, FindAdmin, Lock, CannotRead,
                  LockMissing, keyVars
  <2> QED BY <2>1, QuietStep
<1>2. CASE FindKey(w)
  <2>1. Abstract!Learn(w)
      BY <1>0, <1>2, LearnStep DEF FindKey, Resolved
  <2> QED BY <2>1 DEF Abstract!Next
<1>3. CASE LinkKey(w)
  <2>1. PICK v \in Runs : v = run[w]
      BY <1>0, <1>3 DEF LinkKey, KeyInv, TypeOK
  <2>2. file.key = NoKey
      BY <1>0, <1>3 DEF LinkKey, KeyInv
  <2>3. file'.key = v /\ key' = [key EXCEPT ![w] = v]
        /\ shared' = [shared EXCEPT ![w] = TRUE]
      BY <1>3, <2>1 DEF LinkKey, Resolved
  <2>4. Known' = [Known EXCEPT ![w] = v]
      BY <1>0, <2>3 DEF TypeOK, Known
  <2>5. Abstract!Decide(w, v)
      BY <2>2, <2>3, <2>4 DEF Abstract!Decide, Abstract!None, NoKey, Known
  <2> QED BY <2>5 DEF Abstract!Next
<1>4. CASE TakeOthersKey(w)
  <2>1. CASE file.key # NoKey
    <3>1. Abstract!Learn(w)
        BY <1>0, <1>4, <2>1, LearnStep DEF TakeOthersKey, Resolved
    <3> QED BY <3>1 DEF Abstract!Next
  <2>2. CASE file.key = NoKey
    <3>1. Abstract!Forget(w)
        BY <1>0, <1>4, <2>2, ForgetStep DEF TakeOthersKey, Resolved
    <3> QED BY <3>1 DEF Abstract!Next
  <2> QED BY <2>1, <2>2
<1>5. CASE CannotPersist(w)
  <2>1. Abstract!Forget(w)
      BY <1>0, <1>5, ForgetStep DEF CannotPersist, Resolved
  <2> QED BY <2>1 DEF Abstract!Next
<1>6. ASSUME Gone(w), UNCHANGED file
      PROVE  Abstract!Next
  <2>1. Abstract!Forget(w)
      BY <1>0, <1>6, ForgetStep DEF Gone
  <2> QED BY <2>1 DEF Abstract!Next
<1>7. CASE Crash(w) \/ CannotReadAgain(w)
    BY <1>6, <1>7 DEF Crash, CannotReadAgain
<1>8. CASE SeedTypes(w) \/ CreateAdmin(w) \/ PromoteAdmin(w)
  <2>1. UNCHANGED file /\ (Gone(w) \/ UNCHANGED <<key, shared>>)
      BY <1>8 DEF SeedTypes, CreateAdmin, PromoteAdmin, Refused
  <2> QED BY <1>6, <2>1, QuietStep
<1> QED BY <1>1, <1>2, <1>3, <1>4, <1>5, <1>7, <1>8 DEF Step, Mishap

\* The key of the file is decided once, and the workers that use it agree, even
\* when DATA_DIR fails or is damaged (config.py _resolve_secret_key).
THEOREM KeyWrittenOnce == Spec => ImplementsWriteOnce
<1>1. Init => Abstract!Init
    BY DEF Init, Abstract!Init, Abstract!None, NoKey
<1>2. IInv /\ [Next]_vars => [Abstract!Next]_<<file.key, Known>>
  <2> SUFFICES ASSUME IInv, [Next]_vars
               PROVE  Abstract!Next \/ UNCHANGED <<file.key, Known>>
      OBVIOUS
  <2>1. CASE \E w \in Workers : Start(w) \/ Step(w) \/ Lock(w) \/ Mishap(w)
      BY <2>1, WorkerStep
  <2>2. CASE PowerLoss
    <3>1. file'.key \in {file.key, NoKey}
        BY <2>2 DEF PowerLoss
    <3>2. Known' = [w \in Workers |-> NoKey]
        BY <2>2 DEF PowerLoss, Known
    <3>3. Abstract!Lose
        BY <3>1, <3>2 DEF Abstract!Lose, Abstract!None, NoKey, Known
    <3> QED BY <3>3 DEF Abstract!Next
  <2>3. CASE Flush \/ Demote \/ Remove \/ UNCHANGED vars
    <3>1. UNCHANGED <<file, key, shared>>
        BY <2>3 DEF Flush, Demote, Remove, keyVars, vars
    <3> QED BY <3>1, QuietStep
  <2> QED BY <2>1, <2>2, <2>3 DEF Next
<1>3. Abstract!Init /\ [][Abstract!Next]_<<file.key, Known>> => ImplementsWriteOnce
    BY PTL DEF ImplementsWriteOnce, Abstract!Spec, Known
<1> QED BY <1>1, <1>2, <1>3, Invariance, PTL DEF Spec

===============================================================================
