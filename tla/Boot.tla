--------------------------------- MODULE Boot ---------------------------------
(***************************************************************************)
(* How the workers of the server start: each resolves the session signing   *)
(* key (config.py), then migrates and seeds the database and creates the    *)
(* built-in administrator, one worker at a time under a file lock (main.py, *)
(* database.py).  Workers die and start again at any point, and the host    *)
(* may lose power.                                                         *)
(*                                                                         *)
(* A key or a password is the number of the start that drew it.  SECRET_KEY *)
(* is not configured: with it every worker takes that value and the first   *)
(* half of the module does not happen.                                     *)
(***************************************************************************)
EXTENDS Naturals

CONSTANTS
    Workers,
    MaxStarts  \* bound: how many times a worker starts, all together

ASSUME BootAssumption == MaxStarts \in Nat

NoKey == 0
Runs == 1 .. MaxStarts

VARIABLES
    pc,        \* where each worker is
    run,       \* the number of each worker's start
    starts,    \* how many there were
    file,      \* DATA_DIR/.secret_key; a blank file has NoKey
    durable,   \* the file's text has reached the disk
    key,       \* the signing key of each worker
    shared,    \* history: that key is the one of the file
    locked,    \* who holds DATA_DIR/.startup.lock
    schema,    \* the migrations have run
    seeded,    \* the recordtype table holds the default types
    admin,     \* the row of settings.admin_username: its kind and password
    shown,     \* the last password a start has printed
    failed,    \* history: DATA_DIR could not be read or written
    damaged    \* history: a power loss left a blank file

keyVars == <<file, durable, key, shared>>
dbVars == <<locked, schema, seeded, admin, shown>>
vars == <<pc, run, starts, file, durable, key, shared, locked, schema, seeded,
          admin, shown, failed, damaged>>

Steps == {"down", "look", "link", "lock", "migrate", "seed", "seeding", "find",
          "creating", "promoting", "serving"}

TypeOK ==
    /\ pc \in [Workers -> Steps]
    /\ run \in [Workers -> {0} \cup Runs]
    /\ starts \in 0 .. MaxStarts
    /\ file \in [exists : BOOLEAN, key : {NoKey} \cup Runs]
    /\ durable \in BOOLEAN
    /\ key \in [Workers -> {NoKey} \cup Runs]
    /\ shared \in [Workers -> BOOLEAN]
    /\ locked \subseteq Workers
    /\ schema \in BOOLEAN /\ seeded \in BOOLEAN
    /\ admin \in [kind : {"none", "plain", "super"}, pw : {0} \cup Runs]
    /\ shown \in {0} \cup Runs
    /\ failed \in BOOLEAN /\ damaged \in BOOLEAN

Goto(w, step) == pc' = [pc EXCEPT ![w] = step]

-----------------------------------------------------------------------------
(* Workers come and go. *)

\* MaxStarts bounds the starts.
Start(w) ==
    /\ pc[w] = "down"
    /\ starts < MaxStarts
    /\ starts' = starts + 1
    /\ run' = [run EXCEPT ![w] = starts']
    /\ Goto(w, "look")
    /\ UNCHANGED <<keyVars, dbVars, failed, damaged>>

\* Mutant: nobody releases the lock of a worker that dies.
GoneWithTheLock(w) ==
    /\ Goto(w, "down")
    /\ key' = [key EXCEPT ![w] = NoKey]
    /\ shared' = [shared EXCEPT ![w] = FALSE]
    /\ UNCHANGED locked

\* The process ends, and the kernel releases its lock.
Gone(w) ==
    /\ Goto(w, "down")
    /\ key' = [key EXCEPT ![w] = NoKey]
    /\ shared' = [shared EXCEPT ![w] = FALSE]
    /\ locked' = locked \ {w}

Crash(w) ==
    /\ pc[w] # "down"
    /\ Gone(w)
    /\ UNCHANGED <<run, starts, file, durable, schema, seeded, admin, shown, failed,
                   damaged>>

\* The key file is neither synced nor renamed over: until its text reaches the
\* disk a power loss may leave it blank, or not there at all.
PowerLoss ==
    /\ pc' = [w \in Workers |-> "down"]
    /\ key' = [w \in Workers |-> NoKey]
    /\ shared' = [w \in Workers |-> FALSE]
    /\ locked' = {}
    /\ \/ UNCHANGED <<file, damaged>>
       \/ ~durable /\ file' = [exists |-> FALSE, key |-> NoKey] /\ UNCHANGED damaged
       \/ ~durable /\ file.exists /\ file' = [exists |-> TRUE, key |-> NoKey]
          /\ damaged' = TRUE
    /\ durable' = TRUE
    /\ UNCHANGED <<run, starts, schema, seeded, admin, shown, failed>>

\* The operating system writes the file back.
Flush ==
    /\ ~durable
    /\ durable' = TRUE
    /\ UNCHANGED <<pc, run, starts, file, key, shared, dbVars, failed, damaged>>

-----------------------------------------------------------------------------
(* _resolve_secret_key *)

\* The worker has its key and goes on to the lifespan.
Resolved(w, k, ofFile) ==
    /\ key' = [key EXCEPT ![w] = k]
    /\ shared' = [shared EXCEPT ![w] = ofFile]
    /\ Goto(w, "lock")

FindKey(w) ==
    /\ pc[w] = "look"
    /\ file.key # NoKey
    /\ Resolved(w, file.key, TRUE)
    /\ UNCHANGED <<run, starts, file, durable, dbVars, failed, damaged>>

\* No text in the file: the worker draws a key.
DrawKey(w) ==
    /\ pc[w] = "look"
    /\ file.key = NoKey
    /\ Goto(w, "link")
    /\ UNCHANGED <<run, starts, keyVars, dbVars, failed, damaged>>

\* "except OSError: pass": a file that cannot be read counts as missing.
CannotRead(w) ==
    /\ pc[w] = "look"
    /\ file.exists
    /\ failed' = TRUE
    /\ Goto(w, "link")
    /\ UNCHANGED <<run, starts, keyVars, dbVars, damaged>>

\* Mutant: the key is moved into place over whatever is there.
RenameKey(w) ==
    /\ pc[w] = "link"
    /\ file' = [exists |-> TRUE, key |-> run[w]]
    /\ durable' = FALSE
    /\ Resolved(w, run[w], TRUE)
    /\ UNCHANGED <<run, starts, dbVars, failed, damaged>>

\* os.link: the temporary file already holds the text.
LinkKey(w) ==
    /\ pc[w] = "link"
    /\ ~file.exists
    /\ file' = [exists |-> TRUE, key |-> run[w]]
    /\ durable' = FALSE
    /\ Resolved(w, run[w], TRUE)
    /\ UNCHANGED <<run, starts, dbVars, failed, damaged>>

\* Mutant: the loser of the race keeps what it drew.
KeepOwnKey(w) ==
    /\ pc[w] = "link"
    /\ file.exists
    /\ Resolved(w, run[w], file.key # NoKey)
    /\ UNCHANGED <<run, starts, file, durable, dbVars, failed, damaged>>

\* FileExistsError: the key of the file, "or generated" when it is blank.
TakeOthersKey(w) ==
    /\ pc[w] = "link"
    /\ file.exists
    /\ IF file.key # NoKey THEN Resolved(w, file.key, TRUE)
       ELSE Resolved(w, run[w], FALSE)
    /\ UNCHANGED <<run, starts, file, durable, dbVars, failed, damaged>>

\* The file exists and cannot be read: the handler of FileExistsError raises.
CannotReadAgain(w) ==
    /\ pc[w] = "link"
    /\ file.exists
    /\ failed' = TRUE
    /\ Gone(w)
    /\ UNCHANGED <<run, starts, file, durable, schema, seeded, admin, shown, damaged>>

\* OSError while writing: an ephemeral key.
CannotPersist(w) ==
    /\ pc[w] = "link"
    /\ failed' = TRUE
    /\ Resolved(w, run[w], FALSE)
    /\ UNCHANGED <<run, starts, file, durable, dbVars, damaged>>

-----------------------------------------------------------------------------
(* startup_lock and _initialize *)

\* Mutant: the lock is shared.
LockShared(w) ==
    /\ pc[w] = "lock"
    /\ locked' = locked \cup {w}
    /\ Goto(w, "migrate")
    /\ UNCHANGED <<run, starts, keyVars, schema, seeded, admin, shown, failed, damaged>>

Lock(w) ==
    /\ pc[w] = "lock"
    /\ locked = {}
    /\ locked' = {w}
    /\ Goto(w, "migrate")
    /\ UNCHANGED <<run, starts, keyVars, schema, seeded, admin, shown, failed, damaged>>

\* "Cannot create the startup lock": the worker goes on without it.
LockMissing(w) ==
    /\ pc[w] = "lock"
    /\ failed' = TRUE
    /\ Goto(w, "migrate")
    /\ UNCHANGED <<run, starts, keyVars, dbVars, damaged>>

\* init_db: the migrations run in one transaction.
Migrate(w) ==
    /\ pc[w] = "migrate"
    /\ schema' = TRUE
    /\ Goto(w, "seed")
    /\ UNCHANGED <<run, starts, keyVars, locked, seeded, admin, shown, failed, damaged>>

\* init_db: the types are added when the table is empty.
ReadTypes(w) ==
    /\ pc[w] = "seed"
    /\ Goto(w, IF seeded THEN "find" ELSE "seeding")
    /\ UNCHANGED <<run, starts, keyVars, dbVars, failed, damaged>>

\* What a commit does that a unique index refuses: the startup fails.
Refused(w) ==
    /\ Gone(w)
    /\ UNCHANGED <<schema, seeded, admin, shown>>

SeedTypes(w) ==
    /\ pc[w] = "seeding"
    /\ \/ /\ ~seeded
          /\ seeded' = TRUE
          /\ Goto(w, "find")
          /\ UNCHANGED <<key, shared, locked, schema, admin, shown>>
       \/ seeded /\ Refused(w)
    /\ UNCHANGED <<run, starts, file, durable, failed, damaged>>

\* The worker leaves the lock and serves.
Serve(w) ==
    /\ Goto(w, "serving")
    /\ locked' = locked \ {w}

\* _initialize: a missing administrator gets a password, which is printed before
\* the row is committed; one that was demoted is promoted.
FindAdmin(w) ==
    /\ pc[w] = "find"
    /\ \/ admin.kind = "none" /\ shown' = run[w] /\ Goto(w, "creating")
          /\ UNCHANGED locked
       \/ admin.kind = "plain" /\ Goto(w, "promoting") /\ UNCHANGED <<locked, shown>>
       \/ admin.kind = "super" /\ Serve(w) /\ UNCHANGED shown
    /\ UNCHANGED <<run, starts, keyVars, schema, seeded, admin, failed, damaged>>

CreateAdmin(w) ==
    /\ pc[w] = "creating"
    /\ \/ /\ admin.kind = "none"
          /\ admin' = [kind |-> "super", pw |-> run[w]]
          /\ Serve(w)
          /\ UNCHANGED <<key, shared, schema, seeded, shown>>
       \/ admin.kind # "none" /\ Refused(w)
    /\ UNCHANGED <<run, starts, file, durable, failed, damaged>>

\* Mutant: the promotion writes another column.
PromoteElsewhere(w) ==
    /\ pc[w] = "promoting"
    /\ admin' = [admin EXCEPT !.kind = "admin"]
    /\ Serve(w)
    /\ UNCHANGED <<key, shared, schema, seeded, shown, run, starts, file, durable,
                   failed, damaged>>

PromoteAdmin(w) ==
    /\ pc[w] = "promoting"
    /\ \/ /\ admin.kind # "none"
          /\ admin' = [admin EXCEPT !.kind = "super"]
          /\ Serve(w)
          /\ UNCHANGED <<key, shared, schema, seeded, shown>>
       \/ admin.kind = "none" /\ Refused(w)
    /\ UNCHANGED <<run, starts, file, durable, failed, damaged>>

-----------------------------------------------------------------------------
(* What other administrators do to the account while some worker serves. *)

Serving == {w \in Workers : pc[w] = "serving"}

\* update_user
Demote ==
    /\ Serving # {}
    /\ admin.kind = "super"
    /\ admin' = [admin EXCEPT !.kind = "plain"]
    /\ UNCHANGED <<pc, run, starts, keyVars, locked, schema, seeded, shown, failed,
                   damaged>>

\* delete_user
Remove ==
    /\ Serving # {}
    /\ admin.kind # "none"
    /\ admin' = [kind |-> "none", pw |-> 0]
    /\ UNCHANGED <<pc, run, starts, keyVars, locked, schema, seeded, shown, failed,
                   damaged>>

-----------------------------------------------------------------------------

Init ==
    /\ pc = [w \in Workers |-> "down"]
    /\ run = [w \in Workers |-> 0]
    /\ starts = 0
    /\ file = [exists |-> FALSE, key |-> NoKey]
    /\ durable = TRUE
    /\ key = [w \in Workers |-> NoKey]
    /\ shared = [w \in Workers |-> FALSE]
    /\ locked = {}
    /\ schema = FALSE /\ seeded = FALSE
    /\ admin = [kind |-> "none", pw |-> 0]
    /\ shown = 0
    /\ failed = FALSE /\ damaged = FALSE

\* What a worker does by itself, waiting for the lock excepted.
Step(w) ==
    \/ FindKey(w) \/ DrawKey(w) \/ LinkKey(w) \/ TakeOthersKey(w)
    \/ Migrate(w) \/ ReadTypes(w) \/ SeedTypes(w)
    \/ FindAdmin(w) \/ CreateAdmin(w) \/ PromoteAdmin(w)

Mishap(w) ==
    \/ Crash(w)
    \/ CannotRead(w) \/ CannotReadAgain(w) \/ CannotPersist(w) \/ LockMissing(w)

Next ==
    \/ \E w \in Workers : Start(w) \/ Step(w) \/ Lock(w) \/ Mishap(w)
    \/ PowerLoss
    \/ Flush
    \/ Demote
    \/ Remove

\* A process that runs takes its next step, and the kernel gives the lock to each
\* one that waits for it.
Fairness == \A w \in Workers : WF_vars(Step(w)) /\ SF_vars(Lock(w))

Spec == Init /\ [][Next]_vars /\ Fairness

-----------------------------------------------------------------------------
(* Properties. *)

\* Every worker that has a key signs with the same one, so that each accepts the
\* sessions the others open: whatever starts, dies and races, unless DATA_DIR
\* could not be used or a power loss blanked the file (config.py
\* _resolve_secret_key, "every worker ends up signing with the same key").
AllSignAlike ==
    ~failed /\ ~damaged =>
      \A v, w \in Workers : key[v] # NoKey /\ key[w] # NoKey => key[v] = key[w]

\* Even when DATA_DIR fails or is damaged, the key of the file is decided once and
\* the workers that use it agree (config.py _resolve_secret_key, "tokens survive
\* restarts").
Abstract ==
    INSTANCE WriteOnce WITH
        Values <- Runs,
        value  <- file.key,
        known  <- [w \in Workers |-> IF shared[w] THEN key[w] ELSE NoKey]

ImplementsWriteOnce == Abstract!Spec

\* The lock makes the one-time initialization safe: no start finds the rows it was
\* about to create (main.py startup_lock).
NoStartCollides ==
    ~failed => \A w \in Workers :
      /\ pc[w] = "seeding" => ~seeded
      /\ pc[w] = "creating" => admin.kind = "none"

\* The password the operator read last is the one of the administrator that was
\* created, through crashes between the print and the commit (main.py
\* _initialize, "shown only once").
ShownPasswordWorks == ~failed /\ admin.kind # "none" => admin.pw = shown

\* A worker that starts gets to serve unless it dies: nobody waits for ever for a
\* lock whose holder is gone (main.py startup_lock).
EveryStartEnds == \A w \in Workers : pc[w] = "look" ~> pc[w] \in {"serving", "down"}

===============================================================================
