# A verification of PowerDNS UI

PowerDNS UI is a web front end for the PowerDNS Authoritative Server: an Angular
application (`src/frontend`), a FastAPI backend (`src/backend/app`) with a database of
its own (SQLite, MySQL or MariaDB), and PowerDNS behind its HTTP API. This directory
holds TLA+ models of the control logic of the backend and of the browser application,
TLC configurations that check them on small instances, and TLAPS proofs of what must
hold on every instance.
`PROJECT.json` maps every definition to the lines it models and lists runs, hazards,
findings and theorems.

    tlc -config MCGate.cfg MCGate             # a run: module and cfg are in PROJECT.json
    tlapm Sessions_proofs.tla                 # the proofs of one module

## 1. The system

Three stores hold the state, and no transaction spans two of them:

* the **database** of the backend: users, accounts, memberships, tokens, ACME keys,
  OIDC settings, audit log, record types;
* **PowerDNS**, over HTTP: zones and their records, DNSSEC keys, metadata. A zone
  carries the *name* of its account;
* the **browser and each process**: signed cookies nobody stores, the rate limiter's
  buckets, the OIDC caches, the signing key.

A request passes the rate limiter, then `get_current_user`, then the guards of its
route, then one or more calls to PowerDNS or commits. Every `await` lets another
handler run, and several worker processes may serve at once, so what a handler has
read may be stale when it writes. This is where most of the hard behaviour is.

| Component | State | Operations | Meets | What must hold |
|---|---|---|---|---|
| sessions and tokens (`auth_service`, `token_service`, `dependencies`) | `user` rows (`token_version`, `is_active`, password), cookies, token rows | login, logout, change/reset password, deactivate, delete, create/drop token | shares `user` rows with the admin endpoints | what was ended stays ended; a session belongs to the password it was opened with |
| admin guards (`routers/admin.py`, `admin_service`) | `user` rows, `oidcsettings` | create/update/delete user, save OIDC settings, SSO sign-in, restart | shares rows with sessions | nobody locks everyone out |
| rate limiter (`security.py`) | buckets of time stamps, sweep bookkeeping | check, sweep, reply 429 | in front of every route | limit over every window, enough Retry-After, bounded memory |
| startup (`config.py`, `main.py`, `database.py`) | key file, lock file, schema, first admin | resolve key, lock, migrate, seed, create admin | all workers, all sessions (the key signs them) | one key, one initialization, everyone gets through |
| accounts and zones (`zones/*`, `catalogues`, `admin_service`) | accounts, memberships, zones' account field | create/update/delete zone, join a catalogue, grant/revoke, assign, create/rename/delete account | database and PowerDNS without a common transaction | a zone and a membership stay with the account they were given to |
| OIDC sign-in (`routers/auth.py`, `auth_service`) | flow cookie, discovery and key caches, linked users | start, callback, logout, save settings, clear caches | settings, users, the identity provider | one session per flow, for the browser and the identity it began with; caches of the provider configured |
| ACME keys (`acme_service`) | key rows with the id of their user | create, reassign, use, delete; detach when the user goes | users, audit entries | nobody is named for what another's key does |
| record updates, zone import (`zones/*`) | records, in PowerDNS | patch, import | the zone page | what was acknowledged is not undone by another edit of the same user |
| browser application: session (`auth.service`, interceptor, guard) | loaded user, `sessionExpired` | start, sign in, log out, any call | every endpoint | nobody is stranded; the notice and the login page tell the truth |
| browser application: zone page | copy of the zone, dialogs, flags | edit, import, add with PTR | zones, PowerDNS | no edit lost, no button stuck, PTR records where resolvers look |
| browser application: other pages | rows shown, dialogs, flags | load, create, change, remove, assign zones | every endpoint | what is shown is what is stored |
| audit, syslog, mail | log rows | log, send | every handler | not modelled |
| DNSSEC, metadata, checks, server proxies | none of their own | one PowerDNS call each | PowerDNS | not modelled |
| migrations, schemas, utilities | none at run time | | | not modelled |

The hard behaviours, one entry per place where they bite, are the `hazards` of
`PROJECT.json`; the properties are written against that list.

## 2. How a handler is modelled

A handler that reads, awaits and writes is at least two actions: `Read*` evaluates all
its guards and records in `req[w]` what it has read or decided; `Commit*` writes. A
worker `w` is a handler in flight, in whatever process. What other handlers commit
falls between the two. What a handler does without an intervening await, or what the
database does in one transaction, is one action. Variables marked *history* are not in
the program: they record what a property needs to speak of (which account a credential
was issued to, whether two decisions overlapped) and no guard of a modelled handler
reads them.

Two kinds of database differ in ways that matter and are a constant, `IdReuse`: SQLite
gives the largest id + 1 and does not enforce foreign keys (no `PRAGMA foreign_keys` in
`database.py`); MySQL/MariaDB never gives an id twice and enforces them.

## 3. The modules

| Module | Models | Runs | Proofs |
|---|---|---|---|
| `Sessions`, abstract `SessionStore` | cookies, tokens, revocation | `gate`, `sessions_overlap`, `sessions_sqlite` | `Sessions_proofs` |
| `AdminGuards` | lockout guards | `admin_guards`, `admin_lockout` | `AdminGuards_proofs` |
| `RateLimiter`, abstract `SlidingWindow` | sliding window and sweep | `gate` | `RateLimiter_proofs` |
| `Boot`, abstract `WriteOnce` | start of the workers | `boot` | `Boot_proofs` |
| `ZoneAccess` | accounts, members, zones | `zones`, `zones_move`, `zones_rename` | `ZoneAccess_proofs` |
| `OidcFlow`, abstract `SignIns` | sign-in through a provider, its caches | `oidc` | `OidcFlow_proofs` |
| `AcmeKeys` | whose name an ACME key bears | `admin_guards` | `AcmeKeys_proofs` |
| `Page` | the bounds the browser modules share | | |
| `BrowserSession` | the application's view of its session | `browser` | `Browser_proofs` |
| `TablePage` | twenty components that show a table | `browser` | `Browser_proofs` |
| `ZoneEditor` | sets of values edited from a copy, imports | `browser` | `Browser_proofs` |
| `ReversePtr` | the PTR record of an added address | `browser`, `ptr_zone` | `Browser_proofs` |
| `AccountZones` | the zones of an account, saved in parallel | `browser` | `Browser_proofs` |

`MC*` modules give TLC its constants and symmetry sets; symmetry is used in runs of
invariants and action properties only, over elements no definition singles out. All
runs are of safety except `EveryStartEnds` in `boot`. `CHECK_DEADLOCK FALSE` throughout,
because every model has a bound (accounts, versions, starts, the clock, calls) at which
it stops.

Three MC modules host modules side by side: a variable `part`, chosen at the start, says
which of them moves and the others stay in their first state. The hosted modules share
no state, so nothing is lost that a run of each would find; what they have in common is
said with each below. `MCBrowser` hosts the five browser modules, `MCGate` hosts
`Sessions` and `RateLimiter`, which a request passes one after the other: the limiter
decides by the client's address before any credential is read. `MCAdminGuards` hosts
`AdminGuards` and `AcmeKeys`, which meet in `delete_user` only, where the guards do not
look at keys and the handling of keys does not look at roles. That each part of
`MCBrowser` and `MCAdminGuards` does behave as its own specification says is proved
(`PartsBehave`, `AdministrationBehaves`); the theorems about `Sessions` and `RateLimiter`
are about their own specifications.

### Sessions

`users` is the table, `cookies` the JWTs that exist, `pats` the token rows.
`Accepts(c, table)` is `user_from_session_cookie`: the row exists, is active and has
the name and version of the claims. `Written` is the ORM's commit: only the columns
the handler changed, computed from the row *it read*, so two overlapping revocations
write the same version (`lost` records this). Login issues its cookie from the row it
read (`IssueLogin`), after the awaits of the handler.

* `gate`, its sessions (one name, two accounts in succession, two handlers, versions to 2, two
  cookies; foreign keys on): an accepted session has the present password
  (`SessionHasCurrentPassword`), a revocation ends every session
  (`RevocationEndsEverySession`), and the cookies act as an abstract table of sessions
  (`ActsAsStore`). Two accounts in succession under one
  name are what the stale-credential hazards need; two handlers are the smallest
  overlap.
  `SessionStore` says what users may take their sessions for: an account's sessions begin,
  all of them and nobody else's end at once, and what ended is not opened again. `open` is
  mapped to the cookies accepted now and `closed` to those that were ended: a step of the
  code that changes what is accepted in any other way, a deactivation that merely hides
  sessions until the account is active again for instance, is no step of the store.
* `sessions_overlap` shows that without "no revocations overlapped" this is false
  (finding: `token_version += 1` on the row as read). A reset that has read version 0 is
  still pending while a password change and a logout bring the version to 2; its commit
  puts it back to 1, and the session of the change, which the logout ended, is accepted
  again.
* `sessions_sqlite` shows tokens that outlive their user on SQLite (finding:
  `delete_user_tokens` has no caller). A later user who gets the id would own them.

What no run claims: that the credentials of a deleted account die with it on SQLite. A
later account with the same id and name has the sessions of the first that carry its
version, and one with the same id has its tokens. No document promises otherwise of the
sessions, and with `AUTO_INCREMENT` it holds whatever the backend checks, so there is
nothing to check of the code; `born` tells the two accounts apart for the refinement.

Cookie expiry is the action `Expire`; a token's expiry is one of the ways `DropToken`
stands for; its role is not modelled.

### AdminGuards

The guards of `update_user`, `delete_user` and `update_oidc_settings`, SSO sign-ins
that create or link users, and restarts that promote the built-in administrator.
`overtaken` records that a handler committed after another had changed what its guard
had counted: the code takes no lock there, so the promises are for executions without
such an overlap. Two administrators who demote each other at once do leave the server
without one; the model reaches it and no property catches it (a hazard with a note). `admin_guards` (three
users, two handlers) checks that a super admin always remains and that while only SSO
may sign in an active SSO administrator remains. `admin_lockout` finds the PUT with
`enabled = false, local_login_disabled = true` that passes the guard and closes
password login (finding).

### RateLimiter

`check` reads the clock before it takes the lock: `Arrive` stamps the hit, `Allow` and
`Refuse` are the locked section with the sweep inside it, and `Proceed` continues with
the login budget. The deployment runs one event loop (`Threads` has one element). The
clock is finer than the whole seconds of `Retry-After` (`PerSecond = 2`). With windows
2 and 4, limits 2 and 1, sweep interval 2 and time up to 5 (in `gate`), hits fall on both sides of
every boundary, buckets of both budgets expire, and two sweeps run.

`SlidingWindow` is the limiter one has in mind: a hit is granted exactly when fewer than
`Limit` of those granted lie in the window that ends with it, and whoever is denied is told
a time at which there will be room. It has no buckets, no sweep and no horizon, and counts
from the end of what it remembers instead of evicting from the front. `ActsAsSlidingWindow`
maps `granted` to the history of allowed hits: it fails when a hit is refused too early as
well as when one is let in too many.

With several threads in one process the bucket would not stay in order: the stamp is
taken before the lock. No deployment of the repository runs it so
(`docs/configuration/rate-limiting.md:17`: one worker, one loop), and with several
*processes* each has its own buckets, as that page says.

### Boot and WriteOnce

Key resolution (`FindKey`, `DrawKey`, `LinkKey`, `TakeOthersKey`, and the failures of
each), the startup lock, migrations, seeding, and the first administrator, with
crashes anywhere, power losses that may blank a file not yet synced, and unusable
storage. `WriteOnce` is the abstract promise: the key is decided once, then only
learnt or forgotten. `ImplementsWriteOnce` maps `value` to the file's key and `known`
to the keys of the workers that took theirs from it. `boot` (two workers, four starts)
is enough for both to race on an empty directory and for each to die once and return.

Fairness: `WF(Step(w))`, a running process takes its next step; `SF(Lock(w))`, the
kernel gives `flock` to each waiter that finds it free again and again. No fairness on
crashes, starts or failures. Under it every start ends in serving or in death
(`EveryStartEnds`).

### ZoneAccess

`accounts` and `members` are tables, `zones` is PowerDNS. `born` and `owner` are
history: the account a membership or a zone was meant for when that was decided, `NoOne`
when the name stood for no account, and `Astray` once the backend has lost track of it.

* Creating a zone, updating it, joining it to a catalogue and deleting it are each a
  check (`IsAdmin`, `IsMember`) and a later call; `SetAccount` is the call.
* A grant or a revocation reads the zone, then looks the account up *again by name*
  (`LookUpGrant`), then flushes; `set_account_users` replaces the rows it has read. A
  flush whose rows appeared or vanished meanwhile fails as a whole.
* Deleting an account lists its zones, detaches them one by one (`DetachZone`, any of
  which may fail), lists the memberships and commits.

`zones` (two names, two zones, one user, two handlers, two accounts, SQLite) checks
`ZonesKeepTheirAccount` and `MembersKeepTheirAccount`: a zone or a membership is with the
account it was meant for and with no other, though names and ids come back, deletions
fail half way, and handlers overlap. That is not so of what is `Astray`, and the model
reaches each of these cases, in which a later account may well have what was another's:

* the decision was *overtaken*: its account was renamed or deleted, and its name or id
  perhaps taken by another, between the check and the call, look-up or commit;
* the account was *renamed*: its zones keep the old name;
* it was given *late*, while the account was being deleted and after its zones, or on
  SQLite its memberships, had been listed; or a deletion of an earlier account with the
  same id came late and took the row of the present one.

The code has no guard against any of them. All zones are catalogue zones in this run:
these have every endpoint an ordinary zone has and more callers, so the instance contains
the behaviours of the others, and zones can be a symmetry set. `zones_move` and
`zones_rename` are findings: a member's PUT writes back the account it read, and renaming
an account leaves its zones behind.

`docs/administration/roles-permissions.md:22` says that the Members tab makes a user admin
of *that specific zone*. A membership is of the zone's account (`upsert_account_member`),
so in the model, as in the code, it is a role on all zones of the account.

Abstractions: users neither come nor go here (they do in `Sessions`); manager and viewer
are one role, they differ in what they may do to records; a zone's kind is fixed and the
list of a catalogue's members is not kept, only that joining writes the account.

### OidcFlow

`oidc_login`, `oidc_callback`, logout and `update_oidc_settings`, each split at its
awaits: of the discovery document, of the token endpoint, of the key set, of the user
information, of the database. A flow is a number that stands for the state, the nonce
and the PKCE verifier, which are drawn together and only ever compared. The callback takes
`state` and `code` as two parameters, so it may pair the state of one flow with the code
of another: the cookie is compared with the state (`CookieHolds`), the nonce in the token
with that of the state's flow (`NonceMatches`), and the provider may or may not refuse the
other flow's verifier. `discovery` and
`jwks` are globals of the process; there is one process, as for the rate limiter. The
provider is external: it gives one code per flow, spends it at the first exchange,
rotates its keys and publishes the one before, and fails at any call. A restart empties
the caches and drops every request.

`oidc` (two requests at a time, two browsers, two providers with one subject each, one
username, two flows, one change of the settings, one rotation):

* `FlowSignsInOnce`: however often and in whatever browser the callback is called, a
  flow opens one session, in its browser, for whoever signed in for this very flow at the
  provider it was sent to. A code of another flow gets as far as the nonce: without that
  comparison the property fails, PKCE or not;
* `ActsAsSignIns`: the flow implements `SignIns`, in which there are no requests, caches,
  keys or settings: a sign-in is begun in a browser, somebody proves who they are for it
  at the provider it was sent to, and that opens one session, of an account that is theirs
  or that was nobody's and becomes theirs; a local account never does. `proven` is mapped
  to the codes the provider gave, `owner` to the identities in the rows. Excepted is the
  one step that gives an account of the provider's another owner (`LinkIsOverwritten`): two
  requests have both read it unlinked, `get_or_create_oidc_user` takes no lock, and the
  last commit keeps it (a hazard); a local account is never excepted;
* `CachesFollowSettings`: from a save that no request overlaps on, or a restart, the caches
  are of the provider configured. A save that one does overlap (`crossed`) may leave the old
  provider in them: both the late answer that fills a cache already cleared and the request
  served between `clear_oidc_cache` and the commit are steps of the model, and neither is
  caught. What is shown is how long that lasts: the next clean save or restart ends it. The
  run has one save, and shows it of restarts; the theorem has any number of both. No document
  says that a save takes effect at once, so it is not a finding;
* `RefusedForAReason`: a flow is refused only if something in `excused` happened to it:
  the provider failed, the settings changed, a callback paired it with another flow's code,
  the browser began another sign-in or another of its callbacks ended (`Cleared` deletes the flow cookie whichever flow it holds), an
  account was in the way, or the provider rotated its keys again and no longer publishes
  the one a callback in progress has to verify with (`Outlived`). One rotation is *not*
  among the excuses: the one retry with fresh keys has to carry it.

Two providers are what a change of the settings needs, two browsers what a stolen or
replayed callback URL needs, two flows what displacing a cookie needs.

### AcmeKeys

A key holds the id of a user, and the overview and the audit entries of what the key
does show the name of whoever has that id at the time. On SQLite the ids of deleted
users come back. `delete_user` therefore detaches the keys it finds (`FindKeys`) in the
transaction that deletes the row (`CommitRemoval`); creating a key, giving it to another
user and using it each read first and write later. The ORM writes the user of a key only
if it differs from what was read. `crossed` notes accounts deleted while a request wrote
or used a key of theirs: the code takes no lock there either.

`KeysNameTheirOwner` (two keys, two handlers, two accounts in succession, ids reused;
symmetric keys and handlers): neither a key nor an entry names anybody but the account
the key was created by or given to. Two accounts in succession are what a reused id
needs. Not modelled: which zones and record types a key may touch, the filter on TXT
records, and the records themselves: tests of one request against one row, and a call to
PowerDNS.

### The browser application

In all of these modules the application sends calls, the server serves them in any
order, and the answers come back in any order; a call may fail before or after it was
served (a sign-in only before: an answer that is lost leaves the browser as it was); any
answer may be a 401. Nothing in the application orders or cancels calls.
Buttons are disabled by flags, and dialogs can be submitted with the Enter key, so a
flag keeps a second call back only where the handler tests it. Properties therefore say
*unless*: a history variable collects the reasons for which what is shown may differ from
what is stored. Each reason is entered by the step it names, and cleared when a load made
it good. Some of them are hazards themselves, which the user is not told of: answers that
overtake each other, an edit computed from an old copy, an import racing an edit, dialogs
opened over each other, a late 401. What the properties catch is a divergence for any
*other* reason; that these happen is said in the notes of the hazards.

**TablePage.** Twenty components (`Components`) load a table, edit it with a call per
edit, and then either load it again or change the rows they show; what each of them does
after which edit, and whose button it disables, is its *kind*. A page may ask for another
table (the members of the selected catalogue, search results). `NoSilentDivergence`: with
nothing in flight, the rows are the server's, unless others changed the table, an answer
came late or for what was chosen before, or an operation failed and said so.
The first two (`late`, `strayed`) happen without a word to the user and last until a load
with nothing else in flight: the property says that there are no others, and fails when a
component forgets to bring its rows up to date. `FlagsFollowCalls`: no spinner and no
disabled button without a call whose answer ends it, those of the edit dialogs included.

**ZoneEditor.** Record sets and metadata, edited entry by entry (EXTEND, PRUNE) or by
sending the whole set computed from the copy loaded last: toggling a record, the edit
dialog, the metadata tabs, also when the set itself is unchanged (only its TTL was
edited). Every edit ends with a load of the copy. The server's import
reads the zone, then patches what the file lacks. One user: what others do to the same
record set is lost without anybody promising otherwise. `OwnEditsStand`: with nothing in
flight the server holds what the acknowledged edits add up to, unless two edits whose
order matters were in flight together (`crossed`), one was computed from a copy still
being loaded or whose load had failed (`blind`), or one failed. The first two do lose
edits; what is caught is an edit that undoes another though they came one after the other
and the copy was current. `SubmittingEnds`: nothing
is left disabled, also on a tab entered while the calls of another went on.

**ReversePtr.** `findBestReverseZone` takes the longest zone whose name, *as a string*,
ends the address's reverse name. Names are sequences of characters here for that reason:
`1.168.192.in-addr.arpa.` ends the name of `192.168.11.5` and is longer than the
zone `168.192.in-addr.arpa.` that has it. The comment of the function and the help of the
page promise the most specific, the appropriate zone: `ptr_zone` (`AskedZoneIsMostSpecific`,
octets 1 and 11, at most two zones) shows that the other one is asked (finding). The server
refuses the record as out of zone and the page says that none was created. What does hold is
`PtrPlacedOrReported`: a PTR record is never stored where no resolver looks while a better
zone was listed, and when the zone of the smallest network was not asked, a message has said
that there is none.

Letters are compared as they are typed, while PowerDNS keeps names in lower case (`Lower`).
For an IPv6 address typed in upper case no zone whose numbers have letters is found: then a
wider zone that has none is asked, or none is, and `tryCreatePtrRecord` returns without a
word. `PtrPlacedOrReported` is of addresses typed in lower case only. The instance of
`browser` has addresses of two numbers out of `b`, `B` and `bb`, and at most two zones: the
smallest with a letter in two cases in which a name is the end of another without its
network containing it.

**AccountZones.** The dialog sends one call per zone ticked or unticked, all at once;
`Promise.all` rejects at the first failure while the rest go on. `SavedSelectionHolds`:
after a save that succeeded the account has the ticked zones, even if an earlier attempt
had stored a part, unless openings overlapped, others assigned zones, it was saved before
its own zones were read, or the boxes changed between a failed attempt and the next. In each
of these cases the code does store something else than was ticked (a zone unticked after a
failed attempt that had stored it stays assigned); what is caught is a save that goes wrong
without them, a retry with stragglers of the first attempt in flight above all.
`DialogEnds`: its spinners end.

**BrowserSession.** The cookie is out of the application's sight; being signed in is
having loaded a user, and a session's end is learnt from a 401. One tab, one user, who
signs in with a password. `NeverStranded`: on a page without a user, the notice with its
button is up or a logout is under way. `NoticeMeansExpired`: the notice is not up over a
live session, unless put up by an answer that came during or after a logout (`stray`), or
the login page was reached around its button (`back`): both do happen, until the next logout
or reload. Without a user no link leads to the login page, since the guard of the layout is
not run again for the pages inside it; the browser's Back button does, if the login page was
shown before (`loginSeen`). `SignedOutIsOut`: the login page at rest means no live session,
unless the call that was to end it was lost (`lost`) or the notice was wrong. The comment
`auth.service.ts:65` says that after a network error "clearing local state is enough to log
out"; it is not, as the exception says: when the call never arrived, the cookie and the
session behind it live on, and loading the page again finds the user signed in. A logout
that was served while its answer was lost is `LoseLogout`: the session has ended and its
cookie is kept, and refused.

**`browser`** runs the five with two calls in flight (three in the dialog and the
session), two edits, one failure or change by others, two versions of a row's content,
two questions, two record sets with two values, two zones and two accounts, two
revocations and two logouts. Two calls are the smallest reordering; one failure suffices
for every `finally`; the third call is the load or the save that meets two others.
A table has one row: every edit names one row by its id and leaves the others alone. The parts share their sets of
values so that one group of permutations is a symmetry of all. They share no state but the
answer 401, which the pages allow for at any time and the session gives to any call.


## 4. What is proved

Every theorem is for all values of the constants, under the module's `ASSUME`, which TLC
evaluates on each run. Each rests on an inductive invariant, checked with TLC before it was
proved, and one lemma per action.

* **Sessions_proofs**, assuming `~IdReuse`: `TypeCorrect`, `EndedForGood`,
  `CurrentPassword`, `RevocationsEndSessions`, and the refinement `CookiesActAsStore`.
  `RevocationsEndSessions` needs only that a commit
  is of the handler's own user and writes the version it read plus one; the invariant of
  the others adds that ids are final (no two accounts ever share one) and that, until two
  revocations overlapped, no cookie or pending request is ahead of its row and every ended
  cookie is strictly behind it or its account is gone. The properties alone are not
  inductive: that an old cookie stays refused needs the version to be monotone against
  what handlers still hold. For the refinement each write is shown to change what is accepted
  of its own account only, to end all of it when the version moves and to open nothing that
  has ended; it is claimed, like the property it generalizes, until two revocations of one
  account overlapped (`lost`), and `sessions_overlap` shows why.
* **AdminGuards_proofs**: `TypeCorrect`, `OneSuperAdmin`, `OneOidcAdmin`. The invariant
  adds that each pending decision that nobody overtook still passes its guard.
* **Boot_proofs**: `TypeCorrect`, `SameKey`, `StartsDoNotCollide`, `ShownPassword`, and
  the refinement `KeyWrittenOnce` (initial states and every step map to `WriteOnce`). The
  invariant has one half for the key and one for the lock: who is past `lock` holds it
  alone.
* **RateLimiter_proofs**, assuming `OneAtATime` (one event loop): `TypeCorrect`,
  `WindowLimitHolds`, `RetryAfterHolds`, the action properties `SweepIsSafe` and
  `IdleGo`, and the refinement `LimiterActsAsSlidingWindow`. The invariant says stamps are in
  order and none is ahead of the running check, a bucket is nonempty, within its limit and
  its window within the horizon, and that for every stamp a check to come may have, the
  limiter counts exactly what was allowed (`NothingIsLost`): a stamp may lag behind the
  clock, so counting right at the present time would not do. Lemmas on `Evicted` (it cuts a prefix;
  cutting twice, or before an append, is cutting once) carry most of the work.
* **ZoneAccess_proofs**, both kinds of database: `TypeCorrect`, `ZonesKept`,
  `MembersKept`. The invariant adds that names and births are unique among accounts and
  that a deletion under way has seen every zone of its account, or noted it as late. What
  went astray, in the ways section 3 lists, is excepted in both theorems.
* **OidcFlow_proofs**: `TypeCorrect`, `CachesFollow`, `FlowsSignInOnce`,
  `SessionsOwnAccounts`, `RefusedOnlyForAReason`, and the refinement
  `SignInsAreAsPromised`. Four invariants. `CacheInv`: until a request overlapped a
  change, a pending change is alone and the caches are empty, otherwise every request and
  cache is of the settings. `FlowInv`: a flow has one code, one callback at most is past
  its exchange with it, and whoever is past it, or has signed in, traces back to the browser and
  the identity of that code. The refinement rests on it: the code that a callback traces
  back to is the proof its session needs, and no other callback has used it; redeeming it
  changes nothing that was proven. It needs `LinkInv`, too: whoever is about to link an
  account has read one without a password, and it has not got one since.
  `SessionsOwnAccounts` says in one state what the refinement says of steps: outside
  `raced`, a session's account is bound to its identity. `ExcuseInv`: a flow that nothing
  spoilt has its cookie, the settings it began with, and a code that is spent by nobody
  but the one callback being served, which holds the right document and a key the provider
  still publishes.
* **AcmeKeys_proofs**, both kinds of database: `AcmeTypeCorrect`, `KeysKeepTheirOwner`. The
  invariant adds that a key, and a request that relies on one, names an id its owner still
  has (`KeysKept`, `AsksKept`) and that a deletion no write disturbed has found every key
  (`AllFound`).
  `AdministrationBehaves` and `AdministrationTypeCorrect` carry this and the theorems about
  `AdminGuards` over to the specification the run checks, which hosts both.
* **Browser_proofs**, in five parts, with an invariant each.
  * The session (`IInv`): `SessionTypeCorrect`, `NobodyStranded`, `NoticeIsTrue`,
    `LoginPageIsSignedOut`. The numbers of calls in flight differ, there is one sign-in at
    a time and only on the login page, the start is one call, no cookie is ahead of the
    server and no refused one comes back to life (`Behind`), and a live session on the
    login page is about to be noticed.
  * The pages with a table (`TableInv`): `TableTypeCorrect`, `FlagsFollow`, `PagesConverge`.
    Without a doubt, a load is on its way, or the answers in flight, taken in the order in
    which they were given, lead from the rows shown, or from one of the loads among them,
    to the server's rows (`Converges`): each answer changes the rows shown as its call
    changed the server's.
  * The zone page (`EditorInv`): `EditorTypeCorrect`, `EditorsEnd`, `OwnEditsKept`. Unless
    `spoiled` says otherwise, no two edits in flight collide unless both are done
    (`Apart`); and if none of those done has failed, the server holds the sets as
    acknowledged plus what those done add and less what they take (`Sums`), none of which
    contradict each other (`Agreed`), and each set sent as a whole was computed from what
    the server holds (`Sound`). That in turn needs the dialog and the page to show it when
    they say so (`DraftHolds`, `CopyHolds`).
  * The dialog that assigns zones (`ZonesInv`): `ZonesTypeCorrect`, `DialogsEnd`,
    `SavesHold`, outside `mixed` as the property. Unless openings or assignments were mixed, what was read is what the
    server holds, and each zone is as it was read, or as the last save wants it, or has a
    call under way that makes it so.

  * The PTR record (`PtrInv`): `PtrTypeCorrect`, `PtrIsPlacedOrReported`, and
    `EqualDigitsAreExact`. Names are joined from labels, and what `findBestReverseZone`
    compares are their ends, so the lemmas say what the ends of a joined name are: the name of
    every network that has the address ends the name of the address, and of two such
    networks the smaller has the longer name. So whatever is chosen, if its network has the
    address, is the smallest that has. That it has is true where all labels have as many
    digits, as the nibbles of IPv6 typed in lower case (`EqualDigitsAreExact`); for IPv4 it
    may not, and `PtrIsPlacedOrReported` says that the record is then not misplaced and the
    user is told. The largest and the smallest number of a set come from well-foundedness of
    `<`, not from induction over the names.
  * `PartsBehave`: the specification the run checks, in which `part` chooses the module that
    moves, implements each of the five specifications above, so what is proved of them holds
    of it; `BrowserTypeCorrect` is its type invariant.

Only model-checked:

* `EveryStartEnds`: liveness under fairness is out of the prover's reach;
* every finding, which is a counterexample.

## 5. Not modelled, and why

* **Audit, syslog, mail.** Entries are written and sent, and nothing decides on them.
  Their commits are the awaits at which the other modules split handlers.
* **DNSSEC, metadata and zone checks; server-wide proxies.** One call to PowerDNS per
  request, or a report; nothing is kept between two.
* **Migrations, schemas, utilities.** Data and validation. The place of migrations in the
  start is `Migrate`; what a default does to a handler is in the handler.
* **Parts of modelled components.** Record types and tokens' roles (plain rows); ACME
  guards and records; parsing and size of an imported file, notify, retrieve, rectify;
  the test button of the OIDC settings; the OIDC caches of other workers, which a
  deployment with more than one would have and nothing clears.
* **Parts of the browser application.** Forms that save one record of settings, the raw
  metadata tab, the page of PowerDNS views, the toggle of LUA records, exports, charts,
  filters, paging, the theme and the version check: no call of theirs depends on what
  another left behind.

What the map covers. Of the repository's JavaScript and TypeScript 87,588 lines are one
vendored bundle (`static/swagger/swagger-ui-bundle.js`), third-party code that is no part
of this system; the application's own code is some 6,200 lines. The backend, where most
of the modelled control is, is Python.
Shares of lines taken over all JavaScript say little about this project.

## 6. The plan

Done: every module of section 3 is model-checked and has proofs; every safety property that
a passing run checks is proved for all values of the constants, under the assumptions
section 4 names. Four modules implement an abstract specification, checked and proved:
`Boot` the write-once key, `Sessions` the table of sessions, `RateLimiter` the ideal
window, `OidcFlow` the sign-ins.

Next, in order of importance:

1. An abstract specification of who owns a zone, with the refinement by `ZoneAccess`.
2. A composition of `Sessions` with `AdminGuards`, which both abstract the user table, by
   a refinement onto an abstract table.
3. Two tabs of one browser over one cookie, in `BrowserSession`.

Runs are kept few: one passing run per family of components, one per finding worth showing.
`gate`, `zones` and `oidc` take two to three minutes each with two workers of TLC, the
others less.
