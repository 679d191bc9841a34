---- MODULE AccountZones ----
(***************************************************************************)
(* The dialog of the accounts page that says which zones an account has.   *)
(* Opening it reads the zones; saving it sends one call for each zone      *)
(* ticked or unticked since, all at once, and succeeds when all of them    *)
(* do.  When one fails the dialog says so at once, while the others go on. *)
(***************************************************************************)
EXTENDS Page, FiniteSets

CONSTANTS
    Zones,
    Accounts,
    InitialOwners, \* the accounts the zones may have at first
    MaxFlight,     \* bound: calls of the dialog in flight
    MaxOpenings    \* bound: openings of the dialog

Owners == [Zones -> Accounts \cup {None}]

ASSUME AccountZonesAssumption ==
    /\ None \notin Accounts /\ None \notin [opening : Nat, zones : SUBSET Zones]
    /\ InitialOwners \subseteq Owners
    /\ {MaxFlight, MaxOpenings} \subseteq Nat

VARIABLES
    owner,          \* the server's: the account of each zone
    zonesTarget,    \* the account the dialog was opened for last
    showZonesModal,
    originalZones,  \* the zones of the account when the dialog was loaded
    selectedZones,  \* the ticked ones
    isLoadingZones,
    isSavingZones,
    requests,       \* calls the server has not served
    responses,      \* calls it has, until the page gets the answer
    openings,       \* openings so far
    saves,          \* saves so far
    troubles,       \* calls that failed and changes by others so far
    loadedAt,       \* history: the opening whose zones the dialog has
    attempt,        \* history: the last save, its opening and what it tries to store
    told,           \* history: what the last save that succeeded stored
    mixed           \* history: why the zones may differ from it

zonesVars == <<owner, zonesTarget, showZonesModal, originalZones, selectedZones, isLoadingZones,
               isSavingZones, requests, responses, openings, saves, troubles, loadedAt, attempt,
               told, mixed>>

serverVars == <<owner, troubles>>
dialogVars == <<zonesTarget, showZonesModal, originalZones, selectedZones, isLoadingZones,
                isSavingZones>>
historyVars == <<loadedAt, attempt, told, mixed>>

\* A reading of the zones, for the account of that opening; the change of one zone, of
\* that save, where `to` is the account put and None detaches; the reading of the accounts
\* that ends that save.
Reading(account, opening) ==
    [op |-> "zones", account |-> account, zone |-> None, to |-> None, nr |-> opening]
Putting(account, zone, to, save) ==
    [op |-> "put", account |-> account, zone |-> zone, to |-> to, nr |-> save]
Relisting(account, save) ==
    [op |-> "accounts", account |-> account, zone |-> None, to |-> None, nr |-> save]

Requests ==
    [op : {"zones", "put", "accounts"}, account : Accounts, zone : Zones \cup {None},
     to : Accounts \cup {None}, nr : Nat]

Responses == [request : Requests, ok : BOOLEAN, owners : Owners]

NoOwners == [z \in Zones |-> None]

Waiting == requests \cup {r.request : r \in responses}

Flying == Cardinality(requests) + Cardinality(responses)

\* Mutant: the accounts are kept, not the names of the zones.
AccountsOf(owners, account) == {owners[z] : z \in Zones}

OfAccount(owners, account) == {z \in Zones : owners[z] = account}

\* The calls of the save under way that have not come back.
Unanswered == {c \in Waiting : c.op # "zones" /\ c.nr = saves}

-----------------------------------------------------------------------------
(* The user.                                                               *)

\* The sets of the opening before are kept until the zones have been read.
OpenZones(account) ==
    /\ ~showZonesModal
    /\ Flying < MaxFlight /\ openings < MaxOpenings
    /\ openings' = openings + 1
    /\ zonesTarget' = account
    /\ showZonesModal' = TRUE
    /\ isLoadingZones' = TRUE
    /\ requests' = requests \cup {Reading(account, openings')}
    /\ told' = None
    /\ mixed' = {m \in {"overlap"} : \E c \in Waiting : c.op # "accounts"}
    /\ UNCHANGED <<serverVars, originalZones, selectedZones, isSavingZones, responses, saves,
                   loadedAt, attempt>>

\* The boxes are there once no reading is under way, and while a save is.
ToggleZone(zone) ==
    /\ showZonesModal /\ ~isLoadingZones
    /\ selectedZones' = IF zone \in selectedZones THEN selectedZones \ {zone} ELSE selectedZones \cup {zone}
    /\ UNCHANGED <<serverVars, zonesTarget, showZonesModal, originalZones, isLoadingZones,
                   isSavingZones, requests, responses, openings, saves, historyVars>>

CloseZones ==
    /\ showZonesModal
    /\ showZonesModal' = FALSE
    /\ UNCHANGED <<serverVars, zonesTarget, originalZones, selectedZones, isLoadingZones,
                   isSavingZones, requests, responses, openings, saves, historyVars>>

Changed(original, selected) == (selected \ original) \cup (original \ selected)

\* Mutant: the zones that were unticked are not detached.
PutsTicked(account, original, selected, save) ==
    {Putting(account, z, account, save) : z \in selected \ original}

Puts(account, original, selected, save) ==
    {Putting(account, z, IF z \in selected THEN account ELSE None, save) :
        z \in Changed(original, selected)}

\* The button works while the zones are being read.  With nothing to change the save
\* has succeeded at once.
SaveZones ==
    /\ showZonesModal /\ ~isSavingZones
    /\ saves < MaxEdits
    /\ saves' = saves + 1
    /\ LET puts == Puts(zonesTarget, originalZones, selectedZones, saves') IN
        /\ Flying + Cardinality(puts) <= MaxFlight
        /\ requests' = requests \cup IF puts = {} THEN {Relisting(zonesTarget, saves')} ELSE puts
        /\ isSavingZones' = TRUE
        /\ showZonesModal' = (puts # {})
        /\ told' = IF puts = {} THEN [account |-> zonesTarget, zones |-> selectedZones] ELSE None
    /\ attempt' = [opening |-> openings, zones |-> selectedZones]
    /\ mixed' = mixed \cup {m \in {"unread", "retried"} :
                              \/ m = "unread" /\ loadedAt # openings
                              \/ /\ m = "retried"
                                 /\ attempt # None
                                 /\ attempt.opening = openings /\ attempt.zones # selectedZones}
    /\ UNCHANGED <<serverVars, zonesTarget, originalZones, selectedZones, isLoadingZones,
                   responses, openings, loadedAt>>

-----------------------------------------------------------------------------
(* The server.                                                             *)

Attend(c, ok) ==
    /\ requests' = requests \ {c}
    /\ responses' = responses \cup
                       {[request |-> c, ok |-> ok,
                         owners |-> IF ok /\ c.op = "zones" THEN owner ELSE NoOwners]}
    /\ troubles' = troubles + (IF ok THEN 0 ELSE 1)
    /\ troubles' <= MaxFaults
    /\ UNCHANGED <<dialogVars, openings, saves, historyVars>>

\* The answer may be lost.
Grant(c) ==
    /\ owner' = IF c.op = "put" THEN [owner EXCEPT ![c.zone] = c.to] ELSE owner
    /\ \E ok \in BOOLEAN : Attend(c, ok)

Reject(c) ==
    /\ owner' = owner
    /\ Attend(c, FALSE)

OthersAssign(zone, account) ==
    /\ owner[zone] # account
    /\ troubles < MaxFaults
    /\ troubles' = troubles + 1
    /\ owner' = [owner EXCEPT ![zone] = account]
    /\ mixed' = mixed \cup {"others"}
    /\ UNCHANGED <<dialogVars, requests, responses, openings, saves, loadedAt, attempt, told>>

-----------------------------------------------------------------------------
(* The answers.                                                            *)

TakeResponse(r) ==
    /\ responses' = responses \ {r}
    /\ UNCHANGED <<serverVars, zonesTarget, openings, saves, attempt, mixed>>

\* The zones have been read: those of the account the reading was for, whatever the
\* dialog is for by now.
ZonesRead(r) ==
    /\ r.request.op = "zones" /\ r.ok
    /\ TakeResponse(r)
    /\ originalZones' = OfAccount(r.owners, r.request.account)
    /\ selectedZones' = originalZones'
    /\ isLoadingZones' = FALSE
    /\ loadedAt' = r.request.nr
    /\ UNCHANGED <<showZonesModal, isSavingZones, requests, told>>

ZonesUnread(r) ==
    /\ r.request.op = "zones" /\ ~r.ok
    /\ TakeResponse(r)
    /\ isLoadingZones' = FALSE
    /\ UNCHANGED <<showZonesModal, originalZones, selectedZones, isSavingZones, requests, loadedAt,
                   told>>

\* One of the calls of the save came back; the last closes the dialog, and the accounts
\* are loaded again.
PutDone(r) ==
    /\ r.request.op = "put" /\ r.ok
    /\ TakeResponse(r)
    /\ IF isSavingZones /\ r.request.nr = saves /\ Unanswered = {r.request}
       THEN /\ requests' = requests \cup {Relisting(r.request.account, saves)}
            /\ showZonesModal' = FALSE
            /\ told' = [account |-> r.request.account, zones |-> attempt.zones]
       ELSE UNCHANGED <<requests, showZonesModal, told>>
    /\ UNCHANGED <<originalZones, selectedZones, isLoadingZones, isSavingZones, loadedAt>>

\* Mutant: the button is enabled again by the last call only.
PutFailedOnly(r) ==
    /\ r.request.op = "put" /\ ~r.ok
    /\ TakeResponse(r)
    /\ UNCHANGED <<showZonesModal, originalZones, selectedZones, isLoadingZones, isSavingZones,
                   requests, loadedAt, told>>

\* The first that failed ends the save; what comes after it is not looked at.
PutFailed(r) ==
    /\ r.request.op = "put" /\ ~r.ok
    /\ TakeResponse(r)
    /\ isSavingZones' = (isSavingZones /\ r.request.nr # saves)
    /\ UNCHANGED <<showZonesModal, originalZones, selectedZones, isLoadingZones, requests, loadedAt,
                   told>>

\* The accounts came back, or could not be loaded.
SaveEnded(r) ==
    /\ r.request.op = "accounts"
    /\ TakeResponse(r)
    /\ isSavingZones' = FALSE
    /\ UNCHANGED <<showZonesModal, originalZones, selectedZones, isLoadingZones, requests, loadedAt,
                   told>>

ZonesInit ==
    /\ owner \in InitialOwners
    /\ zonesTarget = None
    /\ showZonesModal = FALSE
    /\ originalZones = {}
    /\ selectedZones = {}
    /\ isLoadingZones = FALSE
    /\ isSavingZones = FALSE
    /\ requests = {}
    /\ responses = {}
    /\ openings = 0
    /\ saves = 0
    /\ troubles = 0
    /\ loadedAt = 0
    /\ attempt = None
    /\ told = None
    /\ mixed = {}

ZonesNext ==
    \/ \E a \in Accounts : OpenZones(a)
    \/ \E z \in Zones : ToggleZone(z)
    \/ CloseZones
    \/ SaveZones
    \/ \E c \in requests : Grant(c) \/ Reject(c)
    \/ \E z \in Zones, a \in Accounts \cup {None} : OthersAssign(z, a)
    \/ \E r \in responses : ZonesRead(r) \/ ZonesUnread(r) \/ PutDone(r) \/ PutFailed(r) \/ SaveEnded(r)

ZonesSpec == ZonesInit /\ [][ZonesNext]_zonesVars

-----------------------------------------------------------------------------

ZonesTypeOK ==
    /\ owner \in Owners
    /\ zonesTarget \in Accounts \cup {None}
    /\ originalZones \subseteq Zones
    /\ selectedZones \subseteq Zones
    /\ {showZonesModal, isLoadingZones, isSavingZones} \subseteq BOOLEAN
    /\ requests \subseteq Requests
    /\ responses \subseteq Responses
    /\ openings \in 0..MaxOpenings /\ loadedAt \in 0..MaxOpenings
    /\ saves \in 0..MaxEdits
    /\ troubles \in 0..MaxFaults
    /\ attempt \in [opening : Nat, zones : SUBSET Zones] \cup {None}
    /\ told \in [account : Accounts, zones : SUBSET Zones] \cup {None}
    /\ mixed \subseteq {"overlap", "others", "unread", "retried"}

\* After a save that succeeded, once nothing is in flight, the account has the zones that
\* were ticked, even when an earlier attempt had stored a part of them: unless others
\* assigned zones too, the dialog was opened while calls of an earlier opening were in
\* flight or saved before its own zones were read, or the boxes were changed between an
\* attempt that failed and the next.
SavedSelectionHolds ==
    Waiting = {} /\ told # None /\ mixed = {} => OfAccount(owner, told.account) = told.zones

\* The dialog does not stay disabled: while it shows a spinner, a call whose answer ends
\* it is in flight, though a save is ended by some of its calls and not by others.
DialogEnds ==
    /\ isSavingZones => Unanswered # {}
    /\ isLoadingZones => \E c \in Waiting : c.op = "zones"

====
