---- MODULE MCBrowser ----
(***************************************************************************)
(* The browser application for TLC: a page with a table, the zone page     *)
(* where it edits sets and where it adds reverse records, the dialog that  *)
(* assigns zones to accounts, and the session.  They share nothing but the *)
(* answer 401, which each of the pages allows for at any time and the      *)
(* session gives to any call of a page, so each is checked by itself:      *)
(* `part` says which is at work, and the others stay as they are before    *)
(* they begin.                                                             *)
(***************************************************************************)
EXTENDS TablePage, ZoneEditor, ReversePtr, AccountZones, BrowserSession, TLC

VARIABLE part

vars == <<part, tableVars, editorVars, zonesVars, ptrVars, sessionVars>>

\* The server holds the same version of every row, or no rows.
FewTables == {[q \in Questions |-> [id \in Ids |-> v]] : v \in Versions \cup {None}}

\* The file has one record set, with one value; the zone has the same or nothing.
FewFiles == {[n \in Names |-> IF n = m THEN {v} ELSE {}] : m \in Names, v \in Values}
FewSets == FewFiles \cup {Empty}

\* The zones have no account, or have the same one.
FewOwners == {[z \in Zones |-> a] : a \in Accounts \cup {None}}

\* Two numbers, one the end of the other when read as strings, as octets are; the first is
\* typed in either case, as nibbles are.  Two reverse zones at most.
FewLabels == {<<"b">>, <<"B">>, <<"b", "b">>}
FewLower == [label \in FewLabels |-> IF label = <<"B">> THEN <<"b">> ELSE label]

\* Octets alone: 1 and 11.
Octets == {<<1>>, <<1, 1>>}
SameOctet == [label \in Octets |-> label]

FewReverseSets == {zones \in SUBSET Subnets : Cardinality(zones) <= 2}

\* The parts are given the same sets, so that the same permutations serve all of them.
Symmetry == Permutations(Names) \cup Permutations(Versions) \cup Permutations(Questions)

FirstQuestion == CHOOSE q \in Questions : TRUE

Init ==
    /\ part \in {"table", "editor", "ptr", "zones", "session"}
    /\ TableInit
    /\ part # "table" => kind = ZoneList /\ table = [q \in Questions |-> NoRows] /\ chosen = FirstQuestion
    /\ EditorInit
    /\ part # "editor" => tab = "records" /\ held = Empty
    /\ ZonesInit
    /\ part # "zones" => owner = NoOwners
    /\ PtrInit
    /\ part # "ptr" => reverse = {}
    /\ SessionInit
    /\ part # "session" => cookie = None

Next ==
    \/ part = "table" /\ TableNext /\ UNCHANGED <<part, editorVars, zonesVars, ptrVars, sessionVars>>
    \/ part = "editor" /\ EditorNext /\ UNCHANGED <<part, tableVars, zonesVars, ptrVars, sessionVars>>
    \/ part = "ptr" /\ PtrNext /\ UNCHANGED <<part, tableVars, editorVars, zonesVars, sessionVars>>
    \/ part = "zones" /\ ZonesNext /\ UNCHANGED <<part, tableVars, editorVars, ptrVars, sessionVars>>
    \/ part = "session" /\ SessionNext /\ UNCHANGED <<part, tableVars, editorVars, zonesVars, ptrVars>>

Spec == Init /\ [][Next]_vars

TypeOK == TableTypeOK /\ EditorTypeOK /\ PtrTypeOK /\ ZonesTypeOK /\ SessionTypeOK

====
