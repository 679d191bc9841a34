---- MODULE TablePage ----
(***************************************************************************)
(* The pages of the browser application that show a table: zones, TSIG     *)
(* keys, users, accounts, tokens, members, ...  Each component loads the   *)
(* table when it is created, sends one call for each thing the user does,  *)
(* and, when the answer comes, loads the table again or changes the rows   *)
(* it shows.  Nothing orders the calls: the server serves them, and the    *)
(* answers come back, in any order.                                        *)
(*                                                                         *)
(* Some pages show the rows of what the user chose: the members of a       *)
(* catalogue, the results of a search.  The others have a single choice.   *)
(*                                                                         *)
(* A table is a function of the ids: order, paging and filtering of what   *)
(* is loaded are left out, and a row listed twice cannot be seen.          *)
(***************************************************************************)
EXTENDS Page, Sequences, SequencesExt

CONSTANTS
    Ids,            \* of rows
    Versions,       \* of the contents of a row
    Questions,      \* what a page can be asked for
    InitialTables   \* what the server may hold when a page is opened

Tables == [Ids -> Versions \cup {None}]

ASSUME TablePageAssumption ==
    /\ None \notin Ids \cup Versions
    /\ InitialTables \subseteq [Questions -> Tables]

VARIABLES
    kind,       \* the component displayed
    table,      \* the server's tables
    chosen,     \* what the page was asked for last
    shown,      \* the rows the component holds
    isLoading,
    busy,       \* operations whose button is disabled (isCreating, isDeleting, ...)
    sent,       \* calls the server has not served
    answers,    \* calls it has, in the order it did, until the page gets the answer
    edits,      \* edits sent so far
    faults,     \* calls that failed and changes by others so far
    doubts      \* history: why the rows may differ from the server's

tableVars == <<kind, table, chosen, shown, isLoading, busy, sent, answers, edits, faults, doubts>>

Edits == {"create", "change", "remove"}

\* What a component does when an edit succeeded: "reload" the table, change the rows
\* "here", or nothing because it has no such edit ("none").  `modal` are the edits
\* whose button is disabled while one is in flight.
Kinds ==
    [create : {"none", "reload", "here"}, change : {"none", "reload", "here"},
     remove : {"none", "reload", "here"}, modal : SUBSET {"change", "remove"}, asks : BOOLEAN]

Component(create, change, remove, modal) ==
    [create |-> create, change |-> change, remove |-> remove, modal |-> modal, asks |-> FALSE]

Asking(create, remove) ==
    [create |-> create, change |-> "none", remove |-> remove, modal |-> {}, asks |-> TRUE]

ZoneList == Component("reload", "none", "here", {})
TsigKeys == Component("reload", "none", "here", {})
Autoprimaries == Component("reload", "none", "here", {})
Networks == Component("reload", "here", "here", {})
AcmeKeys == Component("none", "here", "here", {"change"})
AdminUsers == Component("reload", "here", "reload", {"remove"})
AdminRecordTypes == Component("reload", "reload", "reload", {"remove"})
AdminAccounts == Component("reload", "reload", "reload", {"change", "remove"})
Tokens == Component("here", "here", "here", {"change"})
ZoneMembers == Component("here", "here", "here", {})
ZoneAcmeKeys == Component("here", "here", "here", {"change"})
ZoneCryptoKeys == Component("reload", "reload", "reload", {})
Catalogues == Component("reload", "none", "here", {})
Consumers == Component("reload", "none", "here", {})
ServerConfig == Component("none", "none", "none", {})
Statistics == Component("none", "none", "none", {})
CatalogueMembers == Asking("here", "here")
ConsumerMembers == Asking("none", "none")
Search == Asking("none", "none")
Audit == Asking("none", "none")

Components ==
    {ZoneList, TsigKeys, Autoprimaries, Networks, AcmeKeys, AdminUsers, AdminRecordTypes,
     AdminAccounts, Tokens, ZoneMembers, ZoneAcmeKeys, ZoneCryptoKeys, Catalogues, Consumers,
     ServerConfig, Statistics, CatalogueMembers, ConsumerMembers, Search, Audit}

Calls ==
    [op : Edits \cup {"load"}, q : Questions, id : Ids \cup {None}, version : Versions \cup {None},
     via : Edits \cup {None}]

\* An answer: the call, how it ended, the rows of a load, and whether they were changed
\* since it was served.
Answers == [call : Calls, status : {"ok", "failed", "denied"}, rows : Tables, behind : BOOLEAN]

NoRows == [id \in Ids |-> None]

Loaded(a) == a.call.op = "load" /\ a.status = "ok"

Load(q, via) == [op |-> "load", q |-> q, id |-> None, version |-> None, via |-> via]

InFlight == {sent[i] : i \in DOMAIN sent} \cup {answers[i].call : i \in DOMAIN answers}

Room == Len(sent) + Len(answers) < MaxCalls

-----------------------------------------------------------------------------
(* The user.                                                               *)

\* Another catalogue is selected, another search is made.
Ask(q) ==
    /\ kind.asks
    /\ Room
    /\ chosen' = q
    /\ isLoading' = TRUE
    /\ sent' = Append(sent, Load(q, None))
    /\ UNCHANGED <<kind, table, shown, busy, answers, edits, faults, doubts>>

\* The retry button beside an error.
Retry ==
    /\ "failed" \in doubts
    /\ Room
    /\ isLoading' = TRUE
    /\ sent' = Append(sent, Load(chosen, None))
    /\ UNCHANGED <<kind, table, chosen, shown, busy, answers, edits, faults, doubts>>

\* A dialog can be submitted with the Enter key while its button is disabled.
Offered(op, id) ==
    IF op = "create"
    THEN shown[id] = None
    ELSE ~isLoading /\ shown[id] # None /\ (op \in kind.modal => op \notin busy)

\* The user creates, changes or removes a row.
Edit(op, id, version) ==
    /\ kind[op] # "none"
    /\ Offered(op, id)
    /\ Room
    /\ edits < MaxEdits
    /\ edits' = edits + 1
    /\ busy' = busy \cup ({op} \cap ({"create"} \cup kind.modal))
    /\ sent' = Append(sent, [op |-> op, q |-> chosen, id |-> id, version |-> version, via |-> op])
    /\ UNCHANGED <<kind, table, chosen, shown, isLoading, answers, faults, doubts>>

-----------------------------------------------------------------------------
(* The server.                                                             *)

Fits(c) ==
    CASE c.op = "load" -> TRUE
      [] c.op = "create" -> table[c.q][c.id] = None
      [] OTHER -> table[c.q][c.id] # None

Effect(c) ==
    IF c.op = "load" THEN table
    ELSE [table EXCEPT ![c.q][c.id] = IF c.op = "remove" THEN None ELSE c.version]

Overtaken == [i \in DOMAIN answers |-> [answers[i] EXCEPT !.behind = Loaded(answers[i])]]

Served(i, status) ==
    LET c == sent[i] IN
    /\ sent' = RemoveAt(sent, i)
    /\ answers' = Append(IF table' = table THEN answers ELSE Overtaken,
                         [call |-> c, status |-> status, behind |-> FALSE,
                          rows |-> IF c.op = "load" /\ status = "ok" THEN table[c.q] ELSE NoRows])
    /\ faults' = faults + (IF status = "failed" THEN 1 ELSE 0)
    /\ faults' <= MaxFaults
    /\ UNCHANGED <<kind, chosen, shown, isLoading, busy, edits, doubts>>

\* The server does what it is asked; the answer may be lost.
Perform(i) ==
    /\ Fits(sent[i])
    /\ table' = Effect(sent[i])
    /\ \E status \in {"ok", "failed"} : Served(i, status)

\* It refuses, or the call never reaches it.
Refuse(i, status) ==
    /\ status \in {"failed", "denied"}
    /\ table' = table
    /\ Served(i, status)

\* Another user, or another page, changes a row.
OthersEdit(q, id, version) ==
    /\ kind.asks \/ q = chosen
    /\ version # table[q][id]
    /\ faults < MaxFaults
    /\ faults' = faults + 1
    /\ table' = [table EXCEPT ![q][id] = version]
    /\ answers' = Overtaken
    /\ doubts' = doubts \cup {"others"}
    /\ UNCHANGED <<kind, chosen, shown, isLoading, busy, sent, edits>>

-----------------------------------------------------------------------------
(* The answers.                                                            *)

\* Mutant: a row that was removed is not filtered out.
AppliedKeeping(rows, c) ==
    CASE c.op = "create" -> [rows EXCEPT ![c.id] = c.version]
      [] c.op = "change" -> [rows EXCEPT ![c.id] = IF @ = None THEN None ELSE c.version]
      [] c.op = "remove" -> rows

\* The rows once the component has applied the answer of an edit to them.
Applied(rows, c) ==
    CASE c.op = "create" -> [rows EXCEPT ![c.id] = c.version]
      [] c.op = "change" -> [rows EXCEPT ![c.id] = IF @ = None THEN None ELSE c.version]
      [] c.op = "remove" -> [rows EXCEPT ![c.id] = None]

Reloads(c) == c.op \in Edits /\ kind[c.op] = "reload"

\* Answers are late when another call was served before and is not answered yet;
\* they stray when the page has been asked for something else meanwhile.  The rows of a
\* load end all doubts when nothing else is in flight and nothing changed since.
DoubtsAfter(i) ==
    LET a == answers[i] IN
    IF Loaded(a) /\ ~a.behind /\ a.call.q = chosen /\ sent = <<>> /\ Len(answers) = 1
    THEN {}
    ELSE doubts \cup {d \in {"late", "strayed", "failed"} :
                        \/ d = "late" /\ i # 1
                        \/ d = "strayed" /\ a.call.q # chosen
                        \/ d = "failed" /\ a.status # "ok"}

Answered(i) ==
    /\ answers' = RemoveAt(answers, i)
    /\ doubts' = DoubtsAfter(i)
    /\ UNCHANGED <<kind, table, chosen, edits, faults>>

\* The table is loaded.
ShowLoaded(i) ==
    LET a == answers[i] IN
    /\ Loaded(a)
    /\ Answered(i)
    /\ shown' = a.rows
    /\ isLoading' = FALSE
    /\ busy' = busy \ {a.call.via}
    /\ UNCHANGED sent

\* An edit succeeded: the component loads the table again ...
ReloadAfter(i) ==
    LET a == answers[i] IN
    /\ Reloads(a.call) /\ a.status = "ok"
    /\ Answered(i)
    /\ sent' = Append(sent, Load(chosen, a.call.via))
    /\ isLoading' = TRUE
    /\ UNCHANGED <<shown, busy>>

\* ... or changes the rows it shows.
ShowEdited(i) ==
    LET a == answers[i] IN
    /\ a.call.op \in Edits /\ ~Reloads(a.call) /\ a.status = "ok"
    /\ Answered(i)
    /\ shown' = Applied(shown, a.call)
    /\ busy' = busy \ {a.call.via}
    /\ UNCHANGED <<isLoading, sent>>

\* Mutant: the buttons are enabled again where the edit succeeded, not in `finally`.
ShowErrorOnly(i) ==
    LET a == answers[i] IN
    /\ a.status # "ok"
    /\ Answered(i)
    /\ isLoading' = (isLoading /\ a.call.op # "load")
    /\ UNCHANGED <<shown, busy, sent>>

\* A message is shown, and the `finally` branches are run.
ShowError(i) ==
    LET a == answers[i] IN
    /\ a.status # "ok"
    /\ Answered(i)
    /\ isLoading' = (isLoading /\ a.call.op # "load")
    /\ busy' = busy \ {a.call.via}
    /\ UNCHANGED <<shown, sent>>

Answer(i) == ShowLoaded(i) \/ ReloadAfter(i) \/ ShowEdited(i) \/ ShowError(i)

UserStep ==
    \/ \E q \in Questions : Ask(q)
    \/ Retry
    \/ \E op \in Edits, id \in Ids, v \in Versions : Edit(op, id, v)

OthersStep == \E q \in Questions, id \in Ids, v \in Versions \cup {None} : OthersEdit(q, id, v)

\* The component is created and loads its table.
TableInit ==
    /\ kind \in Components
    /\ table \in InitialTables
    /\ chosen \in Questions
    /\ shown = NoRows
    /\ isLoading = TRUE
    /\ busy = {}
    /\ sent = <<Load(chosen, None)>>
    /\ answers = <<>>
    /\ edits = 0
    /\ faults = 0
    /\ doubts = {}

TableNext ==
    \/ UserStep
    \/ \E i \in DOMAIN sent : Perform(i) \/ \E status \in {"failed", "denied"} : Refuse(i, status)
    \/ OthersStep
    \/ \E i \in DOMAIN answers : Answer(i)

TableSpec == TableInit /\ [][TableNext]_tableVars

-----------------------------------------------------------------------------

TableTypeOK ==
    /\ kind \in Kinds
    /\ table \in [Questions -> Tables]
    /\ chosen \in Questions
    /\ shown \in Tables
    /\ isLoading \in BOOLEAN
    /\ busy \subseteq Edits
    /\ sent \in Seq(Calls)
    /\ answers \in Seq(Answers)
    /\ edits \in 0..MaxEdits
    /\ faults \in 0..MaxFaults
    /\ doubts \subseteq {"others", "late", "strayed", "failed"}

\* When nothing is in flight the page shows what the server holds, unless an operation
\* failed and said so, others changed the table, an answer overtook an earlier one, or
\* one came for what was chosen before, and no load has cleared this up since.  So no
\* component forgets to bring its rows up to date, however its calls overlap.
NoSilentDivergence == InFlight = {} /\ doubts = {} => shown = table[chosen]

\* The spinner turns, and a button is disabled, only as long as a call is in flight
\* whose answer ends it: every path through the handlers passes the `finally`.
FlagsFollowCalls ==
    /\ isLoading => \E c \in InFlight : c.op = "load"
    /\ \A op \in busy : \E c \in InFlight : c.via = op

====
