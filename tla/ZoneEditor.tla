---- MODULE ZoneEditor ----
(***************************************************************************)
(* The zone page where it edits sets of values: the records of a record    *)
(* set, the entries of a metadata kind.  An entry may be added or removed  *)
(* by itself (EXTEND, PRUNE), or by sending the whole set, computed from   *)
(* the copy the page loaded last.  Each edit ends with a load of the       *)
(* copy.  An import reads the zone and then patches it.  Served and        *)
(* answered in any order, a set computed from an old copy may undo what    *)
(* the same user was told was done.  Nobody else edits the zone meanwhile. *)
(***************************************************************************)
EXTENDS Page, FiniteSets, Sequences, SequencesExt

CONSTANTS
    Names,        \* of record sets, or metadata kinds
    Values,
    InitialSets,  \* what the zone may hold when the page is opened
    Files         \* zone files the user may import

Sets == [Names -> SUBSET Values]

Ways == {"add", "entry", "edit", "import"}

ASSUME ZoneEditorAssumption ==
    /\ None \notin Names \cup Ways
    /\ \A s \in Sets \cup SUBSET Names : None # s
    /\ InitialSets \subseteq Sets
    /\ Files \subseteq Sets

VARIABLES
    tab,          \* "records", or "metadata": one of the tabs that edit metadata
    held,         \* the server's sets
    copy,         \* the sets the page loaded last
    draft,        \* the record set in the edit dialog, as it was when it was opened
    isLoadingMeta,
    metadataLoaded,
    submitting,   \* what is under way: isSubmittingRecord ("add"), isSubmittingEdit ("edit"),
                  \* isImporting ("import"), isSubmitting of the metadata tab ("entry")
    asked,        \* calls the server has not finished, in the order they were sent
    replies,      \* answers the page has not got, in the order they were given
    tries,        \* edits sent so far
    mishaps,      \* calls that failed so far
    want,         \* history: the sets as the user's acknowledged edits leave them
    dim,          \* history: the copy may be older than what the user was told
    spoiled       \* history: why the server's sets may differ from `want`

editorVars == <<tab, held, copy, draft, isLoadingMeta, metadataLoaded, submitting, asked, replies,
                tries, mishaps, want, dim, spoiled>>

\* `set` is the set to store, or the values to add or remove; `plus` and `minus` what the
\* user means by it; `via` is what is under way until this call, or the load after it, is
\* answered, and `saw` is what the first half of an import has read.
Asks ==
    [op : {"load", "extend", "prune", "replace", "import"}, name : Names \cup {None},
     set : SUBSET Values, plus : SUBSET Values, minus : SUBSET Values,
     file : Sets \cup {None}, saw : {None} \cup SUBSET Names, via : Ways \cup {None}]

Replies == [call : Asks, status : {"ok", "failed", "denied"}, sets : Sets, behind : BOOLEAN]

Empty == [n \in Names |-> {}]

Ask0 == [op |-> "load", name |-> None, set |-> {}, plus |-> {}, minus |-> {},
         file |-> None, saw |-> None, via |-> None]

LoadSets == Ask0
Replace(n, from, to) ==
    [Ask0 EXCEPT !.op = "replace", !.name = n, !.set = to, !.plus = to \ from, !.minus = from \ to]

\* Mutant: a record is added by sending the set the page shows, with it.
ExtendShown(n, v) == Replace(n, copy[n], copy[n] \cup {v})

Extend(n, v) == [Ask0 EXCEPT !.op = "extend", !.name = n, !.set = {v}, !.plus = {v}]
Prune(n, v) == [Ask0 EXCEPT !.op = "prune", !.name = n, !.set = {v}, !.minus = {v}]
Import(f) == [Ask0 EXCEPT !.op = "import", !.file = f, !.via = "import"]
Through(c, way) == [c EXCEPT !.via = way]

Pending == {asked[i] : i \in DOMAIN asked} \cup {replies[i].call : i \in DOMAIN replies}

\* Two edits whose order matters: an import and any other, two of one name unless both
\* only add or only remove, or add and remove different values.
Collide(c, d) ==
    \/ "import" \in {c.op, d.op}
    \/ /\ c.name = d.name
       /\ \/ "replace" \in {c.op, d.op}
          \/ c.op # d.op /\ c.set = d.set

Crosses(c) == \E d \in Pending : d.op # "load" /\ Collide(c, d)

Alone == Len(asked) + Len(replies) = 1

\* What is computed from the copy is sound if nothing is in flight that may change what
\* the copy is of, and the last load was not lost or overtaken.
Blind == dim \/ Pending # {}

-----------------------------------------------------------------------------
(* The user.                                                               *)

SendEdit(c, why) ==
    /\ Len(asked) + Len(replies) < MaxCalls
    /\ tries < MaxEdits
    /\ tries' = tries + 1
    /\ asked' = Append(asked, c)
    /\ spoiled' = spoiled \cup why \cup {w \in {"crossed"} : Crosses(c)}
    /\ submitting' = submitting \cup ({c.via} \ {None})
    /\ UNCHANGED <<tab, held, copy, isLoadingMeta, metadataLoaded, replies, mishaps, want, dim>>

BlindIf(b) == {w \in {"blind"} : b}

\* The records tab: add a value, remove one of several, remove the set.  The form of a new
\* record can be submitted with the Enter key while its button is disabled.
AddRecord(n, v) ==
    /\ tab = "records" /\ draft = None
    /\ SendEdit(Through(Extend(n, v), "add"), {})
    /\ UNCHANGED draft

PruneRecordValue(n, v) ==
    /\ tab = "records" /\ draft = None
    /\ v \in copy[n] /\ copy[n] # {v}
    /\ SendEdit(Prune(n, v), {})
    /\ UNCHANGED draft

DeleteRRset(n) ==
    /\ tab = "records" /\ draft = None
    /\ copy[n] # {}
    /\ SendEdit(Replace(n, Values, {}), {})
    /\ UNCHANGED draft

\* Disabling a record is sending the displayed set with that record changed.
ToggleRecordDisabled(n, v, w) ==
    /\ tab = "records" /\ draft = None
    /\ v \in copy[n] /\ w \notin copy[n]
    /\ SendEdit(Replace(n, copy[n], (copy[n] \ {v}) \cup {w}), BlindIf(Blind))
    /\ UNCHANGED draft

\* The edit dialog works on a copy of the displayed set, however long it stays open.
OpenEditModal(n) ==
    /\ tab = "records" /\ draft = None
    /\ copy[n] # {}
    /\ draft' = [name |-> n, set |-> copy[n], blind |-> Blind]
    /\ UNCHANGED <<tab, held, copy, isLoadingMeta, metadataLoaded, submitting, asked, replies,
                   tries, mishaps, want, dim, spoiled>>

CloseEditModal ==
    /\ draft # None
    /\ draft' = None
    /\ UNCHANGED <<tab, held, copy, isLoadingMeta, metadataLoaded, submitting, asked, replies,
                   tries, mishaps, want, dim, spoiled>>

\* The dialog stays open until an edit through it succeeds, unless it is closed.  The whole
\* set is sent, also when nothing but its TTL was changed.
SaveEdit(to) ==
    /\ draft # None /\ "edit" \notin submitting
    /\ to # {}
    /\ SendEdit(Through(Replace(draft.name, draft.set, to), "edit"), BlindIf(draft.blind))
    /\ UNCHANGED draft

ImportZone(f) ==
    /\ tab = "records" /\ draft = None /\ "import" \notin submitting
    /\ SendEdit(Import(f), {})
    /\ UNCHANGED draft

\* The metadata tabs: the whole set is sent, with the entry added or without it, and
\* nothing else can be edited until it has been loaded again.
MetadataReady == tab = "metadata" /\ ~isLoadingMeta /\ submitting = {}

SendEntries(c, why) == SendEdit(Through(c, "entry"), why) /\ UNCHANGED draft

\* An entry that is there already is not sent, the metadata are loaded again.
AddEntry(n, v) ==
    /\ MetadataReady
    /\ IF v \in copy[n]
       THEN /\ Len(asked) + Len(replies) < MaxCalls
            /\ asked' = Append(asked, Through(LoadSets, "entry"))
            /\ isLoadingMeta' = TRUE
            /\ submitting' = {"entry"}
            /\ UNCHANGED <<tab, held, copy, draft, metadataLoaded, replies, tries, mishaps, want, dim,
                           spoiled>>
       ELSE SendEntries(Replace(n, copy[n], copy[n] \cup {v}), BlindIf(Blind))

RemoveEntry(n, v) ==
    /\ MetadataReady
    /\ v \in copy[n]
    /\ SendEntries(Replace(n, copy[n], copy[n] \ {v}), BlindIf(Blind))

\* A kind with a single entry is set, or deleted, whatever the page shows.
SaveSingle(n, to) ==
    /\ MetadataReady
    /\ Cardinality(to) <= 1
    /\ SendEntries(Replace(n, Values \ to, to), {})

\* From one tab that edits metadata to another: each has a status of its own, the one that
\* is left is destroyed, and its calls go on.
\* The metadata are loaded if they have never been.
Disowned(s) == [i \in DOMAIN s |-> Through(s[i], None)]

SetTab ==
    /\ tab = "metadata"
    /\ Len(asked) + Len(replies) < MaxCalls
    /\ submitting' = {}
    /\ asked' = Disowned(asked) \o (IF metadataLoaded THEN <<>> ELSE <<LoadSets>>)
    /\ replies' = [i \in DOMAIN replies |-> [replies[i] EXCEPT !.call.via = None]]
    /\ isLoadingMeta' = (isLoadingMeta \/ ~metadataLoaded)
    /\ UNCHANGED <<tab, held, copy, draft, metadataLoaded, tries, mishaps, want, dim, spoiled>>

-----------------------------------------------------------------------------
(* The server.                                                             *)

\* A name that the file leaves out is deleted if the import has read it.
Imported(c) ==
    [n \in Names |-> IF c.file[n] # {} THEN c.file[n] ELSE IF n \in c.saw THEN {} ELSE held[n]]

Stored(c) ==
    CASE c.op = "load" -> held
      [] c.op = "extend" -> [held EXCEPT ![c.name] = @ \cup c.set]
      [] c.op = "prune" -> [held EXCEPT ![c.name] = @ \ c.set]
      [] c.op = "replace" -> [held EXCEPT ![c.name] = c.set]
      [] c.op = "import" -> Imported(c)

LoadedSets(r) == r.call.op = "load" /\ r.status = "ok"

Reply(i, status) ==
    LET c == asked[i] IN
    /\ asked' = RemoveAt(asked, i)
    /\ replies' = Append([j \in DOMAIN replies |->
                            [replies[j] EXCEPT !.behind = @ \/ (LoadedSets(replies[j]) /\ held' # held)]],
                         [call |-> [c EXCEPT !.saw = None], status |-> status, behind |-> FALSE,
                          sets |-> IF c.op = "load" /\ status = "ok" THEN held ELSE Empty])
    /\ mishaps' = mishaps + (IF status = "failed" THEN 1 ELSE 0)
    /\ mishaps' <= MaxFaults
    /\ UNCHANGED <<tab, copy, draft, isLoadingMeta, metadataLoaded, submitting, tries, want, dim,
                   spoiled>>

\* The first half of an import.
ReadZone(i) ==
    /\ asked[i].op = "import" /\ asked[i].saw = None
    /\ asked' = [asked EXCEPT ![i].saw = {n \in Names : held[n] # {}}]
    /\ UNCHANGED <<tab, held, copy, draft, isLoadingMeta, metadataLoaded, submitting, replies,
                   tries, mishaps, want, dim, spoiled>>

\* A call is done; its answer may be lost.
Do(i) ==
    /\ asked[i].op = "import" => asked[i].saw # None
    /\ held' = Stored(asked[i])
    /\ \E status \in {"ok", "failed"} : Reply(i, status)

Deny(i, status) ==
    /\ status \in {"failed", "denied"}
    /\ held' = held
    /\ Reply(i, status)

-----------------------------------------------------------------------------
(* The answers.                                                            *)

TakeReply(i) ==
    /\ replies' = RemoveAt(replies, i)
    /\ UNCHANGED <<tab, held, tries, mishaps>>

\* A load that was overtaken, or comes while another call is in flight, may show less
\* than the user was told.
ShowSets(i) ==
    LET r == replies[i] IN
    /\ LoadedSets(r)
    /\ TakeReply(i)
    /\ copy' = r.sets
    /\ isLoadingMeta' = FALSE
    /\ metadataLoaded' = TRUE
    /\ submitting' = submitting \ {r.call.via}
    /\ dim' = (r.behind \/ (~Alone /\ (dim \/ i # 1)))
    /\ UNCHANGED <<draft, asked, want, spoiled>>

\* What the user takes to be stored once the edit is acknowledged.
Meant(c) ==
    IF c.op = "import" THEN c.file
    ELSE [want EXCEPT ![c.name] = (@ \ c.minus) \cup c.plus]

\* An edit succeeded: close the dialog if it was made there, load the sets again.
EditDone(i) ==
    LET r == replies[i] IN
    /\ r.call.op # "load" /\ r.status = "ok"
    /\ TakeReply(i)
    /\ want' = Meant(r.call)
    /\ asked' = Append(asked, Through(LoadSets, r.call.via))
    /\ isLoadingMeta' = (tab = "metadata")
    /\ draft' = IF r.call.via = "edit" THEN None ELSE draft
    /\ UNCHANGED <<copy, metadataLoaded, submitting, dim, spoiled>>

\* Mutant: the tab is enabled again only by the load after an edit.
EditFailedOnly(i) ==
    LET r == replies[i] IN
    /\ r.status # "ok"
    /\ TakeReply(i)
    /\ isLoadingMeta' = (isLoadingMeta /\ r.call.op # "load")
    /\ dim' = TRUE
    /\ spoiled' = spoiled \cup {w \in {"failed"} : r.call.op # "load"}
    /\ UNCHANGED <<copy, draft, metadataLoaded, submitting, asked, want>>

\* It did not: a message is shown, and whether anything was stored is not known.
EditFailed(i) ==
    LET r == replies[i] IN
    /\ r.status # "ok"
    /\ TakeReply(i)
    /\ isLoadingMeta' = (isLoadingMeta /\ r.call.op # "load")
    /\ submitting' = submitting \ {r.call.via}
    /\ dim' = TRUE
    /\ spoiled' = spoiled \cup {w \in {"failed"} : r.call.op # "load"}
    /\ UNCHANGED <<copy, draft, metadataLoaded, asked, want>>

EditorInit ==
    /\ tab \in {"records", "metadata"}
    /\ held \in InitialSets
    /\ copy = Empty
    /\ draft = None
    /\ isLoadingMeta = (tab = "metadata")
    /\ metadataLoaded = FALSE
    /\ submitting = {}
    /\ asked = <<LoadSets>>
    /\ replies = <<>>
    /\ tries = 0
    /\ mishaps = 0
    /\ want = held
    /\ dim = FALSE
    /\ spoiled = {}

EditorUser ==
    \/ \E n \in Names, v \in Values :
        \/ AddRecord(n, v) \/ PruneRecordValue(n, v)
        \/ AddEntry(n, v) \/ RemoveEntry(n, v)
        \/ \E w \in Values : ToggleRecordDisabled(n, v, w)
    \/ \E n \in Names : DeleteRRset(n) \/ OpenEditModal(n) \/ \E to \in SUBSET Values : SaveSingle(n, to)
    \/ CloseEditModal
    \/ \E to \in SUBSET Values : SaveEdit(to)
    \/ \E f \in Files : ImportZone(f)
    \/ SetTab

EditorAnswer(i) == ShowSets(i) \/ EditDone(i) \/ EditFailed(i)

EditorNext ==
    \/ EditorUser
    \/ \E i \in DOMAIN asked :
        ReadZone(i) \/ Do(i) \/ \E status \in {"failed", "denied"} : Deny(i, status)
    \/ \E i \in DOMAIN replies : EditorAnswer(i)

EditorSpec == EditorInit /\ [][EditorNext]_editorVars

-----------------------------------------------------------------------------

EditorTypeOK ==
    /\ tab \in {"records", "metadata"}
    /\ held \in Sets
    /\ copy \in Sets
    /\ draft \in [name : Names, set : SUBSET Values, blind : BOOLEAN] \cup {None}
    /\ isLoadingMeta \in BOOLEAN
    /\ metadataLoaded \in BOOLEAN
    /\ submitting \subseteq Ways
    /\ asked \in Seq(Asks)
    /\ replies \in Seq(Replies)
    /\ tries \in 0..MaxEdits
    /\ mishaps \in 0..MaxFaults
    /\ want \in Sets
    /\ dim \in BOOLEAN
    /\ spoiled \subseteq {"failed", "blind", "crossed"}

\* When nothing is in flight the server holds what the user's acknowledged edits add up
\* to: no edit undoes another, unless an edit failed, two edits whose order matters were in
\* flight together, or one was computed from a copy that was still being loaded, or whose
\* load had failed or been overtaken.
OwnEditsStand == Pending = {} /\ spoiled = {} => held = want

\* Nothing is left disabled: what is said to be under way has a call in flight, also on
\* a tab that was entered while the calls of another went on.
SubmittingEnds ==
    /\ \A way \in submitting : \E c \in Pending : c.via = way
    /\ isLoadingMeta => \E c \in Pending : c.op = "load"

====
