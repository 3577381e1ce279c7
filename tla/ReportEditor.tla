---------------------------- MODULE ReportEditor ----------------------------
(***************************************************************************)
(* Editing a report in one browser tab: the builder store                  *)
(* (store/builder.ts), the builder page, the Save Report screen, the list  *)
(* of reports and the routes of api/v1/reports.py that keep them.          *)
(*                                                                         *)
(* Every answer of the server arrives at a later time, in any order, and   *)
(* is applied to whatever is open by then.  A save calls back into the     *)
(* page that sent it: while that page is mounted its callback sees the     *)
(* store's latest definition, once it has been left the callback keeps the *)
(* definition the page rendered last.                                      *)
(***************************************************************************)
EXTENDS FiniteSets, Naturals

CONSTANTS
    Tables,        \* tables a report may use
    NoTable,       \* an empty primary_table
    Columns,       \* ids a report's columns may get
    TableOf,       \* the table of each of them
    Reports,       \* ids of saved reports
    New,           \* reportId null: not saved yet
    Nothing,       \* null: no answer, no row
    Live,          \* the callback of a page still mounted
    Stored,        \* the report that exists at the start, with its definition
    MaxActs        \* bound: what the user does in one behaviour

ASSUME ConstantsAssumption ==
    /\ TableOf \in [Columns -> Tables]
    /\ NoTable \notin Tables
    /\ New \notin Reports
    /\ Stored.report \in Reports
    /\ MaxActs \in Nat

(* One filter and one grouping of a table stand for any number of them.    *)
Definitions ==
    [primary : Tables \cup {NoTable}, tables : SUBSET Tables,
     columns : SUBSET Columns, sorts : SUBSET Columns,
     groups : SUBSET Tables, filters : SUBSET Tables,
     look : BOOLEAN]        \* joins, titles, formats, operators, limits

Empty == [primary |-> NoTable, tables |-> {}, columns |-> {}, sorts |-> {},
          groups |-> {}, filters |-> {}, look |-> FALSE]

(* Nothing in a definition refers to a table or column it has not got.     *)
Intact(d) ==
    /\ (d.primary = NoTable /\ d.tables = {}) \/ d.primary \in d.tables
    /\ {TableOf[c] : c \in d.columns} \subseteq d.tables
    /\ d.sorts \subseteq d.columns
    /\ d.groups \cup d.filters \subseteq d.tables

ASSUME StoredAssumption ==
    /\ Stored.def \in Definitions
    /\ Intact(Stored.def)

VARIABLES
    server,      \* the saved reports
    page,        \* list, builder or screen (Save Report)
    def,         \* the store: definition
    reportId,    \* the store: which saved report it is
    dirty,       \* the store: edited since it was loaded
    total,       \* builder: the definition whose row count is shown
    counts,      \* what waits for /reports/count
    fetches,     \* tables whose columns "+ all" has asked for
    opens,       \* reports being opened
    saves,       \* saves under way
    acts,        \* what the user has done so far
    origin,      \* history: the report the open definition was loaded from
    held,        \* history: every definition a report has had
    late,        \* history: the total shown was counted for what has been replaced since
    blame        \* history: what has come between the editor and the server

storeVars  == << def, reportId, dirty >>
askedVars  == << fetches, opens >>
viewVars   == << total, counts, late >>
serverVars == << server, held >>
vars == << serverVars, page, storeVars, viewVars, askedVars, saves, acts,
           origin, blame >>

Overtaken == {"changed", "reloaded"}       \* what happens to the store under a pending save
Causes == Overtaken \cup {"stripped"}
Frozen == [def : Definitions, origin : Reports \cup {New}]
Saves  == [report : Reports \cup {New}, def : Definitions, keep : BOOLEAN,
           from : {"builder", "screen", "list"}, at : {"sent", "stored"},
           over : SUBSET Overtaken, callback : Frozen \cup {Live, Nothing}]
(* over: the open definition has been replaced since the count was asked.  *)
Counts == [def : Definitions, over : BOOLEAN]
Rows   == [def : Definitions, filed : BOOLEAN, keep : BOOLEAN, listed : BOOLEAN]

ASSUME NullsAssumption == Live # Nothing /\ Live \notin Frozen

TypeOK ==
    /\ server     \in [Reports -> Rows \cup {Nothing}]
    /\ page       \in {"list", "builder", "screen"}
    /\ def        \in Definitions
    /\ reportId   \in Reports \cup {New}
    /\ dirty      \in BOOLEAN
    /\ total      \in Definitions \cup {Nothing}
    /\ counts     \subseteq Counts
    /\ late       \in BOOLEAN
    /\ fetches    \subseteq Tables
    /\ opens      \subseteq [report : Reports, def : Definitions]
    /\ saves      \subseteq Saves
    /\ acts       \in 0 .. MaxActs
    /\ origin     \in Reports \cup {New}
    /\ held       \in [Reports -> SUBSET Definitions]
    /\ blame      \subseteq Causes
    /\ page # "builder" => total = Nothing /\ counts = {}

-----------------------------------------------------------------------------
User == acts < MaxActs /\ acts' = acts + 1

Exists(r) == server[r] # Nothing
(* The builder page keeps what it shows and waits for only while mounted.  *)
Leave_KeepsTotal == counts' = {} /\ UNCHANGED << total, late >>
Leave == total' = Nothing /\ counts' = {} /\ late' = FALSE

Left(S, d, o) == {IF s.callback = Live
                  THEN [s EXCEPT !.callback = [def |-> d, origin |-> o]]
                  ELSE s : s \in S}
Over(S, what) == {IF s.callback = Live THEN [s EXCEPT !.over = @ \cup what] ELSE s : s \in S}
Pending(from) == \E s \in saves : s.from = from /\ s.callback = Live

LoadReport(r, d, o) ==
    /\ def' = d
    /\ reportId' = r
    /\ dirty' = FALSE
    /\ origin' = o

(* The effect on [definition]: the total of the old one is forgotten, what *)
(* is still being counted is not.                                          *)
Overrun == {[c EXCEPT !.over = TRUE] : c \in counts}
Redefined_KeepsTotal == counts' = Overrun /\ UNCHANGED << total, late >>
Redefined == counts' = Overrun /\ total' = Nothing /\ late' = FALSE

(* The router shows another page, the store being as it was.               *)
Go(p, S) ==
    /\ p # page
    /\ page' = p
    /\ saves' = Left(S, def, origin)
    /\ Leave

(* The store is loaded with d, which the mounted page renders, and the     *)
(* router then shows page p.                                               *)
LoadOn(p, r, d, o, S) ==
    /\ LoadReport(r, d, o)
    /\ page' = p
    /\ IF p # page THEN saves' = Left(Over(S, Overtaken), d, o) /\ Leave
       ELSE saves' = Over(S, Overtaken) /\ Redefined

(* One edit of the store, wherever the tab is by then.                     *)
Becomes(d) ==
    /\ def' = d
    /\ dirty' = TRUE
    /\ saves' = Over(saves, {"changed"})
    /\ Redefined
    /\ UNCHANGED << serverVars, page, reportId, opens, origin, blame >>

Edit(d) == page = "builder" /\ User /\ Becomes(d) /\ UNCHANGED fetches

-----------------------------------------------------------------------------
(* The store's edits.                                                      *)
Without_KeepsSorts(d, t) ==
    [d EXCEPT !.tables = @ \ {t}, !.columns = {c \in @ : TableOf[c] # t},
              !.groups = @ \ {t}, !.filters = @ \ {t}]
Without(d, t) ==
    LET kept == {c \in d.columns : TableOf[c] # t} IN
    [d EXCEPT !.tables = @ \ {t}, !.columns = kept, !.sorts = @ \cap kept,
              !.groups = @ \ {t}, !.filters = @ \ {t}]

RemoveTable(t) ==
    /\ t \in def.tables
    /\ \E p \in Tables \cup {NoTable} :
          /\ IF def.primary # t THEN p = def.primary
             ELSE IF def.tables = {t} THEN p = NoTable ELSE p \in def.tables \ {t}
          /\ Edit([Without(def, t) EXCEPT !.primary = p])

With(d, t) == [d EXCEPT !.tables = @ \cup {t},
                        !.primary = IF @ = NoTable THEN t ELSE @]

AddTable(t)     == t \notin def.tables /\ Edit(With(def, t))
SetPrimary(t)   == t \in def.tables /\ Edit([def EXCEPT !.primary = t])
AddColumn(c)    == /\ c \notin def.columns
                   /\ Edit([With(def, TableOf[c]) EXCEPT !.columns = @ \cup {c}])
RemoveColumn(c) == /\ c \in def.columns
                   /\ Edit([def EXCEPT !.columns = @ \ {c}, !.sorts = @ \ {c}])
Deselect(t, gone) ==    \* setFieldsSelected(.., false); a grouping by another field stays
    /\ gone # {}
    /\ \E g \in {def.groups, def.groups \ {t}} :
          Edit([def EXCEPT !.columns = @ \ gone, !.sorts = @ \ gone, !.groups = g])
AddFilter(t)     == t \in def.tables /\ Edit([def EXCEPT !.filters = @ \cup {t}])
RemoveFilter(t)  == t \in def.filters /\ Edit([def EXCEPT !.filters = @ \ {t}])
AddGroupBy(t)    == t \in def.tables \ def.groups /\ Edit([def EXCEPT !.groups = @ \cup {t}])
RemoveGroupBy(t) == t \in def.groups /\ Edit([def EXCEPT !.groups = @ \ {t}])
AddSort(c)       == c \in def.columns /\ Edit([def EXCEPT !.sorts = @ \cup {c}])
UpdateSort(old, c) == /\ old \in def.sorts /\ c \in def.columns
                      /\ Edit([def EXCEPT !.sorts = (@ \ {old}) \cup {c}])
RemoveSort(c)    == c \in def.sorts /\ Edit([def EXCEPT !.sorts = @ \ {c}])
Restyle          == Edit([def EXCEPT !.look = ~@])

EditTable == \E t \in Tables :
    \/ RemoveTable(t)  \/ AddTable(t)   \/ SetPrimary(t)
    \/ \E gone \in SUBSET {c \in def.columns : TableOf[c] = t} : Deselect(t, gone)
    \/ AddFilter(t)    \/ RemoveFilter(t)
    \/ AddGroupBy(t)   \/ RemoveGroupBy(t)
EditColumn == \E c \in Columns :
    \/ AddColumn(c) \/ RemoveColumn(c) \/ AddSort(c) \/ RemoveSort(c)
    \/ \E old \in Columns : UpdateSort(old, c)

(* "+ all" asks for the table's columns and adds them when they arrive, to *)
(* whatever report is open by then; a table already complete is no edit.   *)
unasked == << serverVars, page, storeVars, viewVars, opens, saves, origin, blame >>
AskFields(t) ==
    /\ page = "builder"
    /\ t \notin fetches
    /\ User
    /\ fetches' = fetches \cup {t}
    /\ UNCHANGED unasked

FieldsArrive(t) ==
    LET all == {c \in Columns : TableOf[c] = t} IN
    /\ t \in fetches
    /\ ~ all \subseteq def.columns
    /\ fetches' = fetches \ {t}
    /\ Becomes([With(def, t) EXCEPT !.columns = @ \cup all])
    /\ UNCHANGED acts

FieldsLost(t) ==        \* the request fails, or there is nothing to add
    /\ t \in fetches
    /\ fetches' = fetches \ {t}
    /\ UNCHANGED << unasked, acts >>

-----------------------------------------------------------------------------
(* Counting is asked for explicitly, and may be answered late.             *)
outside == << serverVars, page, storeVars, askedVars, saves, origin, blame >>

Count ==
    /\ page = "builder"
    /\ User
    /\ counts' = counts \cup {[def |-> def, over |-> FALSE]}
    /\ UNCHANGED << outside, total, late >>

Counted(c) ==           \* whatever is open by then
    /\ c \in counts
    /\ counts' = counts \ {c}
    /\ total' \in {c.def, Nothing}
    /\ late' = (total' # Nothing /\ c.over)
    /\ UNCHANGED << outside, acts >>

-----------------------------------------------------------------------------
(* Saving.                                                                 *)
Request(from, keep) ==
    [report |-> reportId, def |-> def, keep |-> keep, from |-> from, at |-> "sent",
     over |-> blame \cap {"reloaded"}, callback |-> Live]

Ask(s) ==
    /\ User
    /\ saves' = saves \cup {s}
    /\ UNCHANGED << serverVars, page, storeVars, viewVars, askedVars, origin, blame >>

Save ==                 \* in place; a report not saved yet goes to the screen
    /\ page = "builder"
    /\ ~Pending("builder")
    /\ reportId # New
    /\ Ask(Request("builder", TRUE))

GoSave ==
    /\ User
    /\ page = "builder"
    /\ ~Pending("builder")
    /\ reportId = New
    /\ Go("screen", saves)
    /\ UNCHANGED << serverVars, storeVars, askedVars, origin, blame >>

SaveAs_KeepsId ==
    /\ User
    /\ page = "builder"
    /\ LoadReport(reportId, def, New)
    /\ Go("screen", saves)
    /\ blame' = {}
    /\ UNCHANGED << serverVars, askedVars >>
SaveAs ==
    /\ User
    /\ page = "builder"
    /\ LoadReport(New, def, New)
    /\ Go("screen", saves)
    /\ blame' = {}
    /\ UNCHANGED << serverVars, askedVars >>

SaveOnScreen(keep) ==
    /\ page = "screen"
    /\ ~Pending("screen")
    /\ def.columns # {}
    /\ Ask(Request("screen", keep))

(* Rename and duplicate, in the list: the saved definition is read and     *)
(* sent back, or sent as a new report.                                     *)
Resend(r, as) ==
    /\ page = "list"
    /\ Exists(r) /\ server[r].listed
    /\ Ask([report |-> as, def |-> server[r].def, keep |-> TRUE, from |-> "list",
            at |-> "sent", over |-> {}, callback |-> Nothing])

(* create_report and update_report.  Requests of the builder and the list  *)
(* carry only name and definition: every other field takes its default.    *)
ForSave_Always(s) == [s.def EXCEPT !.filters = {}, !.sorts = {}]
ForSave(s) == IF s.keep THEN s.def ELSE [s.def EXCEPT !.filters = {}, !.sorts = {}]

Store(s) ==
    /\ s \in saves /\ s.at = "sent"
    /\ \E r \in Reports :
          /\ IF s.report = New THEN ~Exists(r) ELSE r = s.report /\ Exists(r)
          /\ server' = [server EXCEPT ![r] =
                [def |-> ForSave(s), filed |-> s.from = "screen", keep |-> s.keep,
                 listed |-> IF s.report = New THEN TRUE ELSE server[r].listed]]
          /\ held' = [held EXCEPT ![r] = @ \cup {ForSave(s)}]
          /\ saves' = (saves \ {s}) \cup {[s EXCEPT !.at = "stored", !.report = r]}
    /\ UNCHANGED << page, storeVars, viewVars, askedVars, acts, origin, blame >>

(* onSuccess: the store is loaded with the saved report's id and the       *)
(* definition the callback sees; the screen then shows the list.           *)
Why(s) == s.over \cup (IF s.keep THEN {} ELSE {"stripped"})
From(s, o) == IF s.from = "screen" /\ o = New THEN s.report ELSE o

AnsweredHere(s) ==
    /\ s.callback = Live
    /\ LoadReport(s.report, def, From(s, origin))
    /\ IF s.from = "screen" THEN Go("list", saves \ {s})
       ELSE saves' = saves \ {s} /\ UNCHANGED << page, viewVars >>
    /\ blame' = Why(s)

AnsweredElsewhere(s) ==
    /\ s.callback \notin {Live, Nothing}
    /\ LoadOn(IF s.from = "screen" THEN "list" ELSE page, s.report, s.callback.def,
              From(s, s.callback.origin), saves \ {s})
    /\ blame' = Why(s)

AnsweredList(s) ==
    /\ s.callback = Nothing
    /\ saves' = saves \ {s}
    /\ UNCHANGED << page, storeVars, viewVars, origin, blame >>

Answered(s) ==
    /\ s \in saves /\ s.at = "stored"
    /\ AnsweredHere(s) \/ AnsweredElsewhere(s) \/ AnsweredList(s)
    /\ UNCHANGED << serverVars, askedVars, acts >>

SaveFails(s) ==         \* refused, or the answer is lost
    /\ s \in saves
    /\ saves' = saves \ {s}
    /\ UNCHANGED << serverVars, page, storeVars, viewVars, askedVars, acts, origin, blame >>

Delete(r) ==            \* archived, not deleted
    /\ User
    /\ page = "list"
    /\ Exists(r) /\ server[r].listed
    /\ server' = [server EXCEPT ![r].listed = FALSE]
    /\ UNCHANGED << held, page, storeVars, viewVars, askedVars, saves, origin, blame >>

-----------------------------------------------------------------------------
(* Opening.  "list" stands for every page but the builder and the screen.  *)
Open(r) ==
    /\ User
    /\ page = "list"
    /\ Exists(r) /\ server[r].listed
    /\ opens' = opens \cup {[report |-> r, def |-> server[r].def]}
    /\ UNCHANGED << serverVars, page, storeVars, viewVars, fetches, saves, origin, blame >>

Opened(o) ==            \* wherever the tab is by then
    /\ o \in opens
    /\ opens' = opens \ {o}
    /\ LoadOn("builder", o.report, o.def, o.report, saves)
    /\ blame' = {}
    /\ UNCHANGED << serverVars, fetches, acts >>

OpenFails(o) ==
    /\ o \in opens
    /\ opens' = opens \ {o}
    /\ UNCHANGED << serverVars, page, storeVars, viewVars, fetches, saves, acts, origin, blame >>

StartNew(d) ==          \* "New report", or a suggestion opened as a draft
    /\ User
    /\ d = Empty \/ page = "list"
    /\ page # "screen"
    /\ LoadOn("builder", New, d, New, saves)
    /\ blame' = {}
    /\ UNCHANGED << serverVars, askedVars >>

Suggestions == {[With(Empty, t) EXCEPT !.columns = {c \in Columns : TableOf[c] = t}] : t \in Tables}

Navigate(p) ==          \* links of the pages: the screen is reached by Save only
    /\ p # "screen"
    /\ Go(p, saves)
    /\ UNCHANGED << serverVars, storeVars, askedVars, acts, origin, blame >>

-----------------------------------------------------------------------------
Init ==
    /\ server = [r \in Reports |->
          IF r = Stored.report
          THEN [def |-> Stored.def, filed |-> TRUE, keep |-> TRUE, listed |-> TRUE]
          ELSE Nothing]
    /\ page = "list"
    /\ def = Empty /\ reportId = New /\ dirty = FALSE
    /\ total = Nothing /\ late = FALSE
    /\ counts = {} /\ fetches = {} /\ opens = {} /\ saves = {}
    /\ acts = 0
    /\ origin = New
    /\ held = [r \in Reports |-> IF r = Stored.report THEN {Stored.def} ELSE {}]
    /\ blame = {}

EditStep == EditTable \/ EditColumn \/ Restyle

AskStep ==
    \/ Count
    \/ \E c \in counts : Counted(c)
    \/ \E t \in Tables : AskFields(t) \/ FieldsArrive(t) \/ FieldsLost(t)

SaveStep ==
    \/ Save \/ GoSave \/ SaveAs
    \/ \E keep \in BOOLEAN : SaveOnScreen(keep)
    \/ \E r \in Reports : Resend(r, r) \/ Resend(r, New) \/ Delete(r)
    \/ \E s \in saves : Store(s) \/ Answered(s) \/ SaveFails(s)

OpenStep ==
    \/ \E r \in Reports : Open(r)
    \/ \E o \in opens : Opened(o) \/ OpenFails(o)
    \/ \E d \in {Empty} \cup Suggestions : StartNew(d)
    \/ \E p \in {"list", "builder"} : Navigate(p)

Next == EditStep \/ AskStep \/ SaveStep \/ OpenStep

Spec == Init /\ [][Next]_vars

-----------------------------------------------------------------------------
(* toggleTable: "Removing a table must also remove everything that         *)
(* referenced it, otherwise the report silently fails to compile."  No     *)
(* order of edits, late answers and reloads leaves a report, in the tab,   *)
(* on its way or saved, that refers to a table or column it has not got.   *)
RefsIntact ==
    /\ Intact(def)
    /\ \A r \in Reports : Exists(r) => Intact(server[r].def)
    /\ \A s \in saves : Intact(s.def) /\ (s.callback \notin {Live, Nothing} => Intact(s.callback.def))
    /\ \A o \in opens : Intact(o.def)

(* When the editor shows no "Unsaved" badge, what it shows is what the     *)
(* report held at some time, unless it was edited, or another report was   *)
(* loaded, under a pending save, or the save was asked to leave filters    *)
(* and sorting out.                                                        *)
CleanIsSaved ==
    ~dirty /\ reportId # New /\ {"changed", "stripped"} \cap blame = {}
        => def \in held[reportId]

(* The next save goes to the report the open definition came from, unless  *)
(* another definition was loaded under a pending save.                     *)
OpenIsWhatItSays ==
    reportId # New /\ "reloaded" \notin blame => origin = reportId

(* The row count the builder shows is that of the open definition.  Only a *)
(* count that was asked before the definition was replaced, and answered   *)
(* after, makes it another's: no order of edits, late columns, reloads and *)
(* answers of counts and saves does.                                       *)
WrongTotalNeedsLateCount == total \notin {Nothing, def} => late

(* The builder page: "A changed definition means a different result set,   *)
(* so a total computed for the old one would be quietly wrong."            *)
TotalIsCurrent == total \in {Nothing, def}

(* The builder's Save: "A report that already exists saves in place; a new *)
(* one goes to the Save Report screen, where it is filed and its           *)
(* visibility set."  A report that was filed is still filed after it.      *)
SavedInPlace ==
    [][\A s \in saves :
          /\ s.from = "builder" /\ s.at = "sent"
          /\ [s EXCEPT !.at = "stored"] \in saves'
          /\ server[s.report].filed
          => server'[s.report].filed]_vars

=============================================================================
