------------------------- MODULE ReportEditorProofs -------------------------
(* Proofs about ReportEditor, for any tables, columns, reports and number  *)
(* of things the user does.                                                *)
EXTENDS ReportEditor, TLAPS

-----------------------------------------------------------------------------
(* Types.                                                                  *)
LEMMA WithType == ASSUME NEW d \in Definitions, NEW t \in Tables
                  PROVE  With(d, t) \in Definitions
  BY DEF With, Definitions

LEMMA WithoutType == ASSUME NEW d \in Definitions, NEW t \in Tables
                     PROVE  Without(d, t) \in Definitions
  BY DEF Without, Definitions

LEMMA EmptyType == Empty \in Definitions /\ Intact(Empty)
  BY DEF Empty, Definitions, Intact

LEMMA WithIntact == ASSUME NEW d \in Definitions, NEW t \in Tables, Intact(d)
                    PROVE  Intact(With(d, t)) /\ t \in With(d, t).tables
  BY DEF With, Definitions, Intact

LEMMA WithoutIntact ==
  ASSUME NEW d \in Definitions, NEW t \in Tables, Intact(d), t \in d.tables,
         NEW p \in Tables \cup {NoTable},
         IF d.primary # t THEN p = d.primary
         ELSE IF d.tables = {t} THEN p = NoTable ELSE p \in d.tables \ {t}
  PROVE  LET e == [Without(d, t) EXCEPT !.primary = p]
         IN  e \in Definitions /\ Intact(e)
<1> DEFINE w == Without(d, t)
           e == [w EXCEPT !.primary = p]
<1>1. w \in Definitions
  BY WithoutType
<1>2. e \in Definitions
  BY <1>1 DEF Definitions
<1>3. /\ e.primary = p /\ e.tables = d.tables \ {t}
      /\ e.columns = {c \in d.columns : TableOf[c] # t}
      /\ e.sorts = d.sorts \cap e.columns
      /\ e.groups = d.groups \ {t} /\ e.filters = d.filters \ {t}
  BY DEF Without, Definitions
<1>4. Intact(e)
  <2> HIDE DEF e
  <2>1. (p = NoTable /\ e.tables = {}) \/ p \in e.tables
    BY <1>3, ConstantsAssumption DEF Intact
  <2>2. {TableOf[c] : c \in e.columns} \subseteq e.tables
    BY <1>3 DEF Intact
  <2> QED
    BY <1>3, <2>1, <2>2 DEF Intact
<1> QED
  BY <1>2, <1>4

(* Every edit of the store makes another intact definition.                *)
Made(d) == d \in Definitions /\ Intact(d)

LEMMA FieldsMade ==
  ASSUME NEW d \in Definitions, Intact(d), NEW t \in Tables, NEW C \in SUBSET Columns,
         \A c \in C : TableOf[c] = t
  PROVE  Made([With(d, t) EXCEPT !.columns = @ \cup C])
<1> DEFINE w == With(d, t)
<1>1. w \in Definitions /\ Intact(w) /\ t \in w.tables
  BY WithType, WithIntact
<1> HIDE DEF w
<1>2. [w EXCEPT !.columns = @ \cup C] \in Definitions
  BY <1>1 DEF Definitions
<1>3. Intact([w EXCEPT !.columns = @ \cup C])
  BY <1>1 DEF Definitions, Intact
<1> QED
  BY <1>2, <1>3 DEF Made, w

(* Every edit the user can make is Becomes(d) for such a d.                *)
LEMMA EditsMade ==
  ASSUME TypeOK, Intact(def), EditStep
  PROVE  \E d \in Definitions : Intact(d) /\ Edit(d)
<1>d. def \in Definitions
  BY DEF TypeOK
<1>1. ASSUME NEW t \in Tables, RemoveTable(t) PROVE \E d \in Definitions : Intact(d) /\ Edit(d)
  <2>1. PICK q \in Tables \cup {NoTable} :
           /\ IF def.primary # t THEN q = def.primary
              ELSE IF def.tables = {t} THEN q = NoTable ELSE q \in def.tables \ {t}
           /\ Edit([Without(def, t) EXCEPT !.primary = q])
    BY <1>1 DEF RemoveTable
  <2>2. t \in def.tables
    BY <1>1 DEF RemoveTable
  <2> QED
    BY <1>d, <2>1, <2>2, WithoutIntact
<1>2. ASSUME NEW t \in Tables, AddTable(t) PROVE \E d \in Definitions : Intact(d) /\ Edit(d)
  BY <1>d, <1>2, WithType, WithIntact DEF AddTable
<1>3. ASSUME NEW t \in Tables, SetPrimary(t) PROVE \E d \in Definitions : Intact(d) /\ Edit(d)
  <2> DEFINE d == [def EXCEPT !.primary = t]
  <2>1. d \in Definitions /\ Intact(d)
    BY <1>d, <1>3 DEF SetPrimary, Definitions, Intact
  <2> QED
    BY <2>1, <1>3 DEF SetPrimary
<1>4. ASSUME NEW t \in Tables, NEW gone \in SUBSET {c \in def.columns : TableOf[c] = t}, Deselect(t, gone)
      PROVE \E d \in Definitions : Intact(d) /\ Edit(d)
  <2>1. PICK g \in {def.groups, def.groups \ {t}} :
           Edit([def EXCEPT !.columns = @ \ gone, !.sorts = @ \ gone, !.groups = g])
    BY <1>4 DEF Deselect
  <2> DEFINE d == [def EXCEPT !.columns = @ \ gone, !.sorts = @ \ gone, !.groups = g]
  <2>2. d \in Definitions /\ Intact(d)
    BY <1>d DEF Definitions, Intact
  <2> QED
    BY <2>1, <2>2
<1>5. ASSUME NEW t \in Tables, AddFilter(t) \/ RemoveFilter(t) PROVE \E d \in Definitions : Intact(d) /\ Edit(d)
  <2>1. ASSUME NEW f \in SUBSET def.tables
        PROVE  LET d == [def EXCEPT !.filters = f] IN d \in Definitions /\ Intact(d)
    BY <1>d DEF Definitions, Intact
  <2>2. def.filters \subseteq def.tables
    BY DEF Intact
  <2>3. CASE AddFilter(t)
    BY <2>1, <2>2, <2>3 DEF AddFilter
  <2>4. CASE RemoveFilter(t)
    BY <2>1, <2>2, <2>4 DEF RemoveFilter
  <2> QED
    BY <1>5, <2>3, <2>4
<1>6. ASSUME NEW t \in Tables, AddGroupBy(t) \/ RemoveGroupBy(t) PROVE \E d \in Definitions : Intact(d) /\ Edit(d)
  <2>1. ASSUME NEW g \in SUBSET def.tables
        PROVE  LET d == [def EXCEPT !.groups = g] IN d \in Definitions /\ Intact(d)
    BY <1>d DEF Definitions, Intact
  <2>2. def.groups \subseteq def.tables
    BY DEF Intact
  <2>3. CASE AddGroupBy(t)
    BY <2>1, <2>2, <2>3 DEF AddGroupBy
  <2>4. CASE RemoveGroupBy(t)
    BY <2>1, <2>2, <2>4 DEF RemoveGroupBy
  <2> QED
    BY <1>6, <2>3, <2>4
<1>7. ASSUME NEW c \in Columns, AddColumn(c) PROVE \E d \in Definitions : Intact(d) /\ Edit(d)
  <2>1. TableOf[c] \in Tables
    BY ConstantsAssumption
  <2>2. Made([With(def, TableOf[c]) EXCEPT !.columns = @ \cup {c}])
    BY <1>d, <2>1, FieldsMade
  <2> QED
    BY <1>7, <2>2 DEF AddColumn, Made
<1>8. ASSUME NEW c \in Columns, RemoveColumn(c) PROVE \E d \in Definitions : Intact(d) /\ Edit(d)
  <2> DEFINE d == [def EXCEPT !.columns = @ \ {c}, !.sorts = @ \ {c}]
  <2>1. d \in Definitions /\ Intact(d)
    BY <1>d DEF Definitions, Intact
  <2> QED
    BY <2>1, <1>8 DEF RemoveColumn
<1>9. ASSUME NEW c \in Columns, AddSort(c) \/ RemoveSort(c) PROVE \E d \in Definitions : Intact(d) /\ Edit(d)
  <2>1. ASSUME NEW o \in SUBSET def.columns
        PROVE  LET d == [def EXCEPT !.sorts = o] IN d \in Definitions /\ Intact(d)
    BY <1>d DEF Definitions, Intact
  <2>2. def.sorts \subseteq def.columns
    BY DEF Intact
  <2>3. CASE AddSort(c)
    BY <2>1, <2>2, <2>3 DEF AddSort
  <2>4. CASE RemoveSort(c)
    BY <2>1, <2>2, <2>4 DEF RemoveSort
  <2> QED
    BY <1>9, <2>3, <2>4
<1>10. ASSUME NEW old \in Columns, NEW c \in Columns, UpdateSort(old, c)
       PROVE \E d \in Definitions : Intact(d) /\ Edit(d)
  <2> DEFINE d == [def EXCEPT !.sorts = (@ \ {old}) \cup {c}]
  <2>1. d \in Definitions /\ Intact(d)
    BY <1>d, <1>10 DEF UpdateSort, Definitions, Intact
  <2> QED
    BY <2>1, <1>10 DEF UpdateSort
<1>11. ASSUME Restyle PROVE \E d \in Definitions : Intact(d) /\ Edit(d)
  <2> DEFINE d == [def EXCEPT !.look = ~@]
  <2>1. d \in Definitions
    BY <1>d DEF Definitions
  <2>2. Intact(d)
    BY <1>d DEF Definitions, Intact
  <2> QED
    BY <2>1, <2>2, <1>11 DEF Restyle
<1> QED
  BY <1>1, <1>2, <1>3, <1>4, <1>5, <1>6, <1>7, <1>8, <1>9, <1>10, <1>11
  DEF EditStep, EditTable, EditColumn

-----------------------------------------------------------------------------
(* Saves under way.                                                        *)
LEMMA LeftType ==
  ASSUME NEW S \in SUBSET Saves, NEW d \in Definitions, NEW o \in Reports \cup {New}
  PROVE  Left(S, d, o) \subseteq Saves
  BY DEF Left, Saves, Frozen

LEMMA OverType ==
  ASSUME NEW S \in SUBSET Saves, NEW what \in SUBSET Overtaken
  PROVE  Over(S, what) \subseteq Saves
  BY DEF Over, Saves

LEMMA RequestType ==
  ASSUME TypeOK, NEW from \in {"builder", "screen", "list"}, NEW keep \in BOOLEAN
  PROVE  Request(from, keep) \in Saves
  BY DEF Request, Saves, TypeOK, Overtaken

LEMMA ForSaveMade ==
  ASSUME NEW s \in Saves
  PROVE  /\ ForSave(s) \in Definitions
         /\ Intact(s.def) => Intact(ForSave(s))
         /\ s.keep => ForSave(s) = s.def
  BY DEF ForSave, Saves, Definitions, Intact

(* What RefsIntact says of the saves under way.                            *)
Whole(S) == \A s \in S : /\ Intact(s.def)
                         /\ s.callback \notin {Live, Nothing} => Intact(s.callback.def)

LEMMA LeftWhole ==
  ASSUME NEW S \in SUBSET Saves, Whole(S), NEW d \in Definitions, Intact(d), NEW o \in Reports \cup {New}
  PROVE  Whole(Left(S, d, o))
<1> SUFFICES ASSUME NEW s \in S
             PROVE  LET e == IF s.callback = Live
                             THEN [s EXCEPT !.callback = [def |-> d, origin |-> o]] ELSE s
                    IN  /\ Intact(e.def)
                        /\ e.callback \notin {Live, Nothing} => Intact(e.callback.def)
  BY DEF Whole, Left
<1> QED
  BY DEF Whole, Saves

LEMMA OverWhole ==
  ASSUME NEW S \in SUBSET Saves, Whole(S), NEW what \in SUBSET Overtaken
  PROVE  Whole(Over(S, what))
<1> SUFFICES ASSUME NEW s \in S
             PROVE  LET e == IF s.callback = Live THEN [s EXCEPT !.over = @ \cup what] ELSE s
                    IN  /\ Intact(e.def)
                        /\ e.callback \notin {Live, Nothing} => Intact(e.callback.def)
  BY DEF Whole, Over
<1> QED
  BY DEF Whole, Saves

LEMMA OverrunType == TypeOK => Overrun \subseteq Counts
  BY DEF TypeOK, Overrun, Counts

(* The store loaded with an intact definition, by any route.               *)
LEMMA GoSafe ==
  ASSUME TypeOK, RefsIntact, NEW S \in SUBSET saves,
         NEW q \in {"list", "builder", "screen"}, Go(q, S)
  PROVE  /\ page' \in {"list", "builder", "screen"}
         /\ saves' \subseteq Saves /\ Whole(saves')
         /\ total' = Nothing /\ counts' = {} /\ late' \in BOOLEAN
<1>1. S \subseteq Saves /\ Whole(S) /\ def \in Definitions /\ Intact(def) /\ origin \in Reports \cup {New}
  BY DEF TypeOK, RefsIntact, Whole
<1>2. saves' = Left(S, def, origin) /\ page' = q /\ total' = Nothing /\ counts' = {} /\ late' = FALSE
  BY DEF Go, Leave
<1> QED
  BY <1>1, <1>2, LeftType, LeftWhole

LEMMA LoadSafe ==
  ASSUME TypeOK, RefsIntact, NEW S \in SUBSET saves,
         NEW q \in {"list", "builder", "screen"}, NEW r \in Reports \cup {New},
         NEW d \in Definitions, Intact(d), NEW o \in Reports \cup {New},
         LoadOn(q, r, d, o, S)
  PROVE  /\ page' \in {"list", "builder", "screen"}
         /\ def' \in Definitions /\ Intact(def')
         /\ reportId' \in Reports \cup {New} /\ dirty' \in BOOLEAN
         /\ origin' \in Reports \cup {New}
         /\ saves' \subseteq Saves /\ Whole(saves')
         /\ total' = Nothing /\ counts' \subseteq Counts /\ late' \in BOOLEAN
         /\ page' # "builder" => counts' = {}
<1>1. /\ def' = d /\ reportId' = r /\ dirty' = FALSE /\ origin' = o /\ page' = q
      /\ IF q # page THEN saves' = Left(Over(S, Overtaken), d, o) /\ counts' = {}
         ELSE saves' = Over(S, Overtaken) /\ counts' = Overrun
      /\ total' = Nothing /\ late' = FALSE
  BY DEF LoadOn, LoadReport, Leave, Redefined
<1>2. S \subseteq Saves /\ Whole(S) /\ Overrun \subseteq Counts
  BY OverrunType DEF TypeOK, RefsIntact, Whole
<1>3. Over(S, Overtaken) \subseteq Saves /\ Whole(Over(S, Overtaken))
  BY <1>2, OverType, OverWhole
<1>4. Left(Over(S, Overtaken), d, o) \subseteq Saves /\ Whole(Left(Over(S, Overtaken), d, o))
  BY <1>3, LeftType, LeftWhole
<1>5. page # "builder" => Overrun = {}
  BY DEF TypeOK, Overrun
<1> QED
  BY <1>1, <1>2, <1>3, <1>4, <1>5

-----------------------------------------------------------------------------
(* Types and references.                                                   *)
Base == TypeOK /\ RefsIntact

LEMMA BaseInit == Init => Base
<1> SUFFICES ASSUME Init PROVE Base
  OBVIOUS
<1>1. Stored.def \in Definitions /\ Intact(Stored.def) /\ Stored.report \in Reports
  BY StoredAssumption, ConstantsAssumption
<1>2. server \in [Reports -> Rows \cup {Nothing}]
  BY <1>1 DEF Init, Rows
<1>3. held \in [Reports -> SUBSET Definitions]
  BY <1>1 DEF Init
<1>4. TypeOK
  <2>1. /\ page = "list" /\ def = Empty /\ reportId = New /\ dirty = FALSE
        /\ total = Nothing /\ late = FALSE /\ counts = {} /\ fetches = {} /\ opens = {} /\ saves = {}
        /\ acts = 0 /\ origin = New /\ blame = {}
    BY DEF Init
  <2>2. acts \in 0 .. MaxActs
    BY <2>1, ConstantsAssumption
  <2> QED
    BY <1>2, <1>3, <2>1, <2>2, EmptyType DEF TypeOK
<1>5. \A r \in Reports : Exists(r) => Intact(server[r].def)
  BY <1>1 DEF Init, Exists
<1>6. RefsIntact
  BY <1>5, EmptyType DEF Init, RefsIntact
<1> QED
  BY <1>4, <1>6 DEF Base

(* An edit, at the page or by a late answer.                               *)
LEMMA BecomesBase ==
  ASSUME Base, NEW d \in Definitions, Intact(d), Becomes(d),
         acts' \in 0 .. MaxActs, fetches' \subseteq Tables
  PROVE  Base'
<1>1. /\ def' = d /\ dirty' = TRUE
      /\ total' = Nothing /\ late' = FALSE /\ counts' = Overrun
      /\ saves' = Over(saves, {"changed"})
      /\ UNCHANGED << server, held, page, reportId, opens, origin, blame >>
  BY DEF Becomes, Redefined, serverVars
<1>a. Overrun \subseteq Counts /\ (page # "builder" => Overrun = {})
  BY OverrunType DEF Base, TypeOK, Overrun
<1>2. saves \subseteq Saves /\ Whole(saves)
  BY DEF Base, TypeOK, RefsIntact, Whole
<1>3. saves' \subseteq Saves /\ Whole(saves')
  BY <1>1, <1>2, OverType, OverWhole DEF Overtaken
<1>4. TypeOK'
  BY <1>1, <1>a, <1>3 DEF Base, TypeOK
<1>5. RefsIntact'
  BY <1>1, <1>3 DEF Base, RefsIntact, Whole, Exists
<1> QED
  BY <1>4, <1>5 DEF Base

LEMMA UserActs == ASSUME TypeOK, User PROVE acts' \in 0 .. MaxActs
  BY ConstantsAssumption DEF User, TypeOK

LEMMA EditBase == ASSUME Base, EditStep PROVE Base'
<1>1. PICK d \in Definitions : Intact(d) /\ Edit(d)
  BY EditsMade DEF Base, RefsIntact
<1>2. acts' \in 0 .. MaxActs /\ fetches' \subseteq Tables /\ Becomes(d)
  BY <1>1, UserActs DEF Edit, Base, TypeOK
<1> QED
  BY <1>1, <1>2, BecomesBase

LEMMA AskBase == ASSUME Base, AskStep PROVE Base'
<1> USE DEF Base
<1>1. CASE Count
  <2>1. acts' \in 0 .. MaxActs
    BY <1>1, UserActs DEF Count
  <2>a. [def |-> def, over |-> FALSE] \in Counts
    BY DEF TypeOK, Counts
  <2>b. counts' = counts \cup {[def |-> def, over |-> FALSE]}
    BY <1>1 DEF Count
  <2>2. TypeOK'
    BY <1>1, <2>1, <2>a, <2>b DEF Count, TypeOK, outside, serverVars, storeVars, askedVars
  <2> QED
    BY <1>1, <2>2 DEF Count, RefsIntact, Exists, outside, serverVars, storeVars, askedVars
<1>2. ASSUME NEW c \in counts, Counted(c) PROVE Base'
  <2>a. c.def \in Definitions /\ late' \in BOOLEAN
    BY <1>2 DEF Counted, Counts, TypeOK
  <2>1. TypeOK'
    BY <1>2, <2>a DEF Counted, TypeOK, outside, serverVars, storeVars, askedVars
  <2> QED
    BY <1>2, <2>1 DEF Counted, RefsIntact, Exists, outside, serverVars, storeVars, askedVars
<1>3. ASSUME NEW t \in Tables, AskFields(t) PROVE Base'
  <2>1. acts' \in 0 .. MaxActs
    BY <1>3, UserActs DEF AskFields
  <2>2. TypeOK'
    BY <1>3, <2>1 DEF AskFields, TypeOK, unasked, serverVars, storeVars, viewVars
  <2> QED
    BY <1>3, <2>2 DEF AskFields, RefsIntact, Exists, unasked, serverVars, storeVars, viewVars
<1>4. ASSUME NEW t \in Tables, FieldsArrive(t) PROVE Base'
  <2> DEFINE all == {c \in Columns : TableOf[c] = t}
  <2>1. Made([With(def, t) EXCEPT !.columns = @ \cup all])
    BY FieldsMade DEF TypeOK, RefsIntact
  <2>2. acts' \in 0 .. MaxActs /\ fetches' \subseteq Tables
    BY <1>4 DEF FieldsArrive, TypeOK
  <2> QED
    BY <1>4, <2>1, <2>2, BecomesBase DEF FieldsArrive, Made
<1>5. ASSUME NEW t \in Tables, FieldsLost(t) PROVE Base'
  <2>1. TypeOK'
    BY <1>5 DEF FieldsLost, TypeOK, unasked, serverVars, storeVars, viewVars
  <2> QED
    BY <1>5, <2>1 DEF FieldsLost, RefsIntact, Exists, unasked, serverVars, storeVars, viewVars
<1> QED
  BY <1>1, <1>2, <1>3, <1>4, <1>5 DEF AskStep

LEMMA AskSaveBase ==
  ASSUME Base, NEW s \in Saves, Intact(s.def), s.callback \in {Live, Nothing}, Ask(s)
  PROVE  Base'
<1>1. acts' \in 0 .. MaxActs
  BY UserActs DEF Ask, Base
<1>2. TypeOK'
  BY <1>1 DEF Ask, Base, TypeOK, serverVars, storeVars, viewVars, askedVars
<1>3. RefsIntact'
  BY DEF Ask, Base, RefsIntact, Exists, serverVars, storeVars, viewVars, askedVars
<1> QED
  BY <1>2, <1>3 DEF Base

(* A route's write, and its answer.                                        *)
LEMMA StoreBase == ASSUME Base, NEW s \in saves, Store(s) PROVE Base'
<1> USE DEF Base
<1>1. s \in Saves /\ Intact(s.def) /\ server \in [Reports -> Rows \cup {Nothing}]
      /\ held \in [Reports -> SUBSET Definitions]
  BY DEF TypeOK, RefsIntact
<1>2. PICK r \in Reports :
        /\ IF s.report = New THEN ~Exists(r) ELSE r = s.report /\ Exists(r)
        /\ server' = [server EXCEPT ![r] =
              [def |-> ForSave(s), filed |-> s.from = "screen", keep |-> s.keep,
               listed |-> IF s.report = New THEN TRUE ELSE server[r].listed]]
        /\ held' = [held EXCEPT ![r] = @ \cup {ForSave(s)}]
        /\ saves' = (saves \ {s}) \cup {[s EXCEPT !.at = "stored", !.report = r]}
  BY DEF Store
<1> DEFINE e == [s EXCEPT !.at = "stored", !.report = r]
<1>3. e \in Saves /\ e.def = s.def /\ e.callback = s.callback
  BY <1>1 DEF Saves
<1>4. ForSave(s) \in Definitions /\ Intact(ForSave(s))
  BY <1>1, ForSaveMade
<1>5. held' \in [Reports -> SUBSET Definitions]
  BY <1>1, <1>2, <1>4
<1> DEFINE old == IF s.report = New THEN TRUE ELSE server[r].listed
           row == [def |-> ForSave(s), filed |-> s.from = "screen", keep |-> s.keep, listed |-> old]
<1>6. row \in Rows
  <2>1. s.keep \in BOOLEAN
    BY <1>1 DEF Saves
  <2>2. old \in BOOLEAN
    <3>1. CASE s.report = New
      BY <3>1
    <3>2. CASE s.report # New
      <4>1. server[r] \in Rows
        BY <1>1, <1>2, <3>2 DEF Exists
      <4> QED
        BY <3>2, <4>1 DEF Rows
    <3> QED
      BY <3>1, <3>2
  <2> HIDE DEF old
  <2> QED
    BY <1>4, <2>1, <2>2 DEF Rows
<1>7. server' \in [Reports -> Rows \cup {Nothing}]
      /\ \A q \in Reports : server'[q] = IF q = r THEN row ELSE server[q]
  <2>1. server' = [server EXCEPT ![r] = row]
    BY <1>2
  <2> HIDE DEF row
  <2> QED
    BY <1>1, <1>6, <2>1
<1>8. /\ saves' = (saves \ {s}) \cup {e}
      /\ UNCHANGED << page, def, reportId, dirty, total, counts, late, fetches, opens, acts,
                      origin, blame >>
  BY <1>2 DEF Store, storeVars, viewVars, askedVars
<1>9. row.def = ForSave(s)
  OBVIOUS
<1> HIDE DEF row, e
<1>10. TypeOK'
  BY <1>3, <1>5, <1>7, <1>8 DEF TypeOK
<1>11. RefsIntact'
  <2>1. \A q \in Reports : Exists(q)' => Intact(server'[q].def)
    BY <1>4, <1>7, <1>9 DEF RefsIntact, Exists
  <2> QED
    BY <1>1, <1>3, <1>8, <2>1 DEF RefsIntact
<1> QED
  BY <1>10, <1>11

LEMMA AnsweredBase == ASSUME Base, NEW s \in saves, Answered(s) PROVE Base'
<1> USE DEF Base
<1>1. /\ s \in Saves /\ saves \ {s} \subseteq Saves /\ Whole(saves \ {s}) /\ Whole(saves)
      /\ s.report \in Reports \cup {New} /\ Why(s) \subseteq Causes
      /\ From(s, origin) \in Reports \cup {New}
  BY DEF TypeOK, RefsIntact, Whole, Saves, Why, From, Causes
<1>2. UNCHANGED << server, held, fetches, opens, acts >>
  BY DEF Answered, serverVars, askedVars
<1>3. CASE AnsweredHere(s)
  <2>1. /\ def' = def /\ reportId' = s.report /\ dirty' = FALSE /\ origin' = From(s, origin)
        /\ blame' = Why(s)
    BY <1>3 DEF AnsweredHere, LoadReport
  <2>2. /\ page' \in {"list", "builder", "screen"}
        /\ saves' \subseteq Saves /\ Whole(saves')
        /\ total' \in Definitions \cup {Nothing} /\ counts' \subseteq Counts /\ late' \in BOOLEAN
        /\ page' # "builder" => total' = Nothing /\ counts' = {}
    <3>1. CASE s.from = "screen"
      <4>1. Go("list", saves \ {s})
        BY <1>3, <3>1 DEF AnsweredHere
      <4> QED
        BY <4>1, GoSafe
    <3>2. CASE s.from # "screen"
      BY <1>1, <1>3, <3>2 DEF AnsweredHere, viewVars, TypeOK
    <3> QED
      BY <3>1, <3>2
  <2>3. TypeOK'
    BY <1>1, <1>2, <2>1, <2>2 DEF TypeOK
  <2>4. RefsIntact'
    BY <1>2, <2>1, <2>2 DEF RefsIntact, Whole, Exists
  <2> QED
    BY <2>3, <2>4
<1>4. CASE AnsweredElsewhere(s)
  <2> DEFINE q == IF s.from = "screen" THEN "list" ELSE page
             d == s.callback.def
             o == From(s, s.callback.origin)
  <2>1. s.callback \in Frozen /\ s.callback \notin {Live, Nothing}
    BY <1>1, <1>4 DEF AnsweredElsewhere, Saves
  <2>2. d \in Definitions /\ Intact(d) /\ o \in Reports \cup {New}
        /\ q \in {"list", "builder", "screen"}
    BY <1>1, <2>1 DEF Frozen, From, RefsIntact, TypeOK
  <2>3. LoadOn(q, s.report, d, o, saves \ {s}) /\ blame' = Why(s)
    BY <1>4 DEF AnsweredElsewhere
  <2> HIDE DEF q, d, o
  <2>4. /\ page' \in {"list", "builder", "screen"}
        /\ def' \in Definitions /\ Intact(def')
        /\ reportId' \in Reports \cup {New} /\ dirty' \in BOOLEAN
        /\ origin' \in Reports \cup {New}
        /\ saves' \subseteq Saves /\ Whole(saves')
        /\ total' = Nothing /\ counts' \subseteq Counts /\ late' \in BOOLEAN
        /\ page' # "builder" => counts' = {}
    BY <1>1, <2>2, <2>3, LoadSafe
  <2>5. TypeOK'
    BY <1>1, <1>2, <2>3, <2>4 DEF TypeOK
  <2>6. RefsIntact'
    BY <1>2, <2>4 DEF RefsIntact, Whole, Exists
  <2> QED
    BY <2>5, <2>6
<1>5. CASE AnsweredList(s)
  <2>1. TypeOK'
    BY <1>2, <1>5 DEF AnsweredList, TypeOK, storeVars, viewVars
  <2>2. RefsIntact'
    BY <1>2, <1>5 DEF AnsweredList, RefsIntact, Exists, storeVars, viewVars
  <2> QED
    BY <2>1, <2>2
<1> QED
  BY <1>3, <1>4, <1>5 DEF Answered

LEMMA SaveBase == ASSUME Base, SaveStep PROVE Base'
<1> USE DEF Base
<1>1. ASSUME NEW from \in {"builder", "screen"}, NEW keep \in BOOLEAN, Ask(Request(from, keep))
      PROVE  Base'
  <2>1. Request(from, keep) \in Saves
    BY RequestType
  <2>2. Request(from, keep).def = def /\ Request(from, keep).callback = Live /\ Intact(def)
    BY DEF Request, RefsIntact
  <2> QED
    BY <1>1, <2>1, <2>2, AskSaveBase
<1>2. CASE Save
  BY <1>1, <1>2 DEF Save
<1>3. ASSUME NEW keep \in BOOLEAN, SaveOnScreen(keep) PROVE Base'
  BY <1>1, <1>3 DEF SaveOnScreen
<1>4. CASE GoSave
  <2>1. Go("screen", saves) /\ User
    BY <1>4 DEF GoSave
  <2>2. /\ page' \in {"list", "builder", "screen"}
        /\ saves' \subseteq Saves /\ Whole(saves')
        /\ total' = Nothing /\ counts' = {} /\ late' \in BOOLEAN
    BY <2>1, GoSafe
  <2>3. acts' \in 0 .. MaxActs
    BY <2>1, UserActs
  <2>4. UNCHANGED << server, held, def, reportId, dirty, fetches, opens, origin, blame >>
    BY <1>4 DEF GoSave, serverVars, storeVars, askedVars
  <2>5. TypeOK'
    BY <2>2, <2>3, <2>4 DEF TypeOK
  <2>6. RefsIntact'
    BY <2>2, <2>4 DEF RefsIntact, Whole, Exists
  <2> QED
    BY <2>5, <2>6
<1>5. CASE SaveAs
  <2>1. Go("screen", saves) /\ User /\ LoadReport(New, def, New) /\ blame' = {}
    BY <1>5 DEF SaveAs
  <2>2. /\ page' \in {"list", "builder", "screen"}
        /\ saves' \subseteq Saves /\ Whole(saves')
        /\ total' = Nothing /\ counts' = {} /\ late' \in BOOLEAN
    BY <2>1, GoSafe
  <2>3. acts' \in 0 .. MaxActs
    BY <2>1, UserActs
  <2>4. UNCHANGED << server, held, def, fetches, opens >> /\ reportId' = New /\ origin' = New /\ dirty' = FALSE
    BY <1>5, <2>1 DEF SaveAs, LoadReport, serverVars, askedVars
  <2>5. TypeOK'
    BY <2>1, <2>2, <2>3, <2>4 DEF TypeOK
  <2>6. RefsIntact'
    BY <2>2, <2>4 DEF RefsIntact, Whole, Exists
  <2> QED
    BY <2>5, <2>6
<1>6. ASSUME NEW r \in Reports, Resend(r, r) \/ Resend(r, New) PROVE Base'
  <2>1. PICK as \in {r, New} : Resend(r, as)
    BY <1>6
  <2> DEFINE s == [report |-> as, def |-> server[r].def, keep |-> TRUE, from |-> "list",
                   at |-> "sent", over |-> {}, callback |-> Nothing]
  <2>2. server[r] \in Rows /\ Intact(server[r].def)
    BY <2>1 DEF Resend, Exists, TypeOK, RefsIntact
  <2>3. s \in Saves
    BY <2>2 DEF Saves, Rows
  <2>4. s.def = server[r].def /\ s.callback = Nothing /\ Ask(s)
    BY <2>1 DEF Resend
  <2> HIDE DEF s
  <2> QED
    BY <2>2, <2>3, <2>4, AskSaveBase
<1>7. ASSUME NEW r \in Reports, Delete(r) PROVE Base'
  <2>1. server[r] \in Rows /\ server \in [Reports -> Rows \cup {Nothing}]
    BY <1>7 DEF Delete, Exists, TypeOK
  <2> DEFINE row == [server[r] EXCEPT !.listed = FALSE]
  <2>2. row \in Rows /\ row.def = server[r].def
    BY <2>1 DEF Rows
  <2>3. server' = [server EXCEPT ![r] = row]
    BY <1>7 DEF Delete
  <2> HIDE DEF row
  <2>4. server' \in [Reports -> Rows \cup {Nothing}]
        /\ \A q \in Reports : server'[q] = IF q = r THEN row ELSE server[q]
    BY <2>1, <2>2, <2>3
  <2>5. acts' \in 0 .. MaxActs
    BY <1>7, UserActs DEF Delete
  <2>6. TypeOK'
    BY <1>7, <2>4, <2>5 DEF Delete, TypeOK, storeVars, viewVars, askedVars
  <2>7. RefsIntact'
    BY <1>7, <2>2, <2>4 DEF Delete, RefsIntact, Exists, storeVars, viewVars, askedVars
  <2> QED
    BY <2>6, <2>7
<1>8. ASSUME NEW s \in saves, SaveFails(s) PROVE Base'
  <2>1. TypeOK'
    BY <1>8 DEF SaveFails, TypeOK, serverVars, storeVars, viewVars, askedVars
  <2>2. RefsIntact'
    BY <1>8 DEF SaveFails, RefsIntact, Exists, serverVars, storeVars, viewVars, askedVars
  <2> QED
    BY <2>1, <2>2
<1> QED
  BY <1>2, <1>3, <1>4, <1>5, <1>6, <1>7, <1>8, StoreBase, AnsweredBase DEF SaveStep

LEMMA OpenBase == ASSUME Base, OpenStep PROVE Base'
<1> USE DEF Base
<1>1. ASSUME NEW r \in Reports, Open(r) PROVE Base'
  <2>1. server[r] \in Rows /\ Intact(server[r].def)
    BY <1>1 DEF Open, Exists, TypeOK, RefsIntact
  <2> DEFINE o == [report |-> r, def |-> server[r].def]
  <2>2. o \in [report : Reports, def : Definitions] /\ Intact(o.def)
    BY <2>1 DEF Rows
  <2>3. opens' = opens \cup {o}
    BY <1>1 DEF Open
  <2> HIDE DEF o
  <2>4. acts' \in 0 .. MaxActs
    BY <1>1, UserActs DEF Open
  <2>5. TypeOK'
    BY <1>1, <2>2, <2>3, <2>4 DEF Open, TypeOK, serverVars, storeVars, viewVars
  <2>6. RefsIntact'
    BY <1>1, <2>2, <2>3 DEF Open, RefsIntact, Exists, serverVars, storeVars, viewVars
  <2> QED
    BY <2>5, <2>6
<1>2. ASSUME NEW r \in Reports \cup {New}, NEW d \in Definitions, Intact(d),
             LoadOn("builder", r, d, r, saves), blame' = {},
             acts' \in 0 .. MaxActs, opens' \subseteq opens,
             UNCHANGED << server, held, fetches >>
      PROVE  Base'
  <2>1. /\ page' \in {"list", "builder", "screen"}
        /\ def' \in Definitions /\ Intact(def')
        /\ reportId' \in Reports \cup {New} /\ dirty' \in BOOLEAN
        /\ origin' \in Reports \cup {New}
        /\ saves' \subseteq Saves /\ Whole(saves')
        /\ total' = Nothing /\ counts' \subseteq Counts /\ late' \in BOOLEAN
        /\ page' # "builder" => counts' = {}
    BY <1>2, LoadSafe
  <2>2. TypeOK'
    BY <1>2, <2>1 DEF TypeOK
  <2>3. RefsIntact'
    BY <1>2, <2>1 DEF RefsIntact, Whole, Exists
  <2> QED
    BY <2>2, <2>3
<1>3. ASSUME NEW o \in opens, Opened(o) PROVE Base'
  <2>1. o.report \in Reports /\ o.def \in Definitions /\ Intact(o.def)
    BY DEF TypeOK, RefsIntact
  <2>2. acts' \in 0 .. MaxActs
    BY <1>3 DEF Opened, TypeOK
  <2> QED
    BY <1>2, <1>3, <2>1, <2>2 DEF Opened, serverVars
<1>4. ASSUME NEW o \in opens, OpenFails(o) PROVE Base'
  <2>1. TypeOK'
    BY <1>4 DEF OpenFails, TypeOK, serverVars, storeVars, viewVars
  <2>2. RefsIntact'
    BY <1>4 DEF OpenFails, RefsIntact, Exists, serverVars, storeVars, viewVars
  <2> QED
    BY <2>1, <2>2
<1>5. ASSUME NEW d \in {Empty} \cup Suggestions, StartNew(d) PROVE Base'
  <2>1. ASSUME NEW t \in Tables
        PROVE  Made([With(Empty, t) EXCEPT !.columns = {c \in Columns : TableOf[c] = t}])
    <3> DEFINE all == {c \in Columns : TableOf[c] = t}
    <3>1. Made([With(Empty, t) EXCEPT !.columns = @ \cup all])
      BY EmptyType, FieldsMade
    <3>2. With(Empty, t).columns = {}
      BY DEF With, Empty
    <3> QED
      BY <3>1, <3>2
  <2>2. d \in Definitions /\ Intact(d)
    BY <2>1, EmptyType DEF Suggestions, Made
  <2>3. acts' \in 0 .. MaxActs
    BY <1>5, UserActs DEF StartNew
  <2> QED
    BY <1>2, <1>5, <2>2, <2>3 DEF StartNew, serverVars, askedVars
<1>6. ASSUME NEW q \in {"list", "builder"}, Navigate(q) PROVE Base'
  <2>1. Go(q, saves)
    BY <1>6 DEF Navigate
  <2>2. /\ page' \in {"list", "builder", "screen"}
        /\ saves' \subseteq Saves /\ Whole(saves')
        /\ total' = Nothing /\ counts' = {} /\ late' \in BOOLEAN
    BY <2>1, GoSafe
  <2>3. UNCHANGED << server, held, def, reportId, dirty, fetches, opens, acts, origin, blame >>
    BY <1>6 DEF Navigate, serverVars, storeVars, askedVars
  <2>4. TypeOK'
    BY <2>2, <2>3 DEF TypeOK
  <2>5. RefsIntact'
    BY <2>2, <2>3 DEF RefsIntact, Whole, Exists
  <2> QED
    BY <2>4, <2>5
<1> QED
  BY <1>1, <1>3, <1>4, <1>5, <1>6 DEF OpenStep

LEMMA BaseStep == Base /\ [Next]_vars => Base'
<1> SUFFICES ASSUME Base, [Next]_vars PROVE Base'
  OBVIOUS
<1>1. CASE UNCHANGED vars
  <2>1. TypeOK'
    BY <1>1 DEF Base, TypeOK, vars, serverVars, storeVars, viewVars, askedVars
  <2>2. RefsIntact'
    BY <1>1 DEF Base, RefsIntact, Exists, vars, serverVars, storeVars, viewVars, askedVars
  <2> QED
    BY <2>1, <2>2 DEF Base
<1> QED
  BY <1>1, EditBase, AskBase, SaveBase, OpenBase DEF Next

(* Every variable of the editor keeps its type, and the page shows or      *)
(* waits for a total only while the builder is mounted.                    *)
THEOREM TypeCorrect == Spec => []TypeOK
<1>1. Base => TypeOK
  BY DEF Base
<1> QED
  BY <1>1, BaseInit, BaseStep, PTL DEF Spec

(* No order of edits, saves, late answers and reloads makes a report that  *)
(* refers to a table or a column it has not got, in the tab, on its way or *)
(* stored.                                                                 *)
THEOREM NothingDangles == Spec => []RefsIntact
<1>1. Base => RefsIntact
  BY DEF Base
<1> QED
  BY <1>1, BaseInit, BaseStep, PTL DEF Spec

-----------------------------------------------------------------------------
(* What a save is about.                                                   *)
Sees(s, d) == IF s.callback = Live THEN d ELSE s.callback.def
Came(s, o) == IF s.callback = Live THEN o ELSE s.callback.origin

(* What a save's callback will load is what the save sent, for the report  *)
(* it came from, unless the store was changed or reloaded under it.        *)
Sound(s, d, o) ==
    /\ s.from = "builder" => s.report \in Reports
    /\ s.from = "list" => s.callback = Nothing
    /\ s.callback # Nothing =>
          /\ "changed" \notin s.over => Sees(s, d) = s.def
          /\ "reloaded" \notin s.over =>
                Came(s, o) = s.report \/ (s.from = "screen" /\ Came(s, o) = New)

AllSound(S, d, o) == \A s \in S : Sound(s, d, o)

(* What is stored, read or written is part of the report's history.        *)
Written(S, h) == \A s \in S : s.at = "stored" => s.report \in Reports /\ ForSave(s) \in h[s.report]
Recorded ==
    /\ \A r \in Reports : Exists(r) => server[r].def \in held[r]
    /\ \A o \in opens : o.def \in held[o.report]
    /\ Written(saves, held)

(* One save at a time of the mounted page.                                 *)
Mounted(S, p) == \A s \in S : s.callback = Live =>
                    s.from = p /\ \A z \in S : z.callback = Live => z = s

History ==
    /\ Recorded
    /\ AllSound(saves, def, origin)
    /\ Mounted(saves, page)
    /\ reportId = New => origin = New
    /\ CleanIsSaved /\ OpenIsWhatItSays

(* A set of saves that the whole of History speaks of.                     *)
Accounted(S, h, d, o, p) == Written(S, h) /\ AllSound(S, d, o) /\ Mounted(S, p)

LEMMA OverAccounted ==
  ASSUME NEW S \in SUBSET Saves, NEW what \in SUBSET Overtaken, NEW h, NEW p,
         NEW d, NEW o, NEW d2, NEW o2, Accounted(S, h, d, o, p),
         "changed" \in what, o2 = o \/ "reloaded" \in what
  PROVE  Accounted(Over(S, what), h, d2, o2, p)
<1> DEFINE f(s) == IF s.callback = Live THEN [s EXCEPT !.over = @ \cup what] ELSE s
<1>1. Over(S, what) = {f(s) : s \in S}
  BY DEF Over
<1>2. ASSUME NEW s \in S
      PROVE  /\ f(s).callback = s.callback /\ f(s).from = s.from /\ f(s).at = s.at
             /\ f(s).report = s.report /\ f(s).def = s.def /\ f(s).keep = s.keep
             /\ s.callback # Live => f(s) = s
             /\ s.callback = Live => f(s).over = s.over \cup what
  BY DEF Saves
<1> HIDE DEF f
<1>3. Written(Over(S, what), h)
  BY <1>1, <1>2 DEF Accounted, Written, ForSave
<1>4. AllSound(Over(S, what), d2, o2)
  <2> SUFFICES ASSUME NEW s \in S PROVE Sound(f(s), d2, o2)
    BY <1>1 DEF AllSound
  <2>1. Sound(s, d, o)
    BY DEF Accounted, AllSound
  <2>2. CASE s.callback = Live
    BY <1>2, <2>1, <2>2 DEF Sound, Came
  <2>3. CASE s.callback # Live
    BY <1>2, <2>1, <2>3 DEF Sound, Sees, Came
  <2> QED
    BY <2>2, <2>3
<1>5. Mounted(Over(S, what), p)
  BY <1>1, <1>2 DEF Accounted, Mounted
<1> QED
  BY <1>3, <1>4, <1>5 DEF Accounted

LEMMA LeftAccounted ==
  ASSUME NEW S \in SUBSET Saves, NEW h, NEW p, NEW p2,
         NEW d \in Definitions, NEW o \in Reports \cup {New}, NEW d2, NEW o2, Accounted(S, h, d, o, p)
  PROVE  Accounted(Left(S, d, o), h, d2, o2, p2)
<1> DEFINE frozen == [def |-> d, origin |-> o]
           f(s) == IF s.callback = Live THEN [s EXCEPT !.callback = frozen] ELSE s
<1>1. Left(S, d, o) = {f(s) : s \in S}
  BY DEF Left
<1>2. frozen \in Frozen /\ frozen # Live
  BY NullsAssumption DEF Frozen
<1>3. frozen.def = d /\ frozen.origin = o
  OBVIOUS
<1> HIDE DEF frozen
<1>4. ASSUME NEW s \in S
      PROVE  /\ f(s).from = s.from /\ f(s).at = s.at /\ f(s).over = s.over
             /\ f(s).report = s.report /\ f(s).def = s.def /\ f(s).keep = s.keep
             /\ s.callback # Live => f(s) = s
             /\ s.callback = Live => f(s).callback = frozen
             /\ f(s).callback # Live
  BY <1>2 DEF Saves
<1> HIDE DEF f
<1>5. Written(Left(S, d, o), h)
  BY <1>1, <1>4 DEF Accounted, Written, ForSave
<1>6. AllSound(Left(S, d, o), d2, o2)
  <2> SUFFICES ASSUME NEW s \in S PROVE Sound(f(s), d2, o2)
    BY <1>1 DEF AllSound
  <2>1. Sound(s, d, o)
    BY DEF Accounted, AllSound
  <2>2. CASE s.callback = Live
    <3>1. s.callback # Nothing
      BY <2>2, NullsAssumption
    <3> QED
      BY <1>2, <1>3, <1>4, <2>1, <2>2, <3>1 DEF Sound, Sees, Came
  <2>3. CASE s.callback # Live
    BY <1>4, <2>1, <2>3 DEF Sound, Sees, Came
  <2> QED
    BY <2>2, <2>3
<1>7. Mounted(Left(S, d, o), p2)
  BY <1>1, <1>4 DEF Mounted
<1> QED
  BY <1>5, <1>6, <1>7 DEF Accounted

LEMMA LoadAccounted ==
  ASSUME TypeOK, History, NEW S \in SUBSET saves, NEW q,
         NEW r \in Reports \cup {New}, NEW d \in Definitions, NEW o \in Reports \cup {New},
         LoadOn(q, r, d, o, S)
  PROVE  Accounted(saves', held, def', origin', page')
<1>1. /\ def' = d /\ origin' = o /\ page' = q
      /\ IF q # page THEN saves' = Left(Over(S, Overtaken), d, o) ELSE saves' = Over(S, Overtaken)
  BY DEF LoadOn, LoadReport
<1>2. S \in SUBSET Saves /\ Overtaken \in SUBSET Overtaken
  BY DEF TypeOK
<1>3. Accounted(S, held, def, origin, page)
  BY DEF History, Recorded, Accounted, Written, AllSound, Mounted
<1>4. Accounted(Over(S, Overtaken), held, d, o, page)
  BY <1>2, <1>3, OverAccounted DEF Overtaken
<1>5. Accounted(Left(Over(S, Overtaken), d, o), held, d, o, q)
  BY <1>2, <1>4, OverType, LeftAccounted
<1> QED
  BY <1>1, <1>4, <1>5

LEMMA GoAccounted ==
  ASSUME TypeOK, History, NEW S \in SUBSET saves, NEW q, Go(q, S)
  PROVE  Accounted(saves', held, def', origin', page')
<1>1. S \in SUBSET Saves /\ saves' = Left(S, def, origin) /\ def \in Definitions /\ origin \in Reports \cup {New}
  BY DEF TypeOK, Go
<1>2. Accounted(S, held, def, origin, page)
  BY DEF History, Recorded, Accounted, Written, AllSound, Mounted
<1> QED
  BY <1>1, <1>2, LeftAccounted

(* Most steps leave what the server keeps alone.                           *)
LEMMA HistoryParts ==
  ASSUME History, UNCHANGED << server, held >>, opens' \subseteq opens,
         Accounted(saves', held, def', origin', page'),
         (reportId = New => origin = New)', CleanIsSaved', OpenIsWhatItSays'
  PROVE  History'
  BY DEF History, Recorded, Accounted, Written, AllSound, Mounted, Exists

LEMMA HistoryInit == Init => History
<1> SUFFICES ASSUME Init PROVE History
  OBVIOUS
<1>1. \A r \in Reports : Exists(r) => server[r].def \in held[r]
  BY DEF Init, Exists
<1>2. saves = {} /\ opens = {} /\ reportId = New /\ origin = New
  BY DEF Init
<1> QED
  BY <1>1, <1>2 DEF History, Recorded, Written, AllSound, Mounted, CleanIsSaved, OpenIsWhatItSays

LEMMA BecomesHistory ==
  ASSUME TypeOK, History, NEW d, Becomes(d)
  PROVE  History'
<1>1. /\ def' = d /\ dirty' = TRUE
      /\ saves' = Over(saves, {"changed"})
      /\ UNCHANGED << server, held, page, reportId, opens, origin, blame >>
  BY DEF Becomes, serverVars
<1>2. saves \in SUBSET Saves /\ {"changed"} \in SUBSET Overtaken
  BY DEF TypeOK, Overtaken
<1>3. Accounted(saves, held, def, origin, page)
  BY DEF History, Recorded, Accounted
<1>4. Accounted(saves', held, def', origin', page')
  BY <1>1, <1>2, <1>3, OverAccounted
<1>5. CleanIsSaved' /\ OpenIsWhatItSays' /\ (reportId = New => origin = New)'
  BY <1>1 DEF History, CleanIsSaved, OpenIsWhatItSays
<1> QED
  BY <1>1, <1>4, <1>5, HistoryParts

LEMMA EditHistory == ASSUME Base, History, EditStep PROVE History'
<1>1. PICK d \in Definitions : Intact(d) /\ Edit(d)
  BY EditsMade DEF Base, RefsIntact
<1> QED
  BY <1>1, BecomesHistory DEF Edit, Base

(* A step that changes no part of what History speaks of.                  *)
LEMMA HistorySame ==
  ASSUME TypeOK, History, saves' \subseteq saves, opens' \subseteq opens,
         UNCHANGED << server, held, page, def, reportId, dirty, origin, blame >>
  PROVE  History'
<1>1. Accounted(saves', held, def', origin', page')
  BY DEF History, Recorded, Accounted, Written, AllSound, Mounted
<1>2. CleanIsSaved' /\ OpenIsWhatItSays' /\ (reportId = New => origin = New)'
  BY DEF History, CleanIsSaved, OpenIsWhatItSays
<1> QED
  BY <1>1, <1>2, HistoryParts

LEMMA AskHistory == ASSUME Base, History, AskStep PROVE History'
<1> USE DEF Base
<1>1. CASE Count
  BY <1>1, HistorySame DEF Count, outside, serverVars, storeVars, askedVars
<1>2. ASSUME NEW c \in counts, Counted(c) PROVE History'
  BY <1>2, HistorySame DEF Counted, outside, serverVars, storeVars, askedVars
<1>3. ASSUME NEW t \in Tables, AskFields(t) \/ FieldsLost(t) PROVE History'
  BY <1>3, HistorySame DEF AskFields, FieldsLost, unasked, serverVars, storeVars
<1>4. ASSUME NEW t \in Tables, FieldsArrive(t) PROVE History'
  BY <1>4, BecomesHistory DEF FieldsArrive
<1> QED
  BY <1>1, <1>2, <1>3, <1>4 DEF AskStep

LEMMA AskSaveHistory ==
  ASSUME TypeOK, History, NEW s \in Saves, Ask(s), s.at = "sent", Sound(s, def, origin),
         s.callback = Live => s.from = page /\ ~Pending(page)
  PROVE  History'
<1>1. /\ saves' = saves \cup {s}
      /\ UNCHANGED << server, held, page, def, reportId, dirty, opens, origin, blame >>
  BY DEF Ask, serverVars, storeVars, askedVars
<1>2. Accounted(saves', held, def', origin', page')
  <2>1. s.callback = Live => \A z \in saves : z.callback # Live
    BY DEF History, Mounted, Pending
  <2> QED
    BY <1>1, <2>1 DEF History, Recorded, Accounted, Written, AllSound, Mounted
<1>3. CleanIsSaved' /\ OpenIsWhatItSays' /\ (reportId = New => origin = New)'
  BY <1>1 DEF History, CleanIsSaved, OpenIsWhatItSays
<1> QED
  BY <1>1, <1>2, <1>3, HistoryParts

LEMMA RequestHistory ==
  ASSUME TypeOK, History, NEW keep \in BOOLEAN, page \in {"builder", "screen"},
         page = "builder" => reportId # New,
         ~Pending(page), Ask(Request(page, keep))
  PROVE  History'
<1> DEFINE s == Request(page, keep)
<1>1. /\ s \in Saves /\ s.report = reportId /\ s.def = def /\ s.from = page /\ s.at = "sent"
      /\ s.over = blame \cap {"reloaded"} /\ s.callback = Live
  BY RequestType DEF Request
<1> HIDE DEF s
<1>2. "reloaded" \notin s.over => origin = s.report
  BY <1>1 DEF History, OpenIsWhatItSays
<1>3. Sound(s, def, origin)
  BY <1>1, <1>2 DEF Sound, Sees, Came, TypeOK
<1> QED
  BY <1>1, <1>3, AskSaveHistory DEF s

LEMMA StoreHistory == ASSUME Base, History, NEW s \in saves, Store(s) PROVE History'
<1>1. PICK r \in Reports :
        /\ IF s.report = New THEN ~Exists(r) ELSE r = s.report /\ Exists(r)
        /\ server' = [server EXCEPT ![r] =
              [def |-> ForSave(s), filed |-> s.from = "screen", keep |-> s.keep,
               listed |-> IF s.report = New THEN TRUE ELSE server[r].listed]]
        /\ held' = [held EXCEPT ![r] = @ \cup {ForSave(s)}]
        /\ saves' = (saves \ {s}) \cup {[s EXCEPT !.at = "stored", !.report = r]}
  BY DEF Store
<1> DEFINE e == [s EXCEPT !.at = "stored", !.report = r]
<1>2. s \in Saves /\ s.at = "sent" /\ opens \subseteq [report : Reports, def : Definitions]
      /\ server \in [Reports -> Rows \cup {Nothing}] /\ held \in [Reports -> SUBSET Definitions]
      /\ reportId \in Reports \cup {New}
  BY DEF Base, TypeOK, Store
<1>3. /\ e.def = s.def /\ e.keep = s.keep /\ e.callback = s.callback /\ e.from = s.from
      /\ e.over = s.over /\ e.report = r /\ ForSave(e) = ForSave(s)
  BY <1>2 DEF Saves, ForSave
<1>4. saves' = (saves \ {s}) \cup {e}
      /\ UNCHANGED << page, def, reportId, dirty, opens, origin, blame >>
  BY <1>1 DEF Store, storeVars, askedVars
<1>5. ForSave(s) \in held'[r] /\ \A q \in Reports : held[q] \subseteq held'[q]
  BY <1>1, <1>2
<1>6. \A q \in Reports : Exists(q)' => server'[q].def \in held'[q]
  <2> TAKE q \in Reports
  <2>1. CASE q = r
    BY <1>1, <1>2, <1>5, <2>1
  <2>2. CASE q # r
    BY <1>1, <1>2, <1>5, <2>2 DEF Exists, History, Recorded
  <2> QED
    BY <2>1, <2>2
<1> HIDE DEF e
<1>7. Recorded'
  BY <1>2, <1>3, <1>4, <1>5, <1>6 DEF History, Recorded, Written
<1>8. AllSound(saves', def', origin')
  <2>1. Sound(s, def, origin) /\ (s.report # New => s.report = r)
    BY <1>1 DEF History, AllSound
  <2>2. ConstantsAssumption /\ New \notin Reports
    BY ConstantsAssumption
  <2>3. Sees(e, def) = Sees(s, def) /\ Came(e, origin) = Came(s, origin)
    BY <1>3 DEF Sees, Came
  <2>4. s.from \in {"builder", "screen", "list"}
    BY <1>2 DEF Saves
  <2>5. s.report = New \/ s.report = r
    BY <1>1
  <2>6. Sound(e, def, origin)
    BY <1>3, <2>1, <2>2, <2>3, <2>4, <2>5 DEF Sound
  <2> QED
    BY <1>4, <2>6 DEF History, AllSound
<1>9. Mounted(saves', page')
  BY <1>3, <1>4 DEF History, Mounted
<1>10. CleanIsSaved' /\ OpenIsWhatItSays' /\ (reportId = New => origin = New)'
  BY <1>2, <1>4, <1>5 DEF History, CleanIsSaved, OpenIsWhatItSays
<1> QED
  BY <1>7, <1>8, <1>9, <1>10 DEF History

(* What a stored save's callback loads, with the blame it leaves.          *)
LEMMA AnswerSaved ==
  ASSUME TypeOK, History, NEW s \in saves, s.at = "stored", s.callback # Nothing
  PROVE  /\ s.report \in Reports
         /\ {"changed", "stripped"} \cap Why(s) = {} => Sees(s, def) \in held[s.report]
         /\ "reloaded" \notin Why(s) => From(s, Came(s, origin)) = s.report
<1>1. /\ s \in Saves /\ s.report \in Reports /\ ForSave(s) \in held[s.report]
      /\ Sound(s, def, origin)
  BY DEF TypeOK, History, Recorded, Written, AllSound
<1>2. ASSUME {"changed", "stripped"} \cap Why(s) = {} PROVE Sees(s, def) \in held[s.report]
  <2>1. "changed" \notin s.over /\ s.keep
    BY <1>1, <1>2 DEF Why, Saves
  <2> QED
    BY <1>1, <2>1, ForSaveMade DEF Sound
<1>3. ASSUME "reloaded" \notin Why(s) PROVE From(s, Came(s, origin)) = s.report
  BY <1>1, <1>3 DEF Why, Sound, From
<1> QED
  BY <1>1, <1>2, <1>3

LEMMA AnsweredHistory == ASSUME Base, History, NEW s \in saves, Answered(s) PROVE History'
<1> USE DEF Base
<1>1. s.at = "stored" /\ UNCHANGED << server, held, opens >> /\ s \in Saves /\ New \notin Reports
  BY ConstantsAssumption DEF Answered, serverVars, askedVars, TypeOK
<1> DEFINE S == saves \ {s}
<1>2. Accounted(S, held, def, origin, page)
  BY DEF History, Recorded, Accounted, Written, AllSound, Mounted
<1>3. CASE AnsweredHere(s)
  <2>1. /\ s.callback = Live /\ s.callback # Nothing
        /\ def' = def /\ reportId' = s.report /\ origin' = From(s, origin) /\ blame' = Why(s)
    BY <1>3, NullsAssumption DEF AnsweredHere, LoadReport
  <2>2. CleanIsSaved' /\ OpenIsWhatItSays' /\ (reportId = New => origin = New)'
    BY <1>1, <2>1, AnswerSaved DEF CleanIsSaved, OpenIsWhatItSays, Sees, Came
  <2>3. Accounted(saves', held, def', origin', page')
    <3>1. CASE s.from = "screen"
      BY <1>3, <3>1, GoAccounted DEF AnsweredHere
    <3>2. CASE s.from # "screen"
      <4>1. saves' = S /\ page' = page
        BY <1>3, <3>2 DEF AnsweredHere
      <4>2. \A z \in S : z.callback # Live
        BY <2>1 DEF History, Mounted
      <4> HIDE DEF S
      <4>3. AllSound(S, def', origin')
        BY <1>2, <4>2 DEF Accounted, AllSound, Sound, Sees, Came
      <4>4. Mounted(S, page)
        BY <1>2 DEF Accounted
      <4>5. Written(S, held)
        BY <1>2 DEF Accounted
      <4> QED
        BY <4>1, <4>3, <4>4, <4>5 DEF Accounted
    <3> QED
      BY <3>1, <3>2
  <2> QED
    BY <1>1, <2>2, <2>3, HistoryParts
<1>4. CASE AnsweredElsewhere(s)
  <2> DEFINE q == IF s.from = "screen" THEN "list" ELSE page
             d == s.callback.def
             o == From(s, s.callback.origin)
  <2>1. s.callback \in Frozen /\ s.callback \notin {Live, Nothing}
    BY <1>1, <1>4 DEF AnsweredElsewhere, Saves
  <2>2. d \in Definitions /\ o \in Reports \cup {New} /\ s.report \in Reports \cup {New}
    BY <1>1, <2>1 DEF Frozen, From, Saves
  <2>3. LoadOn(q, s.report, d, o, S) /\ blame' = Why(s)
    BY <1>4 DEF AnsweredElsewhere
  <2>4. d = Sees(s, def) /\ o = From(s, Came(s, origin))
    BY <2>1 DEF Sees, Came
  <2> HIDE DEF q, d, o
  <2>5. def' = d /\ reportId' = s.report /\ origin' = o
    BY <2>3 DEF LoadOn, LoadReport
  <2>6. Accounted(saves', held, def', origin', page')
    BY <2>2, <2>3, LoadAccounted
  <2>7. CleanIsSaved' /\ OpenIsWhatItSays' /\ (reportId = New => origin = New)'
    BY <1>1, <2>1, <2>3, <2>4, <2>5, AnswerSaved DEF CleanIsSaved, OpenIsWhatItSays
  <2> QED
    BY <1>1, <2>6, <2>7, HistoryParts
<1>5. CASE AnsweredList(s)
  BY <1>1, <1>5, HistorySame DEF AnsweredList, storeVars, viewVars
<1> QED
  BY <1>3, <1>4, <1>5 DEF Answered

LEMMA SaveHistory == ASSUME Base, History, SaveStep PROVE History'
<1> USE DEF Base
<1>1. CASE Save
  BY <1>1, RequestHistory DEF Save
<1>2. ASSUME NEW keep \in BOOLEAN, SaveOnScreen(keep) PROVE History'
  BY <1>2, RequestHistory DEF SaveOnScreen
<1>3. CASE GoSave
  <2>1. Go("screen", saves) /\ UNCHANGED << server, held, def, reportId, dirty, opens, origin, blame >>
    BY <1>3 DEF GoSave, serverVars, storeVars, askedVars
  <2>2. CleanIsSaved' /\ OpenIsWhatItSays' /\ (reportId = New => origin = New)'
    BY <2>1 DEF History, CleanIsSaved, OpenIsWhatItSays
  <2> QED
    BY <2>1, <2>2, GoAccounted, HistoryParts
<1>4. CASE SaveAs
  <2>1. Go("screen", saves) /\ UNCHANGED << server, held, opens >> /\ reportId' = New /\ origin' = New
    BY <1>4 DEF SaveAs, LoadReport, serverVars, askedVars
  <2>2. CleanIsSaved' /\ OpenIsWhatItSays' /\ (reportId = New => origin = New)'
    BY <2>1 DEF CleanIsSaved, OpenIsWhatItSays
  <2> QED
    BY <2>1, <2>2, GoAccounted, HistoryParts
<1>5. ASSUME NEW r \in Reports, Resend(r, r) \/ Resend(r, New) PROVE History'
  <2>1. PICK as \in {r, New} : Resend(r, as)
    BY <1>5
  <2> DEFINE s == [report |-> as, def |-> server[r].def, keep |-> TRUE, from |-> "list",
                   at |-> "sent", over |-> {}, callback |-> Nothing]
  <2>2. server[r] \in Rows
    BY <2>1 DEF Resend, Exists, TypeOK
  <2>3. s \in Saves
    BY <2>2 DEF Saves, Rows
  <2>4. s.from = "list" /\ s.callback = Nothing /\ s.at = "sent" /\ Ask(s)
    BY <2>1 DEF Resend
  <2> HIDE DEF s
  <2>5. Sound(s, def, origin) /\ s.callback # Live
    BY <2>4, NullsAssumption DEF Sound
  <2> QED
    BY <2>3, <2>4, <2>5, AskSaveHistory
<1>6. ASSUME NEW r \in Reports, Delete(r) PROVE History'
  <2>1. server[r] \in Rows /\ server \in [Reports -> Rows \cup {Nothing}]
    BY <1>6 DEF Delete, Exists, TypeOK
  <2> DEFINE row == [server[r] EXCEPT !.listed = FALSE]
  <2>2. row.def = server[r].def /\ server' = [server EXCEPT ![r] = row]
    BY <1>6, <2>1 DEF Delete, Rows
  <2> HIDE DEF row
  <2>3. \A q \in Reports : Exists(q)' => server'[q].def \in held[q]
    BY <1>6, <2>1, <2>2 DEF History, Recorded, Delete, Exists
  <2>4. UNCHANGED << held, page, def, reportId, dirty, opens, saves, origin, blame >>
    BY <1>6 DEF Delete, storeVars, askedVars
  <2> QED
    BY <2>3, <2>4 DEF History, Recorded, CleanIsSaved, OpenIsWhatItSays
<1>7. ASSUME NEW s \in saves, SaveFails(s) PROVE History'
  BY <1>7, HistorySame DEF SaveFails, serverVars, storeVars, askedVars
<1> QED
  BY <1>1, <1>2, <1>3, <1>4, <1>5, <1>6, <1>7, StoreHistory, AnsweredHistory DEF SaveStep

LEMMA OpenHistory == ASSUME Base, History, OpenStep PROVE History'
<1> USE DEF Base
<1>1. ASSUME NEW r \in Reports, Open(r) PROVE History'
  <2> DEFINE o == [report |-> r, def |-> server[r].def]
  <2>1. o.def \in held[o.report]
    BY <1>1 DEF Open, History, Recorded
  <2>2. opens' = opens \cup {o}
        /\ UNCHANGED << server, held, page, def, reportId, dirty, saves, origin, blame >>
    BY <1>1 DEF Open, serverVars, storeVars
  <2> HIDE DEF o
  <2> QED
    BY <2>1, <2>2 DEF History, Recorded, Exists, CleanIsSaved, OpenIsWhatItSays
<1>2. ASSUME NEW o \in opens, Opened(o) PROVE History'
  <2>1. /\ o.report \in Reports /\ o.def \in Definitions /\ o.def \in held[o.report]
        /\ New \notin Reports
    BY ConstantsAssumption DEF TypeOK, History, Recorded
  <2>2. LoadOn("builder", o.report, o.def, o.report, saves)
        /\ UNCHANGED << server, held >> /\ opens' \subseteq opens
    BY <1>2 DEF Opened, serverVars
  <2>3. def' = o.def /\ reportId' = o.report /\ origin' = o.report
    BY <2>2 DEF LoadOn, LoadReport
  <2>4. Accounted(saves', held, def', origin', page')
    BY <2>1, <2>2, LoadAccounted
  <2>5. CleanIsSaved' /\ OpenIsWhatItSays' /\ (reportId = New => origin = New)'
    BY <2>1, <2>2, <2>3 DEF CleanIsSaved, OpenIsWhatItSays
  <2> QED
    BY <2>2, <2>4, <2>5, HistoryParts
<1>3. ASSUME NEW o \in opens, OpenFails(o) PROVE History'
  BY <1>3, HistorySame DEF OpenFails, serverVars, storeVars
<1>4. ASSUME NEW d \in {Empty} \cup Suggestions, StartNew(d) PROVE History'
  <2>1. LoadOn("builder", New, d, New, saves) /\ UNCHANGED << server, held, opens >>
    BY <1>4 DEF StartNew, serverVars, askedVars
  <2>2. def' = d /\ reportId' = New /\ origin' = New
    BY <2>1 DEF LoadOn, LoadReport
  <2>3. def' \in Definitions
    BY <1>4, OpenBase DEF OpenStep, TypeOK
  <2>4. Accounted(saves', held, def', origin', page')
    BY <2>1, <2>2, <2>3, LoadAccounted
  <2>5. CleanIsSaved' /\ OpenIsWhatItSays' /\ (reportId = New => origin = New)'
    BY <2>2 DEF CleanIsSaved, OpenIsWhatItSays
  <2> QED
    BY <2>1, <2>4, <2>5, HistoryParts
<1>5. ASSUME NEW q \in {"list", "builder"}, Navigate(q) PROVE History'
  <2>1. Go(q, saves) /\ UNCHANGED << server, held, def, reportId, dirty, opens, origin, blame >>
    BY <1>5 DEF Navigate, serverVars, storeVars, askedVars
  <2>2. CleanIsSaved' /\ OpenIsWhatItSays' /\ (reportId = New => origin = New)'
    BY <2>1 DEF History, CleanIsSaved, OpenIsWhatItSays
  <2> QED
    BY <2>1, <2>2, GoAccounted, HistoryParts
<1> QED
  BY <1>1, <1>2, <1>3, <1>4, <1>5 DEF OpenStep

(* The inductive invariant.                                                *)
IInv == Base /\ History

LEMMA IInvStep == IInv /\ [Next]_vars => IInv'
<1> SUFFICES ASSUME IInv, [Next]_vars PROVE IInv'
  OBVIOUS
<1>1. Base'
  BY BaseStep DEF IInv
<1>2. CASE UNCHANGED vars
  BY <1>1, <1>2, HistorySame DEF IInv, Base, vars, serverVars, storeVars, askedVars
<1>3. CASE Next
  BY <1>1, <1>3, EditHistory, AskHistory, SaveHistory, OpenHistory DEF IInv, Next
<1> QED
  BY <1>2, <1>3

(* A tab that does not say "Unsaved" shows a definition its report has had, *)
(* unless the definition was changed or reloaded under a pending save, or  *)
(* the save was asked to leave filters and sorting out.                    *)
THEOREM CleanShowsSaved == Spec => []CleanIsSaved
<1>1. Init => IInv
  BY BaseInit, HistoryInit DEF IInv
<1>2. IInv => CleanIsSaved
  BY DEF IInv, History
<1> QED
  BY <1>1, <1>2, IInvStep, PTL DEF Spec

(* The id the next save will write to is that of the report the open       *)
(* definition came from, unless another was loaded under a pending save.   *)
THEOREM SavesWhereItCameFrom == Spec => []OpenIsWhatItSays
<1>1. Init => IInv
  BY BaseInit, HistoryInit DEF IInv
<1>2. IInv => OpenIsWhatItSays
  BY DEF IInv, History
<1> QED
  BY <1>1, <1>2, IInvStep, PTL DEF Spec

-----------------------------------------------------------------------------
(* The row count shown, and every one under way, is of the open definition *)
(* or known to be late.                                                    *)
CountsOK == /\ WrongTotalNeedsLateCount
            /\ \A c \in counts : c.def # def => c.over

(* A step that forgets the total, or has nothing to do with it.            *)
Aside == Redefined \/ Leave \/ (def' = def /\ UNCHANGED viewVars)

LEMMA AsideCounts == ASSUME TypeOK, CountsOK, Aside PROVE CountsOK'
<1>1. CASE Redefined
  <2>1. \A c \in Overrun : c.over
    BY DEF Overrun, TypeOK, Counts
  <2> QED
    BY <1>1, <2>1 DEF Redefined, CountsOK, WrongTotalNeedsLateCount
<1>2. CASE Leave
  BY <1>2 DEF Leave, CountsOK, WrongTotalNeedsLateCount
<1>3. CASE def' = def /\ UNCHANGED viewVars
  BY <1>3 DEF viewVars, CountsOK, WrongTotalNeedsLateCount
<1> QED
  BY <1>1, <1>2, <1>3 DEF Aside

(* Every step but asking for a count and its answer is such a step.        *)
LEMMA OthersAside ==
  ASSUME Base, [Next]_vars, ~Count, \A c \in counts : ~Counted(c)
  PROVE  Aside
<1>1. ASSUME NEW q, NEW r, NEW d, NEW o, NEW S, LoadOn(q, r, d, o, S) PROVE Aside
  BY <1>1 DEF LoadOn, Aside
<1>2. CASE EditStep
  <2>1. PICK d \in Definitions : Intact(d) /\ Edit(d)
    BY <1>2, EditsMade DEF Base, RefsIntact
  <2> QED
    BY <2>1 DEF Edit, Becomes, Aside
<1>3. CASE AskStep
  BY <1>3 DEF AskStep, AskFields, FieldsArrive, FieldsLost, Becomes, unasked, storeVars, Aside
<1>4. CASE SaveStep
  <2>1. ASSUME NEW s \in saves, Answered(s) PROVE Aside
    BY <1>1, <2>1 DEF Answered, AnsweredHere, AnsweredElsewhere, AnsweredList, LoadReport, Go,
                      storeVars, viewVars, Aside
  <2>2. CASE GoSave \/ SaveAs
    BY <2>2 DEF GoSave, SaveAs, Go, Aside
  <2>3. CASE Save \/ (\E keep \in BOOLEAN : SaveOnScreen(keep))
             \/ \E r \in Reports : Resend(r, r) \/ Resend(r, New) \/ Delete(r)
    BY <2>3 DEF Save, SaveOnScreen, Resend, Ask, Delete, storeVars, Aside
  <2>4. ASSUME NEW s \in saves, Store(s) \/ SaveFails(s) PROVE Aside
    BY <2>4 DEF Store, SaveFails, storeVars, Aside
  <2> QED
    BY <1>4, <2>1, <2>2, <2>3, <2>4 DEF SaveStep
<1>5. CASE OpenStep
  BY <1>1, <1>5 DEF OpenStep, Open, Opened, OpenFails, StartNew, Navigate, Go, storeVars, Aside
<1>6. CASE UNCHANGED vars
  BY <1>6 DEF vars, storeVars, Aside
<1> QED
  BY <1>2, <1>3, <1>4, <1>5, <1>6 DEF Next

LEMMA CountsStep == ASSUME Base, CountsOK, [Next]_vars PROVE CountsOK'
<1>1. CASE Count
  BY <1>1 DEF Count, outside, storeVars, CountsOK, WrongTotalNeedsLateCount
<1>2. ASSUME NEW c \in counts, Counted(c) PROVE CountsOK'
  <2>1. def' = def /\ counts' \subseteq counts
    BY <1>2 DEF Counted, outside, storeVars
  <2>2. total' \notin {Nothing, def} => total' = c.def /\ c.def # def /\ late' = c.over
    BY <1>2 DEF Counted, TypeOK, Counts, Base
  <2>3. total' \notin {Nothing, def} => late'
    BY <2>2 DEF CountsOK
  <2> QED
    BY <2>1, <2>3 DEF CountsOK, WrongTotalNeedsLateCount
<1> QED
  BY <1>1, <1>2, OthersAside, AsideCounts DEF Base

(* The builder never shows another definition's row count, but for a count *)
(* that was under way when the definition was replaced.                    *)
THEOREM WrongTotalsAreLate == Spec => []WrongTotalNeedsLateCount
<1>1. Init => CountsOK
  BY DEF Init, CountsOK, WrongTotalNeedsLateCount
<1>2. CountsOK => WrongTotalNeedsLateCount
  BY DEF CountsOK
<1> QED
  BY <1>1, <1>2, BaseInit, BaseStep, CountsStep, PTL DEF Spec

=============================================================================
