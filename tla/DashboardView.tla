--------------------------- MODULE DashboardView ---------------------------
(***************************************************************************)
(* What a dashboard shows: the metric cards of /preview and the embedded   *)
(* report of /panel (api/v1/dashboards.py), each translated into a report  *)
(* (domain/dashboard/builder.py) over the window of the dashboard's time   *)
(* range (domain/dashboard/ir.py).                                         *)
(*                                                                         *)
(* A condition is the set of rows that meet it, the children of a group    *)
(* the set of its conditions (their order tells nothing), a card's number  *)
(* the count of its rows; what joining more tables does to a total is      *)
(* FanoutCorrection's.  The cards are measured one after the other, while  *)
(* the operational database changes and the day may end.                   *)
(***************************************************************************)
EXTENDS Integers, Sequences, FiniteSets

CONSTANTS
    Rows,         \* rows the operational database may hold
    Tables,       \* tables that filters and date fields name
    Dated,        \* Dated[t][r]: the day of row r in the date column of table t, or Nothing
    Boards,       \* dashboard definitions, each with the report its panel shows
    Nothing,         \* an absent value
    Today,        \* the day the first request is answered on
    MaxMidnights, \* bound: days that end in one behaviour
    MaxChanges    \* bound: rows that appear or go in one behaviour

FilterGroup == [op : {"and", "or"}, children : SUBSET SUBSET Rows]

TimeRange == [preset : {"daily", "weekly", "monthly", "quarterly", "yearly", "all_time", "custom"},
              mode : {"last", "this", "previous"}, periods : Nat \ {0},
              start : Int \cup {Nothing}, end : Int \cup {Nothing}, field : Tables \cup {Nothing}]

DashboardFilter == [table : Tables, rows : SUBSET Rows, active : BOOLEAN]

MetricCard == [table : Tables, own : FilterGroup, ignores : BOOLEAN,
               comparison : {"none", "previous_period", "share_of_total"}, field : Tables \cup {Nothing}]

DashboardReport == [ignores : BOOLEAN, ignoresFilters : BOOLEAN, field : Tables \cup {Nothing}]

DashboardDefinition ==
    [range : TimeRange, cards : Seq(MetricCard), filters : Seq(DashboardFilter),
     panel : DashboardReport \cup {Nothing}, report : [tables : SUBSET Tables, own : FilterGroup]]

ASSUME BoardsAssumption ==
    /\ Rows # {} /\ Dated \in [Tables -> [Rows -> Int \cup {Nothing}]] /\ Today \in Int
    /\ Boards \subseteq DashboardDefinition
    /\ Nothing \notin Int \cup Tables \cup DashboardReport \cup [from : Int, to : Int]

VARIABLES
    board,    \* the definition the client sends
    today,    \* the server's date
    live,     \* the rows of the operational database
    changes,
    now,      \* the date the preview under way was given
    step,     \* idle, measure, compare or sent
    cards,    \* the entries of the preview's answer so far
    panel     \* the answer of the last panel request

viewVars == <<board, today, live, changes, now, step, cards, panel>>

(* ---------------------------- The time range --------------------------- *)

UnitDays == [daily |-> 1, weekly |-> 7, monthly |-> 30, quarterly |-> 91, yearly |-> 365]

Applies(range) == range.preset # "all_time"

(* The validator puts the dates of a custom range in order.                *)
Validated(range) ==
    IF range.preset = "custom" /\ range.start # Nothing /\ range.end # Nothing /\ range.end < range.start
    THEN [range EXCEPT !.start = range.end, !.end = range.start]
    ELSE range

Window(from, to) == [from |-> from, to |-> to]

Resolve(range, day) ==
    LET unit == UnitDays[range.preset]
        span == unit * range.periods
    IN CASE ~Applies(range) -> Nothing
         [] range.preset = "custom" ->
              IF Nothing \in {range.start, range.end} THEN Nothing ELSE Window(range.start, range.end)
         [] OTHER ->
              CASE range.mode = "this"     -> Window(day - (unit - 1), day)
                [] range.mode = "previous" -> Window(day - span - (span - 1), day - span)
                [] range.mode = "last"     -> Window(day - (span - 1), day)

Before(window) ==
    LET span == window.to - window.from + 1
    IN Window(window.from - span, window.from - 1)

Previous(range, day) ==
    LET window == Resolve(range, day) IN IF window = Nothing THEN Nothing ELSE Before(window)

(* ------------------- A panel's conditions as a report ------------------ *)

(* The rows within a window; a between-filter on a real column needs both  *)
(* the column and the window, and lets no row through that has no date.    *)
Within(table, window) == {r \in Rows : Dated[table][r] \in window.from .. window.to}

DateConditions(field, window) ==
    IF field = Nothing \/ window = Nothing THEN {} ELSE {Within(field, window)}

(* Which filters can narrow a report over these tables, and which cannot.  *)
(* One without a value is "All" and is in neither list.                    *)
Active(b) == {i \in DOMAIN b.filters : b.filters[i].active}
Applied(b, tables) == {i \in Active(b) : b.filters[i].table \in tables}
NotApplicable(b, tables) == Active(b) \ Applied(b, tables)

FilterConditions(b, tables) == {b.filters[i].rows : i \in Applied(b, tables)}

(* AND of the panel's own conditions and the dashboard's: the children of  *)
(* both in one group, whatever joined the panel's own.                     *)
Combine_KeepsOp(base, extra) == [op |-> base.op, children |-> base.children \cup extra]
Combine(base, extra) ==
    IF extra = {} THEN base ELSE [op |-> "and", children |-> base.children \cup extra]

Passing(group) ==
    {r \in Rows : \/ group.children = {}
                  \/ group.op = "and" /\ \A c \in group.children : r \in c
                  \/ group.op = "or" /\ \E c \in group.children : r \in c}

DateField(b, item) == IF item.field # Nothing THEN item.field ELSE b.range.field

(* metric_report: a filter's table is joined in, so that every active      *)
(* filter reaches every card.                                              *)
CardTables(b, card) ==
    ({card.table, DateField(b, card)} \ {Nothing}) \cup {b.filters[i].table : i \in Active(b)}

MetricReport_OwnTableOnly(b, card, day, window) ==
    Combine(card.own,
        FilterConditions(b, CardTables(b, card))
          \cup (IF card.ignores \/ DateField(b, card) # card.table THEN {}
              ELSE DateConditions(DateField(b, card),
                                  IF window = Nothing THEN Resolve(b.range, day) ELSE window)))
MetricReport(b, card, day, window) ==
    Combine(card.own,
        FilterConditions(b, CardTables(b, card))
          \cup (IF card.ignores THEN {}
              ELSE DateConditions(DateField(b, card),
                                  IF window = Nothing THEN Resolve(b.range, day) ELSE window)))

(* apply_to_report: a filter whose table the report does not read is left  *)
(* out and named; so is a window with no column to measure it against.     *)
Reached(b) == DateField(b, b.panel) # Nothing /\ DateField(b, b.panel) \in b.report.tables
TimeRangeApplied_Always(b) == TRUE
TimeRangeApplied(b) == b.panel.ignores \/ Reached(b) \/ ~Applies(b.range)

AppliedReport(b, day) ==
    Combine(b.report.own,
        (IF b.panel.ignoresFilters THEN {} ELSE FilterConditions(b, b.report.tables))
          \cup (IF b.panel.ignores \/ ~Reached(b) THEN {}
              ELSE DateConditions(DateField(b, b.panel), Resolve(b.range, day))))

(* -------------------------------- Actions ------------------------------ *)

(* The dates of a range are put in order when the definition is parsed.    *)
ViewInit ==
    /\ board \in {[b EXCEPT !.range = Validated(b.range)] : b \in Boards}
    /\ today = Today
    /\ live \in {Rows, Rows \ {CHOOSE r \in Rows : TRUE}}
    /\ changes = 0
    /\ now = Nothing /\ step = "idle" /\ cards = <<>> /\ panel = Nothing

(* The card that is measured next.                                         *)
Due == board.cards[Len(cards) + 1]
(* The window its entry states.                                            *)
Stated == IF Due.ignores THEN Nothing ELSE Resolve(board.range, now)

(* What the card counts now, over its own window or another.               *)
Measure(item, window) == live \cap Passing(MetricReport(board, item, now, window))

(* The next card is due, or the answer is sent.                            *)
Push(entry) ==
    /\ cards' = Append(cards, entry)
    /\ step' = IF Len(cards) + 1 = Len(board.cards) THEN "sent" ELSE "measure"

(* The date is resolved once for the whole answer.                         *)
StartPreview ==
    /\ step \in {"idle", "sent"} /\ board.cards # <<>>
    /\ now' = today /\ cards' = <<>> /\ step' = "measure"
    /\ UNCHANGED <<board, today, live, changes, panel>>

(* An entry says what it was measured over: window and filters.  counted   *)
(* and among are history: the rows behind the number, and all there were.  *)
Entry ==
    [caption |-> IF Stated = Nothing THEN "all" ELSE "range", window |-> Stated,
     applied |-> Applied(board, CardTables(board, Due)),
     notApplicable |-> NotApplicable(board, CardTables(board, Due)),
     counted |-> Measure(Due, Stated), among |-> live, base |-> {}, baseAmong |-> {}]

(* One query per card, and one more for its comparison.                    *)
RunMetric ==
    /\ step = "measure"
    /\ IF \/ Due.comparison = "previous_period" /\ Previous(board.range, now) # Nothing
          \/ Due.comparison = "share_of_total"
       THEN cards' = Append(cards, Entry) /\ step' = "compare"
       ELSE Push(Entry)
    /\ UNCHANGED <<board, today, live, changes, now, panel>>

(* A card the engine rejects has its errors for a number; a query that the *)
(* database refuses costs its card alone, which then states nothing.       *)
MetricFails ==
    /\ step = "measure"
    /\ \/ Push([Entry EXCEPT !.caption = "failed", !.counted = {}])
       \/ Push([Entry EXCEPT !.caption = "failed", !.counted = {}, !.window = Nothing,
                             !.applied = {}, !.notApplicable = {}])
    /\ UNCHANGED <<board, today, live, changes, now, panel>>

(* The card whose comparison is due.                                       *)
Compared == board.cards[Len(cards)]

(* The same measure with neither the card's own conditions nor the window, *)
(* but with the dashboard's filters.                                       *)
Whole == [Compared EXCEPT !.own = [op |-> "and", children |-> {}], !.ignores = TRUE]

Compare(base, caption) ==
    /\ step = "compare"
    /\ cards' = [cards EXCEPT ![Len(cards)].base = base, ![Len(cards)].baseAmong = live,
                              ![Len(cards)].caption = caption]
    /\ step' = IF Len(cards) = Len(board.cards) THEN "sent" ELSE "measure"
    /\ UNCHANGED <<board, today, live, changes, now, panel>>

RunComparison_Today ==
    /\ Compared.comparison = "previous_period"
    /\ Compare(live \cap Passing(MetricReport(board, Compared, today, Previous(board.range, today))),
               "previous")
RunComparison ==
    /\ Compared.comparison = "previous_period"
    /\ Compare(Measure(Compared, Previous(board.range, now)), "previous")

(* Of an empty total there is no share, and the caption stays.             *)
RunTotal ==
    /\ Compared.comparison = "share_of_total"
    /\ LET whole == Measure(Whole, Nothing)
       IN Compare(whole, IF whole = {} THEN cards[Len(cards)].caption ELSE "total")

ComparisonFails == Compare({}, cards[Len(cards)].caption)

(* The panel is a request of its own, with its own date.                   *)
RunPanel ==
    /\ board.panel # Nothing
    /\ panel' = [day |-> today, among |-> live,
                 rows |-> live \cap Passing(AppliedReport(board, today)),
                 applied |-> IF board.panel.ignoresFilters THEN {}
                             ELSE Applied(board, board.report.tables),
                 notApplicable |-> IF board.panel.ignoresFilters THEN {}
                                   ELSE NotApplicable(board, board.report.tables),
                 timeRangeApplied |-> TimeRangeApplied(board)]
    /\ UNCHANGED <<board, today, live, changes, now, step, cards>>

Midnight ==
    /\ today < Today + MaxMidnights
    /\ today' = today + 1
    /\ UNCHANGED <<board, live, changes, now, step, cards, panel>>

(* Whoever writes the operational database does not wait for a dashboard.  *)
Business ==
    /\ changes < MaxChanges /\ changes' = changes + 1
    /\ \E r \in Rows : live' = IF r \in live THEN live \ {r} ELSE live \cup {r}
    /\ UNCHANGED <<board, today, now, step, cards, panel>>

ViewNext ==
    \/ StartPreview \/ RunMetric \/ MetricFails
    \/ step = "compare" /\ (RunComparison \/ RunTotal \/ ComparisonFails)
    \/ RunPanel \/ Midnight \/ Business

ViewSpec == ViewInit /\ [][ViewNext]_viewVars

(* ------------------------------ Properties ----------------------------- *)

CardOf(i) == board.cards[i]

(* "Without it a delta is being measured against nothing in particular":   *)
(* the period a number is compared with ends the day before the number's   *)
(* own begins and is as long, also if midnight passes between the queries: *)
(* a row of the two periods is in one of them, and in no more than one.    *)
ComparedWithThePeriodBefore ==
    \A i \in DOMAIN cards :
        LET e == cards[i]
            both == Window(Before(e.window).from, e.window.to)
        IN (/\ e.caption = "previous" /\ e.among = e.baseAmong
            /\ ~CardOf(i).ignores /\ DateField(board, CardOf(i)) # Nothing) =>
             /\ e.counted \cap e.base = {}
             /\ e.counted \cup e.base = e.among \cap Passing(MetricReport(board, CardOf(i), now, both))

(* "Every panel reports its own truth": a number's rows are those its      *)
(* window and its list of filters say, and no filter with a value is       *)
(* missing from both lists.  A card with no date field states a window all *)
(* the same (see StatesWhatItMeasured).                                    *)
NumbersTellTheirTruth ==
    \A i \in DOMAIN cards :
        LET e == cards[i]
            field == DateField(board, CardOf(i))
        IN e.caption # "failed" =>
             /\ e.window # Nothing /\ field # Nothing => e.counted \subseteq Within(field, e.window)
             /\ \A f \in e.applied : e.counted \subseteq board.filters[f].rows
             /\ \A f \in Active(board) :
                    e.counted \subseteq board.filters[f].rows \/ f \in e.notApplicable

(* The rows a window and a set of filters leave of a report.               *)
Narrowed(p) ==
    {r \in p.among \cap Passing(board.report.own) :
        /\ \A f \in p.applied : r \in board.filters[f].rows
        /\ LET window == Resolve(board.range, p.day)
           IN p.timeRangeApplied /\ ~board.panel.ignores /\ window # Nothing =>
                r \in Within(DateField(board, board.panel), window)}

(* An embedded report shows its own rows, less those that the filters and  *)
(* the window it lists take away, and every other filter with a value is   *)
(* named as not applicable.  The exception: conditions joined by OR are    *)
(* joined by AND as soon as the dashboard adds one, and rows go that       *)
(* nothing on the dashboard accounts for.                                  *)
PanelAccountsForItsRows ==
    panel # Nothing =>
        /\ panel.rows \subseteq Narrowed(panel)
        /\ panel.rows # Narrowed(panel) =>
               board.report.own.op = "or" /\ \E c, d \in board.report.own.children : c # d
        /\ ~board.panel.ignoresFilters => panel.applied \cup panel.notApplicable = Active(board)

(* What the docstrings promise without the exceptions: _combine, "AND the  *)
(* panel's own filters together with the dashboard's" ...                  *)
PanelIsTheReportNarrowed == panel # Nothing => panel.rows = Narrowed(panel)

(* ... and "every panel reports its own truth": a number that states a     *)
(* window is not of rows outside of it, by whichever date.                 *)
StatesWhatItMeasured ==
    \A i \in DOMAIN cards :
        cards[i].window # Nothing => \E t \in Tables : cards[i].counted \subseteq Within(t, cards[i].window)

(* "Which is what 'of total' has to mean to be a share": more than the     *)
(* whole only if rows went between the two queries.                        *)
ShareIsPart ==
    \A i \in DOMAIN cards :
        cards[i].caption = "total" =>
            cards[i].counted \cap cards[i].baseAmong \subseteq cards[i].base

=============================================================================
