-------------------------- MODULE FanoutCorrection --------------------------
(***************************************************************************)
(* What a report with aggregates computes: the annotated join tree         *)
(* (join_planner.py), the strategy chosen for each branch (fanout.py) and  *)
(* the rows the compiled statement returns (compiler.py), compared with    *)
(* the figures counted from the joined rows, each record once.             *)
(*                                                                         *)
(* Tables hold the rows 1 .. N; 0 stands for NULL.  A filter on a table    *)
(* keeps the rows numbered 1.  COUNT, SUM and AVG of a table's column are  *)
(* functions of how often each of its rows enters, which is what a figure  *)
(* is here; a NULL total is taken for an empty one.                        *)
(***************************************************************************)
EXTENDS Naturals, Sequences, FiniteSets

CONSTANTS
    Tables,     \* tables a report may use
    Root,       \* its primary table
    N           \* rows per table

Rows  == 1 .. N
Steps == [from : Tables, to : Tables, many : BOOLEAN, inner : BOOLEAN]
Definitions == [plain     : SUBSET Tables,  \* tables with a raw or grouping column
                agg       : SUBSET Tables,  \* tables with an aggregated column
                filter    : SUBSET Tables,  \* tables with a filter condition
                any       : BOOLEAN,        \* the conditions are joined by OR
                corrected : BOOLEAN]        \* disable_fanout_correction is off
NoReport    == [plain |-> {}, agg |-> {}, filter |-> {}, any |-> FALSE, corrected |-> TRUE]

VARIABLES
    plan, report,    \* the resolved report and its join tree
    stage,           \* how far engine.build and the execution have come
    fans, branchOf,  \* JoinPlan.fans_out and branch_of
    strategy,        \* Branch.strategy, for each branch of the root
    warned,          \* FANOUT_INFLATION is among the diagnostics
    db,              \* the links between the rows of the tables
    result           \* the rows the statement returned

vars == << plan, report, stage, fans, branchOf, strategy, warned, db, result >>

-----------------------------------------------------------------------------
(* The annotated plan and its branches.                                    *)

Strategies == {"none", "pre_aggregate", "semi_join", "detail", "prune"}
Touched(rep) == rep.plain \cup rep.agg \cup rep.filter

PlanSteps  == {plan[i] : i \in DOMAIN plan}
Targets(S) == {s.to : s \in S}
Placed     == {Root} \cup Targets(PlanSteps)

\* The tables that steps of S lead to from t.
Reached(S, t) ==
    {u \in Tables : \A C \in SUBSET Tables :
                      (t \in C /\ \A s \in S : s.from \in C => s.to \in C) => u \in C}
Below(t) == Reached(PlanSteps, t)

Branches == Targets({s \in PlanSteps : s.from = Root})

FansOut  == [t \in Tables |-> \E s \in PlanSteps : s.many /\ t \in Below(s.to)]
BranchOf == [t \in Tables |-> IF \E b \in Branches : t \in Below(b)
                              THEN CHOOSE b \in Branches : t \in Below(b) ELSE t]

BranchTables(b) == {t \in Placed \ {Root} : branchOf[t] = b}
RootStep(b)     == CHOOSE s \in PlanSteps : s.to = b
Multiplies(b)   == \E t \in BranchTables(b) : fans[t]
Uses(b, S)      == BranchTables(b) \cap S # {}

Choose(b) ==
    IF ~Multiplies(b) \/ ~report.corrected \/ Uses(b, report.plain) THEN "detail"
    ELSE IF Uses(b, report.agg) THEN "pre_aggregate"
    ELSE IF Uses(b, report.filter) THEN "semi_join"
    ELSE IF report.agg = {} THEN "detail" ELSE "prune"

\* The tables of the branches that are not joined as they are.
Handled == UNION {BranchTables(b) : b \in {c \in Branches : strategy[c] # "detail"}}

-----------------------------------------------------------------------------
(* Joins over rows: a joined row is a function from tables to row numbers. *)

Links == [Tables \ {Root} -> [Rows -> 0 .. N]]

Only(t, v) == [u \in Tables |-> IF u = t THEN v ELSE 0]

\* The rows on the far side of s that match row p of the near side.
Matching(s, d, p) ==
    {c \in Rows : p # 0 /\ IF s.many THEN d[s.to][c] = p ELSE d[s.to][p] = c}

\* What a LEFT JOIN, or an INNER JOIN, along s makes of a row.
Linked(s, d, r) ==
    LET far == Matching(s, d, r[s.from])
    IN  IF far = {} THEN r[s.to] = 0 /\ ~s.inner ELSE r[s.to] \in far

Filled(x, f) == [t \in Tables |-> IF t \in DOMAIN f THEN f[t] ELSE x[t]]

\* The given rows, joined along the steps of S.
Joined(S, d, rows) ==
    {r \in {Filled(x, f) : x \in rows, f \in [Targets(S) -> 0 .. N]} :
        \A s \in S : Linked(s, d, r)}

Kept(r, tables) == \A t \in tables : r[t] = 1

\* An entry is a pair: what it comes through, and the record that enters.
Total(entries)     == [v \in Rows |-> Cardinality({e \in entries : e[2] = v})]
FlatTotal(rows, t) == Total({<< r, r[t] >> : r \in rows})

-----------------------------------------------------------------------------
(* A pre-aggregated branch: one derived table per multiplying edge.        *)

\* Deviation: a nested multiplying edge is joined like any other.
Inline_Flattened(t) == Below(t)

\* The tables at the grain of t.
Inline(t) == Reached({s \in PlanSteps : ~s.many}, t)

\* What agg_<s.to> is taken over for row p of the near side.
Grain(s, d, p) ==
    LET inline == Inline(s.to)
    IN  {r \in Joined({j \in PlanSteps : j.to \in inline \ {s.to}}, d,
                      {Only(s.to, c) : c \in Matching(s, d, p)}) :
            Kept(r, report.filter \cap inline)}

\* The derived tables a figure of t is rolled up through, each named by the
\* step to it, and the one a layer is joined in.
Layers(t)   == {s \in PlanSteps : (s.many \/ s.from = Root) /\ t \in Below(s.to)}
Around(s, t) == CHOOSE o \in Layers(t) : s.from \in Inline(o.to)
Inmost(t)   == CHOOSE o \in Layers(t) : t \in Inline(o.to)

\* The ways into the total of t beside outer row r: a row of each layer, each
\* layer grouped by the key it is joined on.
SubEntries(d, r, t) ==
    {e \in [Layers(t) -> UNION {Grain(s, d, p) : s \in Layers(t), p \in Rows}] :
        \A s \in Layers(t) :
            e[s] \in Grain(s, d, IF s.from = Root THEN r[Root] ELSE e[Around(s, t)][s.from])}

\* SUM(agg.key) over a group of outer rows.
BranchTotal(rows, d, t) ==
    Total(UNION {{<< << r, e >>, e[Inmost(t)][t] >> : e \in SubEntries(d, r, t)} : r \in rows})

-----------------------------------------------------------------------------
(* The outer statement.                                                    *)

RootRows == {Only(Root, v) : v \in Rows}

FromRows(d) == Joined({s \in PlanSteps : s.to \notin Handled}, d, RootRows)

Combined(r, tables) ==
    \/ tables = {}
    \/ IF report.any THEN \E t \in tables : r[t] = 1 ELSE Kept(r, tables)

Where(r) == Combined(r, report.filter \ Handled)

Exists(r, d) ==
    \A b \in {c \in Branches : strategy[c] = "semi_join"} :
        \E x \in Joined({s \in PlanSteps : s.from \in BranchTables(b)}, d,
                        {Only(b, c) : c \in Matching(RootStep(b), d, r[Root])}) :
            Kept(x, report.filter \cap BranchTables(b))

Key(r) == [t \in report.plain |-> r[t]]

\* GROUP BY the raw columns; without any, one group of everything.
Grouped(rows) == [k \in IF report.plain = {} THEN {<< >>} ELSE {Key(r) : r \in rows} |->
                     {r \in rows : Key(r) = k}]

Answer(d) ==
    LET groups == Grouped({r \in FromRows(d) : Where(r) /\ Exists(r, d)})
    IN  [k \in DOMAIN groups |-> [t \in report.agg |->
            IF t \in Handled THEN BranchTotal(groups[k], d, t) ELSE FlatTotal(groups[k], t)]]

-----------------------------------------------------------------------------
(* The steps of a build and of the execution that follows it.              *)

Init ==
    /\ plan = << >> /\ report = NoReport
    /\ stage = "waiting"
    /\ fans = [t \in Tables |-> FALSE] /\ branchOf = [t \in Tables |-> t]
    /\ strategy = [t \in Tables |-> "none"]
    /\ warned = FALSE
    /\ db = << >> /\ result = << >>

(* The plan the planner made, and the report it was made for.              *)
Take(p) ==
    /\ stage = "waiting"
    /\ plan' = p
    /\ stage' = "planned"
    /\ UNCHANGED << report, fans, branchOf, strategy, warned, db, result >>

Annotate(rep) ==
    /\ stage = "planned"
    /\ report' = rep
    /\ fans' = FansOut /\ branchOf' = BranchOf
    /\ stage' = "annotated"
    /\ UNCHANGED << plan, strategy, warned, db, result >>

Analyze ==
    /\ stage = "annotated"
    /\ strategy' = [t \in Tables |-> IF t \in Branches THEN Choose(t) ELSE "none"]
    /\ warned' = (/\ report.agg # {}
                  /\ \E b \in Branches : Multiplies(b) /\ Choose(b) = "detail")
    /\ stage' = "analysed"
    /\ UNCHANGED << plan, report, fans, branchOf, db, result >>

Execute ==
    /\ stage = "analysed"
    /\ \E d \in Links :
          /\ \A t \in Tables \ Placed : \A v \in Rows : d[t][v] = 0
          /\ db' = d
          /\ result' = Answer(d)
    /\ stage' = "done"
    /\ UNCHANGED << plan, report, fans, branchOf, strategy, warned >>

-----------------------------------------------------------------------------
(* Properties.                                                             *)

\* The reference: join everything, filter, group, and count each record of
\* a table once in a group, however often the joins repeat it.
Truth ==
    LET groups == Grouped({r \in Joined(PlanSteps, db, RootRows) : Combined(r, report.filter)})
    IN  [k \in DOMAIN groups |-> [t \in report.agg |->
            [v \in Rows |-> IF \E r \in groups[k] : r[t] = v THEN 1 ELSE 0]]]

Done    == stage = "done"
Right   == result = Truth

\* Each record of t hangs below exactly one record of every table above it.
OwnedByRoot(t)  == \A s \in PlanSteps : t \in Below(s.to) => s.many
\* INNER joins, which somebody has to ask for, are outside corrected branches.
InnerApart      == \A s \in PlanSteps : s.inner => ~Multiplies(branchOf[s.to])
\* A filter shares its branch with no aggregated column.
FiltersApart    == \A t \in report.filter \ {Root} :
                       Multiplies(branchOf[t]) => ~Uses(branchOf[t], report.agg)

\* A report that carries no inflation warning shows, for every group, the
\* figures counted from the records: whatever branches it mixes and however
\* deep they multiply, each record enters its total once (fanout.py,
\* compiler.py _aggregate_subtree).  Its aggregated tables hang from the root
\* by one-to-many edges, and its filters, all required, stand apart from them.
HonestTotals ==
    (/\ Done /\ ~warned
     /\ \A t \in report.agg : OwnedByRoot(t)
     /\ InnerApart
     /\ FiltersApart /\ (report.any => Cardinality(report.filter) <= 1)) => Right

\* What ARCHITECTURE.md says of every report: when the rewriting is not
\* possible, a warning and never quietly wrong numbers.  (No filters here, and
\* nothing but optional joins in the multiplying branches.)
NoSilentInflation ==
    (Done /\ ~warned /\ report.filter = {} /\ InnerApart) => Right

=============================================================================
