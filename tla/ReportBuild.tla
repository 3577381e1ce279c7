---------------------------- MODULE ReportBuild ----------------------------
(***************************************************************************)
(* ReportEngine.build of domain/report/engine.py: the tables of a resolved *)
(* report go through the join planner, the tree it returns through the     *)
(* fan-out analysis and the compiler, and the statement is run.  An error  *)
(* among the diagnostics of a stage ends the build.                        *)
(***************************************************************************)
EXTENDS JoinPlanner

CONSTANTS
    Reports,   \* what a report selects, filters and groups by
    Kinds,     \* [many, inner]: a relationship's cardinality seen from the tree, and its join
    N          \* rows per table

VARIABLES plan, report, stage, fans, branchOf, strategy, warned, db, result

F == INSTANCE FanoutCorrection

ASSUME ReportsAssumption ==
    Reports \subseteq F!Definitions /\ \A rep \in Reports : rep.agg # {}
ASSUME KindsAssumption ==
    Kinds \subseteq [many : BOOLEAN, inner : BOOLEAN]
ASSUME RowsAssumption == N \in Nat

buildVars == << plan, report, stage, fans, branchOf, strategy, warned, db, result >>

-----------------------------------------------------------------------------
BuildInit == Init /\ F!Init

Plan == Next /\ UNCHANGED buildVars

(* The planner looks at tables and costs only: what kind of join a         *)
(* relationship makes shows when the step is annotated.  What the planner  *)
(* worked with ends with its call.  The report is one of those with just   *)
(* these tables.                                                           *)
Annotated(kinds) ==
    [i \in DOMAIN steps |-> [from |-> steps[i].from, to |-> steps[i].to,
                             many |-> kinds[i].many, inner |-> kinds[i].inner]]
Ordered  == {rep \in Reports : F!Touched(rep) \ {Root} = Range(selected)}
HandOver ==
    /\ Accepted /\ Ordered # {}
    /\ \E kinds \in [DOMAIN steps -> Kinds] : F!Take(Annotated(kinds))
    /\ pc' = "returned"
    /\ registry' = {} /\ declared' = << >> /\ placed' = {} /\ steps' = << >>
    /\ pending' = << >> /\ pass' = << >> /\ progress' = FALSE
    /\ outstanding' = {} /\ diag' = {}
    /\ UNCHANGED << selected, found, back, path >>

Compile ==
    /\ \/ /\ stage = "planned"
          /\ \E rep \in Ordered : F!Annotate(rep)
          /\ selected' = << >>
       \/ (F!Analyze \/ F!Execute) /\ UNCHANGED selected
    /\ UNCHANGED << registry, declared, pc, tree, lists, outstanding, found, back, path, diag >>

Answered == stage = "done" /\ UNCHANGED << vars, buildVars >>

BuildNext == Plan \/ HandOver \/ Compile \/ Answered

BuildSpec == BuildInit /\ [][BuildNext]_<< vars, buildVars >>

-----------------------------------------------------------------------------
(* See FanoutCorrection.                                                   *)
HonestTotals      == F!HonestTotals
NoSilentInflation == F!NoSilentInflation

=============================================================================
