---------------------------- MODULE JoinPlanner ----------------------------
(***************************************************************************)
(* From the tables of a report to a join tree: JoinPlanner.plan of         *)
(* domain/report/join_planner.py, with the joins the report declares or    *)
(* without any.                                                            *)
(*                                                                         *)
(* A relationship of the registry is an edge [id, left, right, cost]; a    *)
(* declared join names two tables, the relationship whose columns it uses  *)
(* (on) and, perhaps, a relationship id.  The search (_shortest_paths,     *)
(* _walk_back) is a loop of steps like the rest.                           *)
(***************************************************************************)
EXTENDS Naturals, Sequences, SequencesExt, FiniteSets

CONSTANTS
    Tables, Root,
    Inputs,    \* [registry, selected, declared]: the edges, the sequence of the tables
               \* to connect without the root, the sequence of declared joins, if any
    MaxJoins,  \* EngineOptions.max_joins
    MaxWalk    \* the depth at which _walk_back gives up

\* A walk that is given up is longer than a plan may be; edge ids are unique;
\* every join costs something; no table is asked for twice.
ASSUME BoundsAssumption ==
    /\ IsFiniteSet(Tables) /\ Root \in Tables
    /\ MaxJoins \in Nat /\ MaxWalk \in Nat /\ MaxJoins <= MaxWalk
ASSUME InputsAssumption ==
    \A in \in Inputs :
        /\ IsFiniteSet(in.registry)
        /\ \A e \in in.registry : /\ e.left \in Tables /\ e.right \in Tables /\ e.left # e.right
                                  /\ e.cost \in Nat \ {0}
        /\ \A e, f \in in.registry : f.id = e.id => f = e
        /\ in.selected \in Seq(Tables \ {Root})
        /\ \A i, k \in DOMAIN in.selected : in.selected[i] = in.selected[k] => i = k
        /\ in.declared \in Seq(Range(in.declared))
        /\ \A j \in Range(in.declared) : j.left \in Tables /\ j.right \in Tables

VARIABLES
    registry, selected, declared,  \* what the planner is given
    pc,                            \* "explicit", "auto", "search", "walk", "place", "check" or "done"
    placed,                        \* tables of the tree
    steps,                         \* JoinPlan.steps: [from, to, edge]
    pending, pass, progress,       \* declared joins left, left in this pass, any placed in it
    outstanding,                   \* tables still to connect
    dist, pred, visited, todo,     \* a search: distances, ways in, and the steps from the
                                   \* table visited last that it has not looked at
    target, walks,                 \* the table a round goes for, the walks back from it
    path,                          \* the rest of the path to place
    diag                           \* codes of the diagnostics

given == << registry, selected, declared >>
tree  == << placed, steps >>
lists == << pending, pass, progress >>
found == << dist, pred, visited, todo >>
back  == << target, walks >>
vars  == << given, pc, tree, lists, outstanding, found, back, path, diag >>

Warnings == {"circular_join"}
Errors   == {"no_join_path", "ambiguous_join_path", "unrelated_table", "too_many_joins"}

-----------------------------------------------------------------------------
(* Edges and the steps along them (_PathEdge, JoinStep).                   *)

Connects(e, a, b) == {e.left, e.right} = {a, b}
EdgesFor(t)       == {e \in registry : t \in {e.left, e.right}}
OtherSide(e, t)   == IF t = e.left THEN e.right ELSE e.left
Step(from, to, e) == [from |-> from, to |-> to, edge |-> e]
Arc(e, t)         == Step(t, OtherSide(e, t), e)

-----------------------------------------------------------------------------
(* Declared joins.                                                         *)

Matches(j) ==
    LET named == {e \in registry : e.id = j.id}
    IN  IF named # {} THEN named
        ELSE {e \in registry : e.id = j.on /\ Connects(e, j.left, j.right)}

Orientations(j) ==
    {o \in {<< j.left, j.right >>, << j.right, j.left >>} : o[1] \in placed /\ o[2] \notin placed}

-----------------------------------------------------------------------------
NoSearch == /\ dist = [t \in {} |-> 0] /\ pred = [t \in Tables |-> {}]
            /\ visited = {} /\ todo = {}

Init ==
    /\ \E in \in Inputs :
          registry = in.registry /\ selected = in.selected /\ declared = in.declared
    /\ pc = IF declared = << >> THEN "auto" ELSE "explicit"
    /\ placed = {Root} /\ steps = << >>
    /\ pending = declared /\ pass = << >> /\ progress = TRUE
    /\ outstanding = Range(selected)
    /\ NoSearch /\ target = Root /\ walks = {} /\ path = << >>
    /\ diag = {}

BeginPass ==
    /\ pc = "explicit" /\ pass = << >> /\ pending # << >> /\ progress
    /\ pass' = pending /\ progress' = FALSE
    /\ UNCHANGED << given, pc, tree, pending, outstanding, found, back, path, diag >>

\* A join neither of whose sides leads out of the tree waits for the next pass.
PassOver ==
    /\ pc = "explicit" /\ pass # << >>
    /\ Orientations(Head(pass)) = {}
    /\ pass' = Tail(pass)
    /\ UNCHANGED << given, pc, tree, pending, progress, outstanding, found, back, path, diag >>

PlaceJoin ==
    /\ pc = "explicit" /\ pass # << >>
    /\ LET j == Head(pass)
       IN  \E o \in Orientations(j) :
              IF Matches(j) = {}
              THEN diag' = diag \cup {"no_join_path"} /\ UNCHANGED tree
              ELSE /\ \E e \in Matches(j) : steps' = Append(steps, Step(o[1], o[2], e))
                   /\ placed' = placed \cup {o[2]}
                   /\ UNCHANGED diag
    /\ pending' = RemoveFirst(pending, Head(pass))
    /\ pass' = Tail(pass) /\ progress' = TRUE
    /\ UNCHANGED << given, pc, outstanding, found, back, path >>

EndExplicit ==
    /\ pc = "explicit" /\ pass = << >> /\ (pending = << >> \/ ~progress)
    /\ diag' = diag \cup (IF pending # << >> THEN {"circular_join"} ELSE {})
                    \cup (IF Range(selected) \subseteq placed THEN {} ELSE {"unrelated_table"})
    /\ pc' = "check"
    /\ UNCHANGED << given, tree, lists, outstanding, found, back, path >>

-----------------------------------------------------------------------------
(* A round of _plan_automatically: Dijkstra from all placed tables at      *)
(* once, keeping every way in that is on a cheapest path.                  *)

BeginSearch ==
    /\ pc = "auto" /\ outstanding # {}
    /\ dist' = [t \in placed |-> 0]
    /\ pc' = "search"
    /\ UNCHANGED << given, tree, lists, outstanding, pred, visited, todo, back, path, diag >>

Visit ==
    /\ pc = "search" /\ todo = {}
    /\ \E t \in DOMAIN dist \ visited :
          /\ \A u \in DOMAIN dist \ visited : dist[t] <= dist[u]
          /\ visited' = visited \cup {t}
          /\ todo' = {Arc(e, t) : e \in EdgesFor(t)}
    /\ UNCHANGED << given, pc, tree, lists, outstanding, dist, pred, back, path, diag >>

Reach(a)   == dist[a.from] + a.edge.cost
Shorter(a) == a.to \in DOMAIN dist => Reach(a) < dist[a.to]
AsShort(a) == /\ Reach(a) = dist[a.to] /\ a.to \notin placed
              /\ \A p \in pred[a.to] : p.edge.id # a.edge.id

\* Deviation: an equally good way in is not kept.
Relax_FirstOnly ==
    /\ pc = "search"
    /\ \E a \in todo :
          /\ todo' = todo \ {a}
          /\ IF Shorter(a)
             THEN /\ dist' = [t \in DOMAIN dist \cup {a.to} |->
                                IF t = a.to THEN Reach(a) ELSE dist[t]]
                  /\ pred' = [pred EXCEPT ![a.to] = {a}]
             ELSE UNCHANGED << dist, pred >>
    /\ UNCHANGED << given, pc, tree, lists, outstanding, visited, back, path, diag >>

Relax ==
    /\ pc = "search"
    /\ \E a \in todo :
          /\ todo' = todo \ {a}
          /\ IF Shorter(a)
             THEN /\ dist' = [t \in DOMAIN dist \cup {a.to} |->
                                IF t = a.to THEN Reach(a) ELSE dist[t]]
                  /\ pred' = [pred EXCEPT ![a.to] = {a}]
             ELSE /\ pred' = IF AsShort(a) THEN [pred EXCEPT ![a.to] = @ \cup {a}] ELSE pred
                  /\ UNCHANGED dist
    /\ UNCHANGED << given, pc, tree, lists, outstanding, visited, back, path, diag >>

Searched == pc = "search" /\ todo = {} /\ visited = DOMAIN dist
Forget   == /\ dist' = [t \in {} |-> 0] /\ pred' = [t \in Tables |-> {}]
            /\ visited' = {} /\ UNCHANGED todo

\* Deviation: tables that cannot be reached are left out without a word.
NoPath_Quiet ==
    /\ Searched /\ outstanding \cap DOMAIN dist = {}
    /\ pc' = "check" /\ Forget
    /\ UNCHANGED << given, tree, lists, outstanding, back, path, diag >>

NoPath ==
    /\ Searched /\ outstanding \cap DOMAIN dist = {}
    /\ diag' = diag \cup {"no_join_path"}
    /\ pc' = "check" /\ Forget
    /\ UNCHANGED << given, tree, lists, outstanding, back, path >>

\* The nearest table, and of equally near ones the first of the list.
Before(t, u) ==
    \A i, k \in DOMAIN selected : selected[i] = t /\ selected[k] = u => i <= k
Nearest(t) ==
    \A u \in outstanding \cap DOMAIN dist : 
        dist[t] < dist[u] \/ (dist[t] = dist[u] /\ Before(t, u))

Aim ==
    /\ Searched
    /\ \E t \in outstanding \cap DOMAIN dist : Nearest(t) /\ target' = t
    /\ walks' = {<< >>}
    /\ pc' = "walk"
    /\ UNCHANGED << given, tree, lists, outstanding, found, path, diag >>

\* A walk is what a call of _walk_back has behind it, from where it is to the target.
At(w)       == IF w = << >> THEN target ELSE w[1].from
Complete(w) == At(w) \in placed \/ Len(w) > MaxWalk

WalkBack ==
    /\ pc = "walk"
    /\ \E w \in walks :
          /\ ~ Complete(w)
          /\ walks' = (walks \ {w}) \cup {<< a >> \o w : a \in pred[At(w)]}
    /\ UNCHANGED << given, pc, tree, lists, outstanding, found, target, path, diag >>

\* The table is connected by one of the walks; whether there were several is reported.
Choose ==
    /\ pc = "walk"
    /\ \A w \in walks : Complete(w)
    /\ \E w \in walks :
          /\ path' = w
          /\ diag' = diag \cup (IF walks = {w} THEN {} ELSE {"ambiguous_join_path"})
    /\ target' = Root /\ walks' = {} /\ Forget
    /\ pc' = "place"
    /\ UNCHANGED << given, tree, lists, outstanding >>

PlaceEdge ==
    /\ pc = "place" /\ path # << >>
    /\ IF Head(path).to \in placed THEN UNCHANGED tree
       ELSE steps' = Append(steps, Head(path)) /\ placed' = placed \cup {Head(path).to}
    /\ path' = Tail(path)
    /\ UNCHANGED << given, pc, lists, outstanding, found, back, diag >>

EndRound ==
    /\ pc = "place" /\ path = << >>
    /\ outstanding' = outstanding \ placed
    /\ pc' = "auto"
    /\ UNCHANGED << given, tree, lists, found, back, path, diag >>

EndAuto ==
    /\ pc = "auto" /\ outstanding = {}
    /\ pc' = "check"
    /\ UNCHANGED << given, tree, lists, outstanding, found, back, path, diag >>

-----------------------------------------------------------------------------
CheckSize ==
    /\ pc = "check"
    /\ diag' = diag \cup (IF Len(steps) > MaxJoins THEN {"too_many_joins"} ELSE {})
    /\ pc' = "done"
    /\ UNCHANGED << given, tree, lists, outstanding, found, back, path >>

\* Nothing is left to do once the plan is returned.
Returned == pc = "done" /\ UNCHANGED vars

Next ==
    \/ BeginPass \/ PassOver \/ PlaceJoin \/ EndExplicit
    \/ BeginSearch \/ Visit \/ Relax \/ NoPath \/ Aim
    \/ WalkBack \/ Choose \/ PlaceEdge \/ EndRound \/ EndAuto
    \/ CheckSize \/ Returned

Spec == Init /\ [][Next]_vars

-----------------------------------------------------------------------------
(* Properties.                                                             *)

Accepted == pc = "done" /\ diag \cap Errors = {}

\* A step goes along a relationship of its two tables, unless a declared join
\* names another: the planner does not look at which tables that one is of.
Along(s) ==
    /\ s.edge \in registry
    /\ Connects(s.edge, s.from, s.to) \/ \E j \in Range(declared) : j.id = s.edge.id

\* A plan that is not refused is a tree that grows from the root along
\* registered relationships, reaches every selected table and, when the user
\* declared the joins and no loop was reported, uses all of them.
UsablePlan ==
    Accepted =>
        /\ \A i \in DOMAIN steps :
              LET before == {Root} \cup {steps[k].to : k \in 1 .. (i - 1)}
              IN  /\ steps[i].from \in before /\ steps[i].to \notin before
                  /\ Along(steps[i])
        /\ Range(selected) \subseteq {Root} \cup {s.to : s \in Range(steps)}
        /\ (declared # << >> /\ diag = {}) => Len(steps) = Len(declared)

\* The reference for a search: every route from the tree to a table.
Arcs == {Arc(e, e.left) : e \in registry} \cup {Arc(e, e.right) : e \in registry}
Routes(t) ==
    UNION {{p \in [1 .. k -> Arcs] :
              /\ p[1].from \in placed /\ p[k].to = t
              /\ \A i \in 1 .. k : p[i].to \notin placed
              /\ \A i \in 1 .. (k - 1) : p[i].to = p[i + 1].from
              /\ \A i, j \in 1 .. k : p[i].to = p[j].to => i = j}
           : k \in 1 .. Cardinality(Tables \ placed)}
Length(p) ==
    LET upTo[i \in 0 .. Len(p)] == IF i = 0 THEN 0 ELSE upTo[i - 1] + p[i].edge.cost
    IN  upTo[Len(p)]
Cheapest(t) == {p \in Routes(t) : \A q \in Routes(t) : Length(p) <= Length(q)}

\* Whatever path the planner takes without asking was the only cheapest way to
\* join its table, and no other table was nearer (_shortest_paths keeps every
\* optimal path so that the caller can see there are several).  A walk that
\* was given up leads to a plan that is refused.
OnlyForcedJoins ==
    [][(pc = "walk" /\ pc' = "place" /\ "ambiguous_join_path" \notin diag' /\ Len(path') <= MaxWalk) =>
          \E t \in outstanding :
              /\ Cheapest(t) = {path'}
              /\ \A u \in outstanding : \A q \in Cheapest(u) : Length(path') <= Length(q)]_vars

=============================================================================
