-------------------------- MODULE ReportBuildProofs --------------------------
(***************************************************************************)
(* Proofs about a build, for every registry, list of tables, list of       *)
(* declared joins, report and database.                                    *)
(*                                                                         *)
(* Of the planner: a plan that is not refused is a tree from the root that *)
(* reaches what was selected, and a path taken without asking is the only  *)
(* cheapest one.  Of the statement: without a warning, it shows the        *)
(* figures counted from the records.                                       *)
(***************************************************************************)
EXTENDS ReportBuild, FiniteSetTheorems, WellFoundedInduction, TLAPS

(* ------------------------- The invariant ------------------------------- *)

(* A step of the tree.                                                     *)
Links == {x \in [from : Tables, to : Tables, edge : registry] : Along(x)}

TypeOK ==
    /\ \E in \in Inputs : registry = in.registry /\ selected = in.selected /\ declared = in.declared
    /\ pc \in {"explicit", "auto", "search", "walk", "place", "check", "done"}
    /\ placed \subseteq Tables /\ Root \in placed
    /\ steps \in Seq(Links)
    /\ pending \in Seq(Range(declared)) /\ pass \in Seq(Range(declared)) /\ progress \in BOOLEAN
    /\ outstanding \subseteq Tables
    /\ DOMAIN dist \subseteq Tables /\ dist \in [DOMAIN dist -> Nat]
    /\ pred \in [Tables -> SUBSET Arcs]
    /\ visited \subseteq DOMAIN dist /\ todo \subseteq Arcs
    /\ target \in Tables /\ walks \subseteq Seq(Arcs) /\ path \in Seq(Arcs)
    /\ diag \subseteq Warnings \cup Errors

Chained(s) == \A i \in 1 .. (Len(s) - 1) : s[i].to = s[i + 1].from
TooLong    == Len(steps) + Len(path) > MaxWalk

(* The tree and the path that is being added to it.                        *)
GrowsFromRoot ==
    \A i \in DOMAIN steps :
        LET before == {Root} \cup {steps[k].to : k \in 1 .. (i - 1)}
        IN  steps[i].from \in before /\ steps[i].to \notin before

TreeOK ==
    /\ placed = {Root} \cup {steps[k].to : k \in DOMAIN steps}
    /\ TooLong \/ GrowsFromRoot
    /\ path # << >> => pc = "place"
    /\ \A i \in DOMAIN path : path[i].to \notin placed
    /\ \A i, k \in DOMAIN path : path[i].to = path[k].to => i = k
    /\ TooLong \/ (Chained(path) /\ (path # << >> => path[1].from \in placed))

(* A pass is what is left of the declared joins, each at its own place.    *)
Left(f) == /\ f \in [DOMAIN pass -> DOMAIN pending]
           /\ \A i \in DOMAIN pass : pending[f[i]] = pass[i]
           /\ \A i, k \in DOMAIN pass : f[i] = f[k] => i = k
DeclaredOK ==
    declared # << >> =>
        /\ pc \in {"explicit", "check", "done"}
        /\ pc = "explicit" => \E f \in [DOMAIN pass -> DOMAIN pending] : Left(f)
        /\ "no_join_path" \notin diag => Len(steps) + Len(pending) = Len(declared)
        /\ pc # "explicit" => /\ pending # << >> => "circular_join" \in diag
                              /\ Range(selected) \subseteq placed \/ "unrelated_table" \in diag

AutoOK ==
    declared = << >> =>
        /\ pc # "explicit"
        /\ Range(selected) \subseteq placed \cup outstanding
        /\ pc \in {"auto", "search", "walk"} => outstanding \cap placed = {}
        /\ pc \in {"check", "done"} => outstanding = {} \/ "no_join_path" \in diag

SizeOK == pc = "done" => Len(steps) <= MaxJoins \/ "too_many_joins" \in diag

(* Dijkstra's search: no table is nearer than a visited one; every step    *)
(* out of a visited table has been looked at, or is about to be; pred has  *)
(* the ways in that are tight, and those only.                             *)
FoundOK ==
    /\ placed \subseteq DOMAIN dist /\ \A t \in placed : dist[t] = 0
    /\ \A u \in visited, v \in DOMAIN dist \ visited : dist[u] <= dist[v]
    /\ \A a \in todo : a.from \in visited /\ \A u \in visited : dist[u] <= dist[a.from]
    /\ \A a \in Arcs : a.from \in visited /\ a \notin todo =>
          /\ a.to \in DOMAIN dist /\ dist[a.to] <= Reach(a)
          /\ dist[a.to] = Reach(a) /\ a.to \notin placed => a \in pred[a.to]
    /\ \A t \in Tables : \A a \in pred[t] :
          /\ a.to = t /\ t \in DOMAIN dist /\ t \notin placed
          /\ a.from \in visited /\ dist[t] = Reach(a)
SearchOK ==
    IF pc \in {"search", "walk"} THEN FoundOK ELSE NoSearch

(* The walks back: each is the end of a cheapest path, and no cheapest     *)
(* path is without the walk that is its end.                               *)
Way(w) ==
    /\ \A i \in DOMAIN w : w[i] \in pred[w[i].to]
    /\ w # << >> => w[Len(w)].to = target
    /\ Chained(w)
Nearer(w) == \A i, k \in DOMAIN w : i < k => dist[w[i].to] < dist[w[k].to]
Ends(w, q) == Len(w) <= Len(q) /\ \A i \in DOMAIN w : w[i] = q[Len(q) - Len(w) + i]
WalkOK ==
    pc = "walk" =>
        /\ todo = {} /\ visited = DOMAIN dist
        /\ target \in outstanding \cap DOMAIN dist
        /\ \A u \in outstanding \cap DOMAIN dist : dist[target] <= dist[u]
        /\ \A w \in walks : Way(w) /\ Nearer(w)
NoWayLost ==
    pc = "walk" =>
        \A q \in Seq(Arcs) : (Way(q) /\ q # << >> /\ q[1].from \in placed) =>
            \E w \in walks : Ends(w, q)

IInv == /\ TypeOK /\ TreeOK /\ DeclaredOK /\ AutoOK /\ SizeOK
        /\ SearchOK /\ WalkOK /\ NoWayLost

(* ------------------------- Numbers ------------------------------------- *)

LEMMA LeastNatural ==
    ASSUME NEW S \in SUBSET Nat, S # {}
    PROVE  \E x \in S : \A y \in S : x =< y
<1> DEFINE R == {ss \in Nat \X Nat : ss[1] < ss[2]}
<1>1. IsWellFoundedOn(R, Nat)
  BY NatLessThanWellFounded DEF OpToRel
<1>2. PICK x \in S : \A y \in S : ~(<<y, x>> \in R)
  <2> HIDE DEF R
  <2> QED
    BY <1>1, WFMin
<1>3. ASSUME NEW i \in Nat, NEW j \in Nat, i < j PROVE <<i, j>> \in R
  BY <1>3
<1> HIDE DEF R
<1>4. ASSUME NEW y \in S PROVE x =< y
  <2>1. x \in Nat /\ y \in Nat
    OBVIOUS
  <2>2. ~(<<y, x>> \in R)
    BY <1>2
  <2>3. ~(y < x)
    BY <1>3, <2>1, <2>2
  <2> QED
    BY <2>1, <2>3
<1> QED
  BY <1>4

(* ------------------------- What is given ------------------------------- *)

LEMMA Given ==
    ASSUME TypeOK
    PROVE  /\ IsFiniteSet(registry)
           /\ \A e \in registry : /\ e.left \in Tables /\ e.right \in Tables /\ e.left # e.right
                                  /\ e.cost \in Nat \ {0}
           /\ \A e, f \in registry : f.id = e.id => f = e
           /\ selected \in Seq(Tables \ {Root})
           /\ \A i, k \in DOMAIN selected : selected[i] = selected[k] => i = k
           /\ declared \in Seq(Range(declared))
           /\ \A j \in Range(declared) : j.left \in Tables /\ j.right \in Tables
BY InputsAssumption DEF TypeOK

LEMMA ArcType ==
    ASSUME TypeOK, NEW a \in Arcs
    PROVE  /\ a = Step(a.from, a.to, a.edge)
           /\ a.from \in Tables /\ a.to \in Tables /\ a.from # a.to
           /\ a.edge \in registry /\ a.edge.cost \in Nat /\ a.edge.cost > 0
           /\ Connects(a.edge, a.from, a.to)
<1>1. PICK e \in registry : a = Arc(e, e.left) \/ a = Arc(e, e.right)
  BY DEF Arcs
<1>2. e.left \in Tables /\ e.right \in Tables /\ e.left # e.right /\ e.cost \in Nat \ {0}
  BY Given
<1> QED
  BY <1>1, <1>2 DEF Arc, Step, OtherSide, Connects

LEMMA ArcsFrom ==
    ASSUME TypeOK, NEW t
    PROVE  {Arc(e, t) : e \in EdgesFor(t)} = {a \in Arcs : a.from = t}
<1>1. ASSUME NEW e \in EdgesFor(t) PROVE Arc(e, t) \in Arcs /\ Arc(e, t).from = t
  BY DEF EdgesFor, Arcs, Arc, Step
<1>2. ASSUME NEW a \in Arcs, a.from = t PROVE \E e \in EdgesFor(t) : a = Arc(e, t)
  <2>1. PICK e \in registry : a = Arc(e, e.left) \/ a = Arc(e, e.right)
    BY DEF Arcs
  <2> QED
    BY <1>2, <2>1 DEF EdgesFor, Arc, Step
<1> QED
  BY <1>1, <1>2

LEMMA ArcsSame == given' = given => Arcs' = Arcs /\ Links' = Links
BY DEF given, Arcs, Arc, Step, OtherSide, Links, Along

(* What is placed is a step of the tree, whether it was searched for or    *)
(* declared.                                                               *)
LEMMA ArcIsLink ==
    ASSUME TypeOK, NEW a \in Arcs
    PROVE  a \in Links
BY ArcType DEF Links, Along, Step

LEMMA DeclaredIsLink ==
    ASSUME TypeOK, NEW j \in Range(declared), NEW o \in Orientations(j), NEW e \in Matches(j)
    PROVE  Step(o[1], o[2], e) \in Links
<1>1. o[1] \in Tables /\ o[2] \in Tables
  BY Given DEF Orientations
<1>2. e \in registry /\ (e.id = j.id \/ Connects(e, j.left, j.right))
  BY DEF Matches
<1>3. e.id = j.id \/ Connects(e, o[1], o[2])
  BY <1>2 DEF Orientations, Connects
<1> QED
  BY <1>1, <1>2, <1>3 DEF Links, Along, Step

(* ------------------------- Types --------------------------------------- *)

LEMMA TailType ==
    ASSUME NEW S, NEW s \in Seq(S), s # << >>
    PROVE  /\ Head(s) \in S /\ Tail(s) \in Seq(S) /\ Head(s) = s[1]
           /\ Len(s) \in Nat \ {0} /\ Len(Tail(s)) = Len(s) - 1
           /\ \A i \in 1 .. Len(s) - 1 : Tail(s)[i] = s[i + 1]
           /\ DOMAIN s = 1 .. Len(s) /\ DOMAIN Tail(s) = 1 .. Len(s) - 1
OBVIOUS

LEMMA RemoveOne ==
    ASSUME NEW S, NEW s \in Seq(S), NEW x, \E h \in 1 .. Len(s) : s[h] = x
    PROVE  \E k \in 1 .. Len(s) :
              /\ s[k] = x /\ \A h \in 1 .. Len(s) : s[h] = x => k =< h
              /\ RemoveFirst(s, x) \in Seq(S)
              /\ Len(RemoveFirst(s, x)) = Len(s) - 1
              /\ \A i \in 1 .. (Len(s) - 1) :
                    RemoveFirst(s, x)[i] = IF i < k THEN s[i] ELSE s[i + 1]
<1> DEFINE I == {i \in 1 .. Len(s) : s[i] = x}
           k == Min(I)
<1>1. I \in SUBSET Nat /\ I # {}
  OBVIOUS
<1>2. k \in I /\ \A i \in I : k =< i
  <2>1. \E m \in I : \A i \in I : m =< i
    BY <1>1, LeastNatural
  <2> HIDE DEF I
  <2> QED
    BY <2>1 DEF Min
<1>3. RemoveFirst(s, x) = RemoveAt(s, k)
  BY DEF RemoveFirst, SelectInSeq
<1>4. k \in 1 .. Len(s) /\ s[k] = x /\ \A h \in 1 .. Len(s) : s[h] = x => k =< h
  BY <1>1, <1>2
<1> HIDE DEF k, I
<1> DEFINE l == SubSeq(s, 1, k - 1)
           r == SubSeq(s, k + 1, Len(s))
<1>5. l \in Seq(S) /\ Len(l) = k - 1 /\ \A i \in 1 .. k - 1 : l[i] = s[i]
  BY <1>4
<1>6. r \in Seq(S) /\ Len(r) = Len(s) - k /\ \A i \in 1 .. Len(s) - k : r[i] = s[k + i]
  BY <1>4
<1>7. RemoveAt(s, k) = l \o r
  BY DEF RemoveAt
<1> HIDE DEF l, r
<1>8. l \o r \in Seq(S) /\ Len(l \o r) = Len(s) - 1
  <2>1. l \o r \in Seq(S) /\ Len(l \o r) = Len(l) + Len(r)
    BY <1>5, <1>6
  <2>2. Len(s) \in Nat /\ k \in Nat /\ (k - 1) + (Len(s) - k) = Len(s) - 1
    BY <1>4
  <2> QED
    BY <2>1, <2>2, <1>5, <1>6
<1>9. ASSUME NEW i \in 1 .. (Len(s) - 1) PROVE (l \o r)[i] = IF i < k THEN s[i] ELSE s[i + 1]
  <2>1. CASE i < k
    BY <2>1, <1>4, <1>5, <1>6
  <2>2. CASE ~(i < k)
    <3>1. (l \o r)[i] = r[i - (k - 1)]
      BY <2>2, <1>4, <1>5, <1>6
    <3>2. i - (k - 1) \in 1 .. Len(s) - k /\ k + (i - (k - 1)) = i + 1
      BY <2>2, <1>4
    <3> QED
      BY <3>1, <3>2, <1>6, <2>2
  <2> QED
    BY <2>1, <2>2
<1> QED
  BY <1>3, <1>4, <1>7, <1>8, <1>9

LEMMA RemoveType ==
    ASSUME NEW S, NEW s \in Seq(S), NEW x
    PROVE  RemoveFirst(s, x) \in Seq(S)
<1>1. CASE \E i \in 1 .. Len(s) : s[i] = x
  BY <1>1, RemoveOne
<1>2. CASE ~ \E i \in 1 .. Len(s) : s[i] = x
  BY <1>2 DEF RemoveFirst
<1> QED
  BY <1>1, <1>2

LEMMA InitIInv == Init => IInv
<1> SUFFICES ASSUME Init PROVE IInv
  OBVIOUS
<1>1. PICK in \in Inputs : registry = in.registry /\ selected = in.selected /\ declared = in.declared
  BY DEF Init
<1>2. selected \in Seq(Tables \ {Root}) /\ declared \in Seq(Range(declared))
  BY <1>1, InputsAssumption
<1>3. Range(selected) \subseteq Tables \ {Root}
  BY <1>2 DEF Range
<1>4. TypeOK
  <2>1. << >> \in Seq(Range(declared)) /\ << >> \in Seq(Arcs) /\ << >> \in Seq(Links)
    OBVIOUS
  <2>2. pc \in {"auto", "explicit"} /\ diag = {} /\ todo = {} /\ visited = {} /\ walks = {}
    BY DEF Init, NoSearch
  <2>3. dist = [t \in {} |-> 0] /\ pred = [t \in Tables |-> {}]
    BY DEF Init, NoSearch
  <2>4. DOMAIN dist = {} /\ dist \in [DOMAIN dist -> Nat] /\ pred \in [Tables -> SUBSET Arcs]
    BY <2>3
  <2> QED
    BY <1>1, <1>2, <1>3, <2>1, <2>2, <2>4, BoundsAssumption DEF Init, TypeOK
<1>5. steps = << >> /\ path = << >> /\ placed = {Root} /\ DOMAIN steps = {} /\ DOMAIN path = {}
  BY DEF Init
<1>6. TreeOK
  <2>1. GrowsFromRoot
    BY <1>5 DEF GrowsFromRoot
  <2>2. Chained(path)
    BY <1>5 DEF Chained
  <2> QED
    BY <1>5, <2>1, <2>2 DEF TreeOK
<1>7. DeclaredOK
  <2> SUFFICES ASSUME declared # << >> PROVE DeclaredOK
    BY DEF DeclaredOK
  <2>1. pc = "explicit" /\ pass = << >> /\ pending = declared /\ Len(steps) = 0
    BY <1>5 DEF Init
  <2>2. Left([i \in {} |-> 0]) /\ [i \in {} |-> 0] \in [DOMAIN pass -> DOMAIN pending]
    BY <2>1 DEF Left
  <2>3. Len(steps) + Len(pending) = Len(declared)
    BY <1>2, <2>1
  <2> QED
    BY <2>1, <2>2, <2>3 DEF DeclaredOK
<1>8. AutoOK /\ SizeOK /\ SearchOK /\ WalkOK /\ NoWayLost
  BY <1>3, <1>5 DEF Init, AutoOK, SizeOK, SearchOK, WalkOK, NoWayLost
<1> QED
  BY <1>4, <1>6, <1>7, <1>8 DEF IInv

(* One step of the program, in cases.                                      *)
LEMMA TypeNext == IInv /\ [Next]_vars => TypeOK'
<1> SUFFICES ASSUME IInv, [Next]_vars PROVE TypeOK'
  OBVIOUS
<1> USE DEF vars, given, tree, lists, found, back
<1>0. TypeOK
  BY DEF IInv
<1>a. ASSUME given' = given,
             pc' \in {"explicit", "auto", "search", "walk", "place", "check", "done"},
             placed' \subseteq Tables /\ Root \in placed', steps' \in Seq(Links),
             pending' \in Seq(Range(declared)), pass' \in Seq(Range(declared)), progress' \in BOOLEAN,
             outstanding' \subseteq Tables,
             DOMAIN dist' \subseteq Tables, dist' \in [DOMAIN dist' -> Nat],
             pred' \in [Tables -> SUBSET Arcs], visited' \subseteq DOMAIN dist', todo' \subseteq Arcs,
             target' \in Tables, walks' \subseteq Seq(Arcs), path' \in Seq(Arcs),
             diag' \subseteq Warnings \cup Errors
      PROVE  TypeOK'
  <2>1. Arcs' = Arcs /\ Links' = Links
    BY <1>a, ArcsSame
  <2> QED
    BY <1>0, <1>a, <2>1 DEF TypeOK, Warnings, Errors
<1>f. Forget => /\ DOMAIN dist' \subseteq Tables /\ dist' \in [DOMAIN dist' -> Nat]
                /\ pred' \in [Tables -> SUBSET Arcs] /\ visited' \subseteq DOMAIN dist' /\ todo' \subseteq Arcs
  BY <1>0 DEF Forget, TypeOK
<1>1. CASE BeginPass
  BY <1>0, <1>a, <1>1 DEF BeginPass, TypeOK
<1>2. CASE PassOver
  <2>1. Tail(pass) \in Seq(Range(declared))
    BY <1>0, <1>2, TailType DEF PassOver, TypeOK
  <2> QED
    BY <1>0, <1>a, <1>2, <2>1 DEF PassOver, TypeOK
<1>3. CASE PlaceJoin
  <2>1. Tail(pass) \in Seq(Range(declared)) /\ Head(pass) \in Range(declared)
    BY <1>0, <1>3, TailType DEF PlaceJoin, TypeOK
  <2>2. RemoveFirst(pending, Head(pass)) \in Seq(Range(declared))
    BY <1>0, RemoveType DEF TypeOK
  <2>3. placed' \subseteq Tables /\ Root \in placed' /\ steps' \in Seq(Links) /\ diag' \subseteq Warnings \cup Errors
    <3> DEFINE j == Head(pass)
    <3>1. PICK o \in Orientations(j) :
              IF Matches(j) = {}
              THEN diag' = diag \cup {"no_join_path"} /\ UNCHANGED tree
              ELSE /\ \E e \in Matches(j) : steps' = Append(steps, Step(o[1], o[2], e))
                   /\ placed' = placed \cup {o[2]}
                   /\ UNCHANGED diag
      BY <1>3 DEF PlaceJoin
    <3>2. CASE Matches(j) = {}
      BY <1>0, <3>1, <3>2 DEF TypeOK, Errors
    <3>3. CASE Matches(j) # {}
      <4>1. PICK e \in Matches(j) : steps' = Append(steps, Step(o[1], o[2], e))
        BY <3>1, <3>3
      <4>2. Step(o[1], o[2], e) \in Links
        BY <1>0, <2>1, <3>1, DeclaredIsLink
      <4>3. o[2] \in Tables
        BY <4>2 DEF Step, Links
      <4>4. Append(steps, Step(o[1], o[2], e)) \in Seq(Links)
        BY <1>0, <4>2 DEF TypeOK
      <4> QED
        BY <1>0, <3>1, <3>3, <4>1, <4>3, <4>4 DEF TypeOK
    <3> QED
      BY <3>2, <3>3
  <2> QED
    BY <1>0, <1>a, <1>3, <2>1, <2>2, <2>3 DEF PlaceJoin, TypeOK
<1>4. CASE EndExplicit
  BY <1>0, <1>a, <1>4 DEF EndExplicit, TypeOK, Warnings, Errors
<1>5. CASE BeginSearch
  BY <1>0, <1>a, <1>5 DEF BeginSearch, TypeOK, SearchOK, NoSearch, IInv
<1>6. CASE Visit
  <2>1. PICK t \in DOMAIN dist \ visited : visited' = visited \cup {t} /\ todo' = {Arc(e, t) : e \in EdgesFor(t)}
    BY <1>6 DEF Visit
  <2>2. todo' \subseteq Arcs /\ visited' \subseteq DOMAIN dist
    <3>1. todo' = {a \in Arcs : a.from = t}
      BY <1>0, <2>1, ArcsFrom
    <3>2. visited \subseteq DOMAIN dist
      BY <1>0 DEF TypeOK
    <3> QED
      BY <2>1, <3>1, <3>2
  <2> QED
    BY <1>0, <1>a, <1>6, <2>2 DEF Visit, TypeOK
<1>7. CASE Relax
  <2>1. PICK a \in todo :
          /\ todo' = todo \ {a}
          /\ IF Shorter(a)
             THEN /\ dist' = [t \in DOMAIN dist \cup {a.to} |->
                                IF t = a.to THEN Reach(a) ELSE dist[t]]
                  /\ pred' = [pred EXCEPT ![a.to] = {a}]
             ELSE /\ pred' = IF AsShort(a) THEN [pred EXCEPT ![a.to] = @ \cup {a}] ELSE pred
                  /\ UNCHANGED dist
    BY <1>7 DEF Relax
  <2>2. a \in Arcs /\ a.to \in Tables /\ a.edge.cost \in Nat /\ todo' \subseteq Arcs
    BY <1>0, <2>1, ArcType DEF TypeOK
  <2>3. pred' \in [Tables -> SUBSET Arcs]
    <3>1. pred \in [Tables -> SUBSET Arcs]
      BY <1>0 DEF TypeOK
    <3>2. pred' = pred \/ pred' = [pred EXCEPT ![a.to] = {a}] \/ pred' = [pred EXCEPT ![a.to] = @ \cup {a}]
      BY <2>1
    <3> QED
      BY <2>2, <3>1, <3>2
  <2>4. Reach(a) \in Nat
    <3>1. a.from \in DOMAIN dist /\ dist[a.from] \in Nat
      BY <1>0, <2>1, <1>7 DEF TypeOK, SearchOK, FoundOK, IInv, Relax
    <3> QED
      BY <3>1, <2>2 DEF Reach
  <2>5. /\ DOMAIN dist' \subseteq Tables /\ dist' \in [DOMAIN dist' -> Nat]
        /\ visited' \subseteq DOMAIN dist'
    BY <1>0, <1>7, <2>1, <2>2, <2>4 DEF TypeOK, Relax
  <2> QED
    BY <1>0, <1>a, <1>7, <2>2, <2>3, <2>5 DEF Relax, TypeOK
<1>8. CASE NoPath
  BY <1>0, <1>a, <1>f, <1>8 DEF NoPath, TypeOK, Errors
<1>9. CASE Aim
  <2>1. target' \in Tables /\ walks' \subseteq Seq(Arcs)
    BY <1>0, <1>9 DEF Aim, TypeOK
  <2> QED
    BY <1>0, <1>a, <1>9, <2>1 DEF Aim, TypeOK
<1>10. CASE WalkBack
  <2>1. PICK w \in walks : ~Complete(w) /\ walks' = (walks \ {w}) \cup {<< a >> \o w : a \in pred[At(w)]}
    BY <1>10 DEF WalkBack
  <2>2. w \in Seq(Arcs)
    BY <1>0, <2>1 DEF TypeOK
  <2>3. At(w) \in Tables
    <3>1. CASE w = << >>
      BY <1>0, <3>1 DEF At, TypeOK
    <3>2. CASE w # << >>
      BY <1>0, <2>2, <3>2, ArcType DEF At
    <3> QED
      BY <3>1, <3>2
  <2>4. ASSUME NEW a \in pred[At(w)] PROVE << a >> \o w \in Seq(Arcs)
    <3>1. a \in Arcs
      BY <1>0, <2>3 DEF TypeOK
    <3> QED
      BY <2>2, <3>1
  <2>5. walks' \subseteq Seq(Arcs)
    BY <1>0, <2>1, <2>4 DEF TypeOK
  <2> QED
    BY <1>0, <1>a, <1>10, <2>5 DEF WalkBack, TypeOK
<1>11. CASE Choose
  <2>1. path' \in Seq(Arcs) /\ diag' \subseteq Warnings \cup Errors
    BY <1>0, <1>11 DEF Choose, TypeOK, Errors
  <2> QED
    BY <1>0, <1>a, <1>f, <1>11, <2>1, BoundsAssumption DEF Choose, TypeOK
<1>12. CASE PlaceEdge
  <2>1. Head(path) \in Arcs /\ Tail(path) \in Seq(Arcs)
    BY <1>0, <1>12, TailType DEF PlaceEdge, TypeOK
  <2>2. Head(path).to \in Tables /\ Head(path) \in Links
    BY <1>0, <2>1, ArcType, ArcIsLink
  <2>3. placed' \subseteq Tables /\ Root \in placed' /\ steps' \in Seq(Links)
    <3>1. CASE Head(path).to \in placed
      BY <1>0, <1>12, <3>1 DEF PlaceEdge, TypeOK
    <3>2. CASE Head(path).to \notin placed
      <4>1. steps' = Append(steps, Head(path)) /\ placed' = placed \cup {Head(path).to}
        BY <1>12, <3>2 DEF PlaceEdge
      <4>2. steps \in Seq(Links) /\ placed \subseteq Tables /\ Root \in placed
        BY <1>0 DEF TypeOK
      <4> QED
        BY <2>1, <2>2, <4>1, <4>2
    <3> QED
      BY <3>1, <3>2
  <2> QED
    BY <1>0, <1>a, <1>12, <2>1, <2>3 DEF PlaceEdge, TypeOK
<1>13. CASE EndRound
  BY <1>0, <1>a, <1>13 DEF EndRound, TypeOK
<1>14. CASE EndAuto
  BY <1>0, <1>a, <1>14 DEF EndAuto, TypeOK
<1>15. CASE CheckSize
  BY <1>0, <1>a, <1>15 DEF CheckSize, TypeOK, Errors
<1>16. CASE UNCHANGED vars
  BY <1>0, <1>a, <1>16 DEF TypeOK
<1> QED
  BY <1>1, <1>2, <1>3, <1>4, <1>5, <1>6, <1>7, <1>8, <1>9, <1>10, <1>11, <1>12, <1>13, <1>14,
     <1>15, <1>16 DEF Next, Returned

(* ------------------------- The tree ------------------------------------ *)

LEMMA AppendType ==
    ASSUME NEW S, NEW s \in Seq(S), NEW x \in S
    PROVE  /\ Append(s, x) \in Seq(S) /\ Len(Append(s, x)) = Len(s) + 1 /\ Len(s) \in Nat
           /\ DOMAIN s = 1 .. Len(s) /\ DOMAIN Append(s, x) = 1 .. Len(s) + 1
           /\ \A i \in 1 .. Len(s) : Append(s, x)[i] = s[i]
           /\ Append(s, x)[Len(s) + 1] = x
OBVIOUS

LEMMA Extended ==
    ASSUME TypeOK, placed = {Root} \cup {steps[k].to : k \in DOMAIN steps},
           NEW x \in Links, steps' = Append(steps, x), placed' = placed \cup {x.to}
    PROVE  /\ placed' = {Root} \cup {steps'[k].to : k \in DOMAIN steps'}
           /\ GrowsFromRoot /\ x.from \in placed /\ x.to \notin placed => GrowsFromRoot'
           /\ Len(steps') = Len(steps) + 1
<1> DEFINE n == Len(steps)
<1>1. /\ Len(steps') = n + 1 /\ n \in Nat /\ DOMAIN steps = 1 .. n /\ DOMAIN steps' = 1 .. n + 1
      /\ \A i \in 1 .. n : steps'[i] = steps[i]
      /\ steps'[n + 1] = x
  BY AppendType DEF TypeOK
<1> HIDE DEF n
<1>2. placed' = {Root} \cup {steps'[k].to : k \in DOMAIN steps'}
  BY <1>1
<1>3. ASSUME GrowsFromRoot, x.from \in placed, x.to \notin placed, NEW i \in DOMAIN steps'
      PROVE  LET before == {Root} \cup {steps'[k].to : k \in 1 .. (i - 1)}
             IN  steps'[i].from \in before /\ steps'[i].to \notin before
  <2>1. CASE i = n + 1
    <3>1. {steps'[k].to : k \in 1 .. (i - 1)} = {steps[k].to : k \in DOMAIN steps}
      BY <1>1, <2>1
    <3> QED
      BY <1>1, <1>3, <2>1, <3>1
  <2>2. CASE i \in 1 .. n
    <3>1. {steps'[k].to : k \in 1 .. (i - 1)} = {steps[k].to : k \in 1 .. (i - 1)}
      BY <1>1, <2>2
    <3> QED
      BY <1>1, <1>3, <2>2, <3>1 DEF GrowsFromRoot
  <2> QED
    BY <1>1, <1>3, <2>1, <2>2
<1>4. GrowsFromRoot /\ x.from \in placed /\ x.to \notin placed => GrowsFromRoot'
  <2> SUFFICES ASSUME GrowsFromRoot, x.from \in placed, x.to \notin placed PROVE GrowsFromRoot'
    OBVIOUS
  <2>1. \A i \in DOMAIN steps' :
            LET before == {Root} \cup {steps'[k].to : k \in 1 .. (i - 1)}
            IN  steps'[i].from \in before /\ steps'[i].to \notin before
    BY <1>3
  <2> QED
    BY <2>1 DEF GrowsFromRoot
<1>5. Len(steps') = Len(steps) + 1
  BY <1>1 DEF n
<1> QED
  BY <1>2, <1>4, <1>5

LEMMA TailShift ==
    ASSUME NEW S, NEW s \in Seq(S), s # << >>
    PROVE  \E n \in Nat : /\ Len(s) = n + 1 /\ Len(Tail(s)) = n
                          /\ DOMAIN s = 1 .. n + 1 /\ DOMAIN Tail(s) = 1 .. n
                          /\ \A i \in 1 .. n : Tail(s)[i] = s[i + 1]
<1> DEFINE n == Len(s) - 1
<1>1. n \in Nat /\ Len(s) = n + 1
  BY TailType
<1>2. Len(Tail(s)) = n /\ DOMAIN Tail(s) = 1 .. n /\ \A i \in 1 .. n : Tail(s)[i] = s[i + 1]
  BY TailType
<1>3. DOMAIN s = 1 .. Len(s)
  OBVIOUS
<1> HIDE DEF n
<1> QED
  BY <1>1, <1>2, <1>3

LEMMA TreeNext == IInv /\ TypeOK' /\ [Next]_vars => TreeOK'
<1> SUFFICES ASSUME IInv, TypeOK', [Next]_vars PROVE TreeOK'
  OBVIOUS
<1> USE DEF vars, given, tree, lists, found, back
<1>0. TypeOK /\ TreeOK
  BY DEF IInv
<1>s. Len(steps) \in Nat /\ Len(path) \in Nat /\ MaxWalk \in Nat
  BY <1>0, BoundsAssumption DEF TypeOK
<1>a. ASSUME steps' = steps, placed' = placed, path' = path, path # << >> => pc' = "place"
      PROVE  TreeOK'
  BY <1>0, <1>a DEF TreeOK, TooLong, GrowsFromRoot, Chained
<1>b. pc # "place" => path = << >>
  BY <1>0 DEF TreeOK
<1>1a. CASE BeginPass
  BY <1>1a, <1>a, <1>b DEF BeginPass
<1>1b. CASE PassOver
  BY <1>1b, <1>a, <1>b DEF PassOver
<1>1c. CASE EndExplicit
  BY <1>1c, <1>a, <1>b DEF EndExplicit
<1>1d. CASE BeginSearch
  BY <1>1d, <1>a, <1>b DEF BeginSearch
<1>1e. CASE Visit
  BY <1>1e, <1>a, <1>b DEF Visit
<1>1f. CASE Relax
  BY <1>1f, <1>a, <1>b DEF Relax
<1>1g. CASE NoPath
  BY <1>1g, <1>a, <1>b DEF NoPath, Searched
<1>1h. CASE Aim
  BY <1>1h, <1>a, <1>b DEF Aim, Searched
<1>1i. CASE WalkBack
  BY <1>1i, <1>a, <1>b DEF WalkBack
<1>1j. CASE EndAuto
  BY <1>1j, <1>a, <1>b DEF EndAuto
<1>1k. CASE CheckSize
  BY <1>1k, <1>a, <1>b DEF CheckSize
<1>2a. CASE EndRound
  BY <1>2a, <1>a DEF EndRound
<1>2b. CASE UNCHANGED vars
  BY <1>0, <1>a, <1>2b DEF TreeOK
<1>3. CASE PlaceJoin
  <2>1. path = << >> /\ path' = path
    BY <1>3, <1>b DEF PlaceJoin
  <2>2. PICK o \in Orientations(Head(pass)) :
              IF Matches(Head(pass)) = {}
              THEN diag' = diag \cup {"no_join_path"} /\ UNCHANGED tree
              ELSE /\ \E e \in Matches(Head(pass)) : steps' = Append(steps, Step(o[1], o[2], e))
                   /\ placed' = placed \cup {o[2]}
                   /\ UNCHANGED diag
    BY <1>3 DEF PlaceJoin
  <2>3. CASE Matches(Head(pass)) = {}
    BY <1>a, <2>1, <2>2, <2>3
  <2>4. CASE Matches(Head(pass)) # {}
    <3>1. PICK e \in Matches(Head(pass)) : steps' = Append(steps, Step(o[1], o[2], e))
      BY <2>2, <2>4
    <3> DEFINE x == Step(o[1], o[2], e)
    <3>2. x.from \in placed /\ x.to \notin placed /\ placed' = placed \cup {x.to}
      BY <2>2, <2>4 DEF Orientations, Step
    <3>3. steps' = Append(steps, x) /\ x \in Links
      <4>1. Head(pass) \in Range(declared)
        BY <1>0, <1>3, TailType DEF PlaceJoin, TypeOK
      <4> QED
        BY <1>0, <2>2, <3>1, <4>1, DeclaredIsLink
    <3> HIDE DEF x
    <3>4. /\ placed' = {Root} \cup {steps'[k].to : k \in DOMAIN steps'}
          /\ GrowsFromRoot => GrowsFromRoot'
          /\ Len(steps') = Len(steps) + 1
      BY <1>0, <3>2, <3>3, Extended DEF TreeOK
    <3>5. TooLong => TooLong'
      BY <2>1, <3>4, <1>s DEF TooLong
    <3>6. DOMAIN path' = {} /\ Chained(path')
      BY <2>1 DEF Chained
    <3> QED
      BY <1>0, <2>1, <3>4, <3>5, <3>6 DEF TreeOK
  <2> QED
    BY <2>3, <2>4
<1>4. CASE Choose
  <2>1. PICK w \in walks : path' = w /\ Complete(w)
    BY <1>4 DEF Choose
  <2>2. pc = "walk" /\ pc' = "place" /\ placed' = placed /\ steps' = steps
    BY <1>4 DEF Choose
  <2>3. Way(w) /\ Nearer(w) /\ target \notin placed /\ w \in Seq(Arcs) /\ FoundOK
    <3>1. declared = << >>
      BY <2>2 DEF IInv, DeclaredOK
    <3>2. target \notin placed
      BY <2>2, <3>1 DEF IInv, WalkOK, AutoOK
    <3> QED
      BY <2>1, <2>2, <3>2, <1>0 DEF IInv, WalkOK, SearchOK, TypeOK
  <2>4. \A i \in DOMAIN w : w[i] \in Arcs /\ w[i].to \notin placed /\ w[i].to \in DOMAIN dist
    <3>1. \A i \in DOMAIN w : w[i] \in Arcs /\ w[i].to \in Tables
      BY <1>0, <2>3, ArcType
    <3> QED
      BY <2>3, <3>1 DEF Way, FoundOK
  <2>5. \A i, k \in DOMAIN w : w[i].to = w[k].to => i = k
    <3>1. DOMAIN w \subseteq Nat
      BY <2>3
    <3>2. \A i \in DOMAIN w : dist[w[i].to] \in Nat
      BY <1>0, <2>4 DEF TypeOK
    <3>3. \A i, k \in DOMAIN w : i < k => w[i].to # w[k].to
      BY <2>3, <3>2 DEF Nearer
    <3> QED
      BY <3>1, <3>3
  <2>6. w # << >> /\ (w[1].from \in placed \/ Len(w) > MaxWalk)
    BY <2>1, <2>3, <1>s DEF Complete, At
  <2>7. Len(steps) + Len(w) > MaxWalk \/ w[1].from \in placed
    BY <2>3, <2>6, <1>s
  <2>8. TooLong => Len(steps) + Len(w) > MaxWalk
    BY <1>b, <1>s, <2>2, <2>3 DEF TooLong
  <2> QED
    BY <1>0, <2>1, <2>2, <2>3, <2>4, <2>5, <2>6, <2>7, <2>8 DEF TreeOK, TooLong, GrowsFromRoot, Way
<1>5. CASE PlaceEdge
  <2> DEFINE x == Head(path)
  <2>1. /\ x \in Links /\ x = path[1] /\ path # << >> /\ path' = Tail(path)
    BY <1>0, <1>5, TailType, ArcIsLink DEF PlaceEdge, TypeOK
  <2>n. PICK n \in Nat : /\ Len(path) = n + 1 /\ Len(path') = n
                         /\ DOMAIN path = 1 .. n + 1 /\ DOMAIN path' = 1 .. n
                         /\ \A i \in 1 .. n : path'[i] = path[i + 1]
    BY <1>0, <2>1, TailShift DEF TypeOK
  <2>2. x.to \notin placed
    <3>1. 1 \in 1 .. n + 1
      OBVIOUS
    <3> HIDE DEF x
    <3> QED
      BY <1>0, <2>1, <2>n, <3>1 DEF TreeOK
  <2>3. steps' = Append(steps, x) /\ placed' = placed \cup {x.to} /\ pc' = "place"
    BY <1>0, <1>5, <2>2 DEF PlaceEdge, TreeOK
  <2> HIDE DEF x
  <2>4. /\ placed' = {Root} \cup {steps'[k].to : k \in DOMAIN steps'}
        /\ GrowsFromRoot /\ x.from \in placed /\ x.to \notin placed => GrowsFromRoot'
        /\ Len(steps') = Len(steps) + 1
    BY <1>0, <2>1, <2>3, Extended DEF TreeOK
  <2>5. TooLong' <=> TooLong
    <3>1. Len(steps) + (n + 1) = (Len(steps) + 1) + n
      BY <1>s
    <3> QED
      BY <2>n, <2>4, <3>1 DEF TooLong
  <2>6. TooLong' \/ (GrowsFromRoot' /\ Chained(path') /\ (path' # << >> => path'[1].from \in placed'))
    <3> SUFFICES ASSUME ~TooLong PROVE GrowsFromRoot' /\ Chained(path') /\ (path' # << >> => path'[1].from \in placed')
      BY <2>5
    <3>1. GrowsFromRoot /\ x.from \in placed
      BY <1>0, <2>1 DEF TreeOK
    <3>2. \A i \in 1 .. n : path[i].to = path[i + 1].from
      <4>1. (n + 1) - 1 = n
        OBVIOUS
      <4> QED
        BY <1>0, <2>n, <4>1 DEF TreeOK, Chained
    <3>3. ASSUME NEW i \in 1 .. (n - 1) PROVE path'[i].to = path'[i + 1].from
      <4>1. i + 1 \in 1 .. n /\ i \in 1 .. n
        OBVIOUS
      <4> QED
        BY <2>n, <3>2, <4>1
    <3>4. ASSUME path' # << >> PROVE path'[1].from \in placed'
      <4>1. n # 0
        <5>1. path' \in Seq(Arcs')
          BY DEF TypeOK
        <5> QED
          BY <2>n, <3>4, <5>1
      <4>2. 1 \in 1 .. n /\ 1 + 1 = 2
        BY <4>1
      <4>3. path'[1] = path[2] /\ path[1].to = path[2].from
        BY <2>n, <3>2, <4>2
      <4> QED
        BY <2>1, <2>3, <4>3
    <3> QED
      BY <2>2, <2>4, <2>n, <3>1, <3>3, <3>4 DEF Chained
  <2>7. \A i \in DOMAIN path' : path'[i].to \notin placed'
    <3> SUFFICES ASSUME NEW i \in 1 .. n PROVE path'[i].to \notin placed'
      BY <2>n
    <3>1. i + 1 \in 1 .. n + 1 /\ 1 \in 1 .. n + 1 /\ i + 1 # 1
      OBVIOUS
    <3>2. path[i + 1].to # path[1].to /\ path[i + 1].to \notin placed
      BY <1>0, <2>n, <3>1 DEF TreeOK
    <3> QED
      BY <2>1, <2>3, <2>n, <3>2
  <2>8. \A i, k \in DOMAIN path' : path'[i].to = path'[k].to => i = k
    <3> SUFFICES ASSUME NEW i \in 1 .. n, NEW k \in 1 .. n, path'[i].to = path'[k].to PROVE i = k
      BY <2>n
    <3>1. i + 1 \in 1 .. n + 1 /\ k + 1 \in 1 .. n + 1
      OBVIOUS
    <3>2. i + 1 = k + 1
      BY <1>0, <2>n, <3>1 DEF TreeOK
    <3> QED
      BY <3>2
  <2> QED
    BY <2>3, <2>4, <2>6, <2>7, <2>8 DEF TreeOK
<1> QED
  BY <1>1a, <1>1b, <1>1c, <1>1d, <1>1e, <1>1f, <1>1g, <1>1h, <1>1i, <1>1j, <1>1k,
     <1>2a, <1>2b, <1>3, <1>4, <1>5 DEF Next, Returned

(* ------------------------- Declared joins ------------------------------ *)

LEMMA DeclaredNext == IInv /\ TypeOK' /\ [Next]_vars => DeclaredOK'
<1> SUFFICES ASSUME IInv, TypeOK', [Next]_vars, declared' # << >> PROVE DeclaredOK'
  BY DEF DeclaredOK
<1> USE DEF vars, given, tree, lists, found, back
<1>0. TypeOK /\ DeclaredOK
  BY DEF IInv
<1>1. declared' = declared /\ selected' = selected
  BY DEF Next, BeginPass, PassOver, PlaceJoin, EndExplicit, BeginSearch, Visit, Relax, NoPath, Aim,
         WalkBack, Choose, PlaceEdge, EndRound, EndAuto, CheckSize, Returned
<1>2. pc \in {"explicit", "check", "done"} /\ declared # << >>
  BY <1>0, <1>1 DEF DeclaredOK
<1>3. CASE BeginPass
  <2>1. pc = "explicit" /\ pc' = pc /\ pass' = pending /\ pending' = pending /\ steps' = steps /\ diag' = diag
    BY <1>3 DEF BeginPass
  <2> DEFINE f == [i \in DOMAIN pending |-> i]
  <2>2. f \in [DOMAIN pass' -> DOMAIN pending'] /\ Left(f)'
    BY <2>1 DEF Left
  <2> QED
    BY <1>0, <1>1, <2>1, <2>2 DEF DeclaredOK
<1>4. CASE PassOver
  <2>1. pc = "explicit" /\ pc' = pc /\ pass # << >> /\ pass' = Tail(pass) /\ pending' = pending /\ steps' = steps /\ diag' = diag
    BY <1>4 DEF PassOver
  <2>2. PICK n \in Nat : /\ Len(pass) = n + 1 /\ Len(pass') = n
                         /\ DOMAIN pass = 1 .. n + 1 /\ DOMAIN pass' = 1 .. n
                         /\ \A i \in 1 .. n : pass'[i] = pass[i + 1]
    BY <1>0, <2>1, TailShift DEF TypeOK
  <2>3. PICK f \in [DOMAIN pass -> DOMAIN pending] : Left(f)
    BY <1>0, <1>2, <2>1 DEF DeclaredOK
  <2>4. \A i \in 1 .. n : i + 1 \in 1 .. n + 1
    OBVIOUS
  <2> DEFINE g == [i \in 1 .. n |-> f[i + 1]]
  <2>5. g \in [DOMAIN pass' -> DOMAIN pending']
    BY <2>1, <2>2, <2>3, <2>4
  <2>6. \A i \in 1 .. n : pending[g[i]] = pass'[i]
    BY <2>2, <2>3, <2>4 DEF Left
  <2>7. ASSUME NEW i \in 1 .. n, NEW k \in 1 .. n, g[i] = g[k] PROVE i = k
    <3>1. i + 1 = k + 1
      BY <2>2, <2>3, <2>4, <2>7 DEF Left
    <3> QED
      BY <3>1
  <2>8. Left(g)'
    <3> HIDE DEF g
    <3> QED
      BY <2>1, <2>2, <2>5, <2>6, <2>7 DEF Left
  <2> HIDE DEF g
  <2> QED
    BY <1>0, <1>1, <2>1, <2>5, <2>8 DEF DeclaredOK
<1>5. CASE PlaceJoin
  <2> DEFINE x == Head(pass)
  <2>1. pc = "explicit" /\ pc' = pc /\ pass # << >> /\ pass' = Tail(pass) /\ pending' = RemoveFirst(pending, x)
    BY <1>5 DEF PlaceJoin
  <2>2. PICK n \in Nat : /\ Len(pass) = n + 1 /\ Len(pass') = n
                         /\ DOMAIN pass = 1 .. n + 1 /\ DOMAIN pass' = 1 .. n
                         /\ \A i \in 1 .. n : pass'[i] = pass[i + 1]
    BY <1>0, <2>1, TailShift DEF TypeOK
  <2>3. PICK f \in [DOMAIN pass -> DOMAIN pending] : Left(f)
    BY <1>0, <1>2, <2>1 DEF DeclaredOK
  <2>4. x = pass[1] /\ pending \in Seq(Range(declared))
    BY <1>0, <2>1, TailType DEF TypeOK
  <2> HIDE DEF x
  <2>5. PICK m \in Nat : m = Len(pending) /\ DOMAIN pending = 1 .. m
    BY <2>4
  <2>6. 1 \in DOMAIN pass /\ f[1] \in 1 .. m /\ pending[f[1]] = x
    BY <2>2, <2>3, <2>4, <2>5 DEF Left
  <2>7. PICK k \in 1 .. f[1] :
              /\ pending[k] = x
              /\ Len(pending') = m - 1
              /\ pending' \in Seq(Range(declared))
              /\ \A i \in 1 .. (m - 1) :
                    pending'[i] = IF i < k THEN pending[i] ELSE pending[i + 1]
    <3>1. \E h \in 1 .. Len(pending) : pending[h] = x
      BY <2>5, <2>6
    <3>2. PICK k \in 1 .. Len(pending) :
              /\ pending[k] = x /\ \A h \in 1 .. Len(pending) : pending[h] = x => k =< h
              /\ RemoveFirst(pending, x) \in Seq(Range(declared))
              /\ Len(RemoveFirst(pending, x)) = Len(pending) - 1
              /\ \A i \in 1 .. (Len(pending) - 1) :
                    RemoveFirst(pending, x)[i] = IF i < k THEN pending[i] ELSE pending[i + 1]
      BY <2>4, <3>1, RemoveOne
    <3>3. k \in 1 .. f[1]
      BY <2>5, <2>6, <3>2
    <3> QED
      BY <2>1, <2>5, <3>2, <3>3
  <2>8. k \in 1 .. m /\ DOMAIN pending' = 1 .. m - 1
    <3>1. m - 1 \in Nat
      BY <2>6
    <3> QED
      BY <2>6, <2>7, <3>1
  (* A join that stood where one of the same was removed has the place of  *)
  (* the one that was placed; those behind move up.                        *)
  <2> DEFINE at(i) == IF f[i + 1] = k THEN f[1] ELSE f[i + 1]
             g == [i \in 1 .. n |-> IF at(i) < k THEN at(i) ELSE at(i) - 1]
  <2>9. ASSUME NEW i \in 1 .. n
        PROVE  /\ at(i) \in 1 .. m /\ at(i) # k /\ pending[at(i)] = pass'[i]
               /\ i + 1 \in DOMAIN pass /\ i + 1 # 1
    <3>1. i + 1 \in DOMAIN pass /\ i + 1 # 1
      BY <2>2
    <3>2. f[i + 1] \in 1 .. m /\ pending[f[i + 1]] = pass'[i] /\ f[i + 1] # f[1]
      BY <2>2, <2>3, <2>5, <2>6, <3>1 DEF Left
    <3> QED
      BY <2>6, <2>7, <3>1, <3>2
  <2>10. ASSUME NEW i \in 1 .. n, NEW j \in 1 .. n, at(i) = at(j) PROVE i = j
    <3>1. f[i + 1] = f[j + 1] \/ f[i + 1] = f[1] \/ f[j + 1] = f[1]
      BY <2>10
    <3>2. i + 1 \in DOMAIN pass /\ j + 1 \in DOMAIN pass /\ i + 1 # 1 /\ j + 1 # 1
      BY <2>9
    <3>3. i + 1 = j + 1
      BY <2>3, <2>6, <3>1, <3>2 DEF Left
    <3> QED
      BY <3>3
  <2> HIDE DEF at
  <2>11. ASSUME NEW i \in 1 .. n
         PROVE  g[i] \in 1 .. m - 1 /\ pending'[g[i]] = pass'[i]
    <3>1. at(i) \in 1 .. m /\ at(i) # k /\ k \in 1 .. m
      BY <2>8, <2>9
    <3>2. CASE at(i) < k
      <4>1. g[i] = at(i) /\ g[i] \in 1 .. m - 1
        BY <3>1, <3>2
      <4> QED
        BY <2>7, <2>9, <3>2, <4>1
    <3>3. CASE ~(at(i) < k)
      <4>1. g[i] = at(i) - 1 /\ g[i] \in 1 .. m - 1 /\ ~(g[i] < k) /\ g[i] + 1 = at(i)
        BY <3>1, <3>3
      <4> QED
        BY <2>7, <2>9, <4>1
    <3> QED
      BY <3>2, <3>3
  <2>12. ASSUME NEW i \in 1 .. n, NEW j \in 1 .. n, g[i] = g[j] PROVE i = j
    <3>1. at(i) \in 1 .. m /\ at(i) # k /\ at(j) \in 1 .. m /\ at(j) # k /\ k \in 1 .. m
      BY <2>8, <2>9
    <3>2. at(i) = at(j)
      BY <3>1, <2>12
    <3> QED
      BY <2>10, <3>2
  <2>13. g \in [DOMAIN pass' -> DOMAIN pending']
    <3>1. g = [i \in 1 .. n |-> g[i]]
      OBVIOUS
    <3> HIDE DEF g
    <3> QED
      BY <2>2, <2>8, <2>11, <3>1
  <2>14. Left(g)'
    <3> HIDE DEF g
    <3> QED
      BY <2>2, <2>11, <2>12, <2>13 DEF Left
  <2> HIDE DEF g
  <2>15. "no_join_path" \notin diag' => Len(steps') + Len(pending') = Len(declared)
    <3> SUFFICES ASSUME "no_join_path" \notin diag' PROVE Len(steps') + Len(pending') = Len(declared)
      OBVIOUS
    <3>1. diag' = diag /\ \E o, e : steps' = Append(steps, Step(o[1], o[2], e))
      BY <1>5 DEF PlaceJoin
    <3>2. Len(steps) + m = Len(declared)
      BY <1>0, <1>2, <2>5, <3>1 DEF DeclaredOK
    <3>3. Len(steps') = Len(steps) + 1 /\ Len(steps) \in Nat
      BY <1>0, <3>1 DEF TypeOK
    <3>4. ASSUME NEW l \in Nat PROVE (l + 1) + (m - 1) = l + m
      OBVIOUS
    <3> QED
      BY <2>7, <3>2, <3>3, <3>4
  <2> QED
    BY <1>1, <2>1, <2>13, <2>14, <2>15 DEF DeclaredOK
<1>6. CASE EndExplicit
  BY <1>0, <1>1, <1>2, <1>6 DEF EndExplicit, DeclaredOK
<1>7. CASE CheckSize
  BY <1>0, <1>1, <1>2, <1>7 DEF CheckSize, DeclaredOK
<1>8. CASE UNCHANGED vars
  BY <1>0, <1>8 DEF DeclaredOK, Left
<1> QED
  BY <1>2, <1>3, <1>4, <1>5, <1>6, <1>7, <1>8 DEF Next, Returned, BeginSearch, Visit, Relax, NoPath,
     Searched, Aim, WalkBack, Choose, PlaceEdge, EndRound, EndAuto

(* ------------------------- Without declared joins ---------------------- *)

LEMMA AutoNext == IInv /\ TypeOK' /\ TreeOK' /\ [Next]_vars => AutoOK' /\ SizeOK'
<1> SUFFICES ASSUME IInv, TypeOK', [Next]_vars PROVE AutoOK' /\ SizeOK'
  OBVIOUS
<1> USE DEF vars, given, tree, lists, found, back
<1>0. TypeOK /\ AutoOK /\ SizeOK
  BY DEF IInv
<1>1. CASE BeginPass
  BY <1>0, <1>1 DEF BeginPass, AutoOK, SizeOK
<1>2. CASE PassOver
  BY <1>0, <1>2 DEF PassOver, AutoOK, SizeOK
<1>3. CASE PlaceJoin
  <2>1. declared' = declared /\ pc = "explicit" /\ pc' = "explicit"
    BY <1>3 DEF PlaceJoin
  <2> QED
    BY <1>0, <2>1 DEF AutoOK, SizeOK
<1>4. CASE EndExplicit
  <2>1. declared' = declared /\ pc = "explicit" /\ pc' = "check"
    BY <1>4 DEF EndExplicit
  <2> QED
    BY <1>0, <2>1 DEF AutoOK, SizeOK
<1>5. CASE BeginSearch
  BY <1>0, <1>5 DEF BeginSearch, AutoOK, SizeOK
<1>6. CASE Visit
  BY <1>0, <1>6 DEF Visit, AutoOK, SizeOK
<1>7. CASE Relax
  BY <1>0, <1>7 DEF Relax, AutoOK, SizeOK
<1>8. CASE NoPath
  BY <1>0, <1>8 DEF NoPath, Searched, AutoOK, SizeOK
<1>9. CASE Aim
  BY <1>0, <1>9 DEF Aim, Searched, AutoOK, SizeOK
<1>10. CASE WalkBack
  BY <1>0, <1>10 DEF WalkBack, AutoOK, SizeOK
<1>11. CASE Choose
  BY <1>0, <1>11 DEF Choose, AutoOK, SizeOK
<1>12. CASE PlaceEdge
  <2>1. placed \subseteq placed' /\ pc' = "place" /\ pc = "place" /\ UNCHANGED << declared, selected, outstanding >>
    BY <1>12 DEF PlaceEdge
  <2> QED
    BY <1>0, <2>1 DEF AutoOK, SizeOK
<1>13. CASE EndRound
  BY <1>0, <1>13 DEF EndRound, AutoOK, SizeOK
<1>14. CASE EndAuto
  BY <1>0, <1>14 DEF EndAuto, AutoOK, SizeOK
<1>15. CASE CheckSize
  <2>1. Len(steps) \in Nat /\ MaxJoins \in Nat
    BY <1>0, BoundsAssumption DEF TypeOK
  <2> QED
    BY <1>0, <1>15, <2>1 DEF CheckSize, AutoOK, SizeOK
<1>16. CASE UNCHANGED vars
  BY <1>0, <1>16 DEF AutoOK, SizeOK
<1> QED
  BY <1>1, <1>2, <1>3, <1>4, <1>5, <1>6, <1>7, <1>8, <1>9, <1>10, <1>11, <1>12, <1>13, <1>14,
     <1>15, <1>16 DEF Next, Returned

(* ------------------------- The search ---------------------------------- *)

LEMMA SearchNext == IInv /\ TypeOK' /\ [Next]_vars => SearchOK'
<1> SUFFICES ASSUME IInv, TypeOK', [Next]_vars PROVE SearchOK'
  OBVIOUS
<1> USE DEF vars, given, tree, lists, found, back
<1>0. TypeOK /\ SearchOK
  BY DEF IInv
<1>a. ASSUME UNCHANGED << registry, placed, found >>, pc' \in {"search", "walk"} <=> pc \in {"search", "walk"}
      PROVE  SearchOK'
  <2>1. Arcs' = Arcs
    BY <1>a DEF Arcs, Arc, OtherSide, Step
  <2> QED
    BY <1>0, <1>a, <2>1 DEF SearchOK, FoundOK, NoSearch, Reach
<1>b. ASSUME UNCHANGED found, pc' \notin {"search", "walk"}, pc \notin {"search", "walk"}
      PROVE  SearchOK'
  BY <1>0, <1>b DEF SearchOK, NoSearch
<1>1. CASE BeginPass
  BY <1>1, <1>b DEF BeginPass
<1>2. CASE PassOver
  BY <1>2, <1>b DEF PassOver
<1>3. CASE PlaceJoin
  BY <1>3, <1>b DEF PlaceJoin
<1>4. CASE EndExplicit
  BY <1>4, <1>b DEF EndExplicit
<1>5. CASE BeginSearch
  <2>1. NoSearch /\ dist' = [t \in placed |-> 0] /\ UNCHANGED << placed, pred, visited, todo >> /\ pc' = "search"
    BY <1>0, <1>5 DEF BeginSearch, SearchOK
  <2> QED
    BY <2>1 DEF SearchOK, FoundOK, NoSearch
<1>6. CASE Visit
  <2>1. PICK t \in DOMAIN dist \ visited :
          /\ \A u \in DOMAIN dist \ visited : dist[t] <= dist[u]
          /\ visited' = visited \cup {t}
          /\ todo' = {Arc(e, t) : e \in EdgesFor(t)}
    BY <1>6 DEF Visit
  <2>2. todo = {} /\ FoundOK /\ UNCHANGED << registry, placed, dist, pred >> /\ pc' = "search"
    BY <1>0, <1>6 DEF Visit, SearchOK
  <2>3. todo' = {a \in Arcs : a.from = t} /\ Arcs' = Arcs
    BY <1>0, <2>1, <2>2, ArcsFrom DEF Arcs, Arc, OtherSide, Step
  <2>4. \A u \in DOMAIN dist : dist[u] \in Nat
    BY <1>0 DEF TypeOK
  <2>5. visited \subseteq DOMAIN dist
    BY <1>0 DEF TypeOK
  <2>6. placed' \subseteq DOMAIN dist' /\ \A u \in placed' : dist'[u] = 0
    BY <2>2 DEF FoundOK
  <2>7. \A u \in visited', v \in DOMAIN dist' \ visited' : dist'[u] <= dist'[v]
    BY <2>1, <2>2 DEF FoundOK
  <2>8. \A a \in todo' : a.from \in visited' /\ \A u \in visited' : dist'[u] <= dist'[a.from]
    BY <2>1, <2>2, <2>3, <2>4, <2>5 DEF FoundOK
  <2>9. \A a \in Arcs' : a.from \in visited' /\ a \notin todo' =>
          /\ a.to \in DOMAIN dist' /\ dist'[a.to] <= Reach(a)'
          /\ dist'[a.to] = Reach(a)' /\ a.to \notin placed' => a \in pred'[a.to]
    BY <2>1, <2>2, <2>3 DEF FoundOK, Reach
  <2>10. \A s \in Tables : \A a \in pred'[s] :
          /\ a.to = s /\ s \in DOMAIN dist' /\ s \notin placed'
          /\ a.from \in visited' /\ dist'[s] = Reach(a)'
    BY <2>1, <2>2 DEF FoundOK, Reach
  <2> QED
    BY <2>2, <2>6, <2>7, <2>8, <2>9, <2>10 DEF SearchOK, FoundOK
<1>7. CASE Relax
  <2>1. PICK a \in todo :
          /\ todo' = todo \ {a}
          /\ IF Shorter(a)
             THEN /\ dist' = [t \in DOMAIN dist \cup {a.to} |->
                                IF t = a.to THEN Reach(a) ELSE dist[t]]
                  /\ pred' = [pred EXCEPT ![a.to] = {a}]
             ELSE /\ pred' = IF AsShort(a) THEN [pred EXCEPT ![a.to] = @ \cup {a}] ELSE pred
                  /\ UNCHANGED dist
    BY <1>7 DEF Relax
  <2>2. FoundOK /\ UNCHANGED << registry, placed, visited >> /\ pc' = "search"
    BY <1>0, <1>7 DEF Relax, SearchOK
  <2>3. /\ a \in Arcs /\ a.to \in Tables /\ a.edge.cost \in Nat /\ a.edge.cost > 0 /\ a.from # a.to
        /\ a = Step(a.from, a.to, a.edge) /\ a.edge \in registry
    BY <1>0, <2>1, ArcType DEF TypeOK
  <2>4. Arcs' = Arcs
    BY <2>2 DEF Arcs, Arc, OtherSide, Step
  <2>5. \A u \in DOMAIN dist : dist[u] \in Nat
    BY <1>0 DEF TypeOK
  <2>6. visited \subseteq DOMAIN dist /\ DOMAIN dist \subseteq Tables /\ pred \in [Tables -> SUBSET Arcs]
    BY <1>0 DEF TypeOK
  <2>7. a.from \in visited /\ Reach(a) \in Nat /\ \A u \in visited : dist[u] < Reach(a)
    <3>1. a.from \in visited /\ \A u \in visited : dist[u] <= dist[a.from]
      BY <2>1, <2>2 DEF FoundOK
    <3> QED
      BY <3>1, <2>3, <2>5, <2>6 DEF Reach
  <2>8. CASE Shorter(a)
    <3>1. /\ dist' = [t \in DOMAIN dist \cup {a.to} |-> IF t = a.to THEN Reach(a) ELSE dist[t]]
          /\ pred' = [pred EXCEPT ![a.to] = {a}]
      BY <2>1, <2>8
    <3>2. a.to \notin visited
      BY <2>5, <2>6, <2>7, <2>8 DEF Shorter
    <3>3. a.to \notin placed
      BY <2>2, <2>7, <2>8 DEF Shorter, FoundOK
    <3>4. /\ DOMAIN dist' = DOMAIN dist \cup {a.to} /\ dist'[a.to] = Reach(a)
          /\ \A t \in DOMAIN dist : t # a.to => dist'[t] = dist[t]
          /\ \A t \in visited : dist'[t] = dist[t]
          /\ pred'[a.to] = {a} /\ \A t \in Tables : t # a.to => pred'[t] = pred[t]
      BY <3>1, <3>2, <2>3, <2>6
    <3>5. placed' \subseteq DOMAIN dist' /\ \A u \in placed' : dist'[u] = 0
      BY <2>2, <3>3, <3>4 DEF FoundOK
    <3>6. \A u \in visited', v \in DOMAIN dist' \ visited' : dist'[u] <= dist'[v]
      <4> SUFFICES ASSUME NEW u \in visited, NEW v \in DOMAIN dist' \ visited PROVE dist'[u] <= dist'[v]
        BY <2>2
      <4>1. CASE v = a.to
        BY <4>1, <2>5, <2>6, <2>7, <3>4
      <4>2. CASE v # a.to
        BY <4>2, <2>2, <3>4 DEF FoundOK
      <4> QED
        BY <4>1, <4>2
    <3>7. \A b \in todo' : b.from \in visited' /\ \A u \in visited' : dist'[u] <= dist'[b.from]
      BY <2>1, <2>2, <3>4 DEF FoundOK
    <3>8. \A b \in Arcs' : b.from \in visited' /\ b \notin todo' =>
          /\ b.to \in DOMAIN dist' /\ dist'[b.to] <= Reach(b)'
          /\ dist'[b.to] = Reach(b)' /\ b.to \notin placed' => b \in pred'[b.to]
      <4> SUFFICES ASSUME NEW b \in Arcs, b.from \in visited, b \notin todo'
                   PROVE  /\ b.to \in DOMAIN dist' /\ dist'[b.to] <= Reach(b)'
                          /\ dist'[b.to] = Reach(b)' /\ b.to \notin placed => b \in pred'[b.to]
        BY <2>2, <2>4
      <4>1. Reach(b)' = Reach(b) /\ Reach(b) \in Nat /\ b.to \in Tables
        <5>1. b.edge.cost \in Nat /\ b.to \in Tables
          BY <1>0, ArcType
        <5> QED
          BY <5>1, <2>5, <2>6, <3>4 DEF Reach
      <4>2. CASE b = a
        BY <4>1, <4>2, <3>4
      <4>3. CASE b # a
        <5>1. /\ b.to \in DOMAIN dist /\ dist[b.to] <= Reach(b)
              /\ dist[b.to] = Reach(b) /\ b.to \notin placed => b \in pred[b.to]
          BY <2>1, <2>2, <4>3 DEF FoundOK
        <5>2. CASE b.to = a.to
          <6>1. Reach(a) < dist[b.to]
            BY <2>8, <5>1, <5>2 DEF Shorter
          <6>2. dist[b.to] \in Nat
            BY <2>5, <5>1
          <6> QED
            BY <2>7, <3>4, <4>1, <5>1, <5>2, <6>1, <6>2
        <5>3. CASE b.to # a.to
          BY <3>4, <4>1, <5>1, <5>3
        <5> QED
          BY <5>2, <5>3
      <4> QED
        BY <4>2, <4>3
    <3>9. \A s \in Tables : \A b \in pred'[s] :
          /\ b.to = s /\ s \in DOMAIN dist' /\ s \notin placed'
          /\ b.from \in visited' /\ dist'[s] = Reach(b)'
      <4> SUFFICES ASSUME NEW s \in Tables, NEW b \in pred'[s]
                   PROVE  /\ b.to = s /\ s \in DOMAIN dist' /\ s \notin placed
                          /\ b.from \in visited /\ dist'[s] = Reach(b)'
        BY <2>2
      <4>1. CASE s = a.to
        BY <4>1, <2>7, <3>3, <3>4 DEF Reach
      <4>2. CASE s # a.to
        BY <4>2, <2>2, <3>4 DEF FoundOK, Reach
      <4> QED
        BY <4>1, <4>2
    <3> QED
      BY <2>2, <3>5, <3>6, <3>7, <3>8, <3>9 DEF SearchOK, FoundOK
  <2>9. CASE ~Shorter(a)
    <3>1. /\ dist' = dist /\ a.to \in DOMAIN dist /\ dist[a.to] <= Reach(a)
          /\ pred' = IF AsShort(a) THEN [pred EXCEPT ![a.to] = @ \cup {a}] ELSE pred
      BY <2>1, <2>5, <2>7, <2>9 DEF Shorter
    <3>2. \A b : Reach(b)' = Reach(b)
      BY <3>1 DEF Reach
    <3>3. /\ \A t \in Tables : pred[t] \subseteq pred'[t] /\ \A b \in pred'[t] : b \in pred[t] \/ (b = a /\ t = a.to /\ AsShort(a))
      BY <2>3, <2>6, <3>1
    <3>4. dist[a.to] = Reach(a) /\ a.to \notin placed => a \in pred'[a.to]
      <4> SUFFICES ASSUME dist[a.to] = Reach(a), a.to \notin placed PROVE a \in pred'[a.to]
        OBVIOUS
      <4>1. CASE AsShort(a)
        BY <2>3, <2>6, <3>1, <4>1
      <4>2. CASE ~AsShort(a)
        <5>1. PICK p \in pred[a.to] : p.edge.id = a.edge.id
          BY <4>2 DEF AsShort
        <5>2. p \in Arcs /\ p.to = a.to
          BY <2>2, <2>3, <2>6 DEF FoundOK
        <5>3. p = Step(p.from, p.to, p.edge) /\ p.edge \in registry /\ p.from # p.to /\ Connects(p.edge, p.from, p.to)
          BY <1>0, <5>2, ArcType
        <5>4. Connects(a.edge, a.from, a.to)
          BY <1>0, <2>3, ArcType
        <5>5. p.edge = a.edge
          BY <1>0, <2>3, <5>1, <5>3, Given
        <5>6. p.from = a.from
          BY <2>3, <5>2, <5>3, <5>4, <5>5 DEF Connects
        <5> QED
          BY <2>3, <3>3, <5>2, <5>3, <5>5, <5>6
      <4> QED
        BY <4>1, <4>2
    <3>5. placed' \subseteq DOMAIN dist' /\ \A u \in placed' : dist'[u] = 0
      BY <2>2, <3>1 DEF FoundOK
    <3>6. \A u \in visited', v \in DOMAIN dist' \ visited' : dist'[u] <= dist'[v]
      BY <2>2, <3>1 DEF FoundOK
    <3>7. \A b \in todo' : b.from \in visited' /\ \A u \in visited' : dist'[u] <= dist'[b.from]
      BY <2>1, <2>2, <3>1 DEF FoundOK
    <3>8. \A b \in Arcs' : b.from \in visited' /\ b \notin todo' =>
          /\ b.to \in DOMAIN dist' /\ dist'[b.to] <= Reach(b)'
          /\ dist'[b.to] = Reach(b)' /\ b.to \notin placed' => b \in pred'[b.to]
      <4> SUFFICES ASSUME NEW b \in Arcs, b.from \in visited, b \notin todo'
                   PROVE  /\ b.to \in DOMAIN dist /\ dist[b.to] <= Reach(b)
                          /\ dist[b.to] = Reach(b) /\ b.to \notin placed => b \in pred'[b.to]
        BY <2>2, <2>4, <3>1, <3>2
      <4>1. CASE b = a
        BY <4>1, <3>1, <3>4
      <4>2. CASE b # a
        <5>1. b.to \in Tables
          BY <1>0, ArcType
        <5> QED
          BY <2>1, <2>2, <3>3, <4>2, <5>1 DEF FoundOK
      <4> QED
        BY <4>1, <4>2
    <3>9. \A s \in Tables : \A b \in pred'[s] :
          /\ b.to = s /\ s \in DOMAIN dist' /\ s \notin placed'
          /\ b.from \in visited' /\ dist'[s] = Reach(b)'
      BY <2>2, <2>7, <3>1, <3>2, <3>3 DEF FoundOK, AsShort
    <3> QED
      BY <2>2, <3>5, <3>6, <3>7, <3>8, <3>9 DEF SearchOK, FoundOK
  <2> QED
    BY <2>8, <2>9
<1>8. CASE NoPath
  BY <1>8 DEF NoPath, Forget, Searched, SearchOK, NoSearch
<1>9. CASE Aim
  BY <1>9, <1>a DEF Aim, Searched
<1>10. CASE WalkBack
  BY <1>10, <1>a DEF WalkBack
<1>11. CASE Choose
  BY <1>11 DEF Choose, Forget, SearchOK, NoSearch, IInv, WalkOK
<1>12. CASE PlaceEdge
  BY <1>12, <1>b DEF PlaceEdge
<1>13. CASE EndRound
  BY <1>13, <1>b DEF EndRound
<1>14. CASE EndAuto
  BY <1>14, <1>b DEF EndAuto
<1>15. CASE CheckSize
  BY <1>15, <1>b DEF CheckSize
<1>16. CASE UNCHANGED vars
  BY <1>16, <1>a
<1> QED
  BY <1>1, <1>2, <1>3, <1>4, <1>5, <1>6, <1>7, <1>8, <1>9, <1>10, <1>11, <1>12, <1>13, <1>14,
     <1>15, <1>16 DEF Next, Returned

(* ------------------------- The walks back ------------------------------ *)

LEMMA ConsType ==
    ASSUME NEW S, NEW s \in Seq(S), NEW x \in S
    PROVE  /\ << x >> \o s \in Seq(S) /\ Len(<< x >> \o s) = Len(s) + 1 /\ Len(s) \in Nat
           /\ DOMAIN s = 1 .. Len(s) /\ DOMAIN (<< x >> \o s) = 1 .. Len(s) + 1
           /\ (<< x >> \o s)[1] = x
           /\ \A i \in 1 .. Len(s) : (<< x >> \o s)[i + 1] = s[i]
OBVIOUS

LEMMA AtType ==
    ASSUME TypeOK, NEW w \in Seq(Arcs)
    PROVE  At(w) \in Tables
<1>1. CASE w = << >>
  BY <1>1 DEF At, TypeOK
<1>2. CASE w # << >>
  BY <1>2, ArcType DEF At
<1> QED
  BY <1>1, <1>2

(* A walk goes on to a way in of the table it has come to.                 *)
LEMMA WayCons ==
    ASSUME TypeOK, FoundOK, NEW w \in Seq(Arcs), Way(w), Nearer(w), NEW a \in pred[At(w)]
    PROVE  Way(<< a >> \o w) /\ Nearer(<< a >> \o w)
<1>1. At(w) \in Tables
  BY AtType
<1>2. a \in Arcs /\ a.to = At(w)
  BY <1>1 DEF TypeOK, FoundOK
<1> DEFINE v == << a >> \o w
           n == Len(w)
<1>3. /\ v \in Seq(Arcs) /\ Len(v) = n + 1 /\ n \in Nat /\ DOMAIN w = 1 .. n /\ DOMAIN v = 1 .. n + 1
      /\ v[1] = a /\ \A i \in 1 .. n : v[i + 1] = w[i]
  BY <1>2, ConsType
<1>e. w = << >> <=> n = 0
  OBVIOUS
<1> HIDE DEF v, n
<1>4. ASSUME NEW i \in 1 .. n + 1 PROVE i = 1 \/ (i - 1 \in 1 .. n /\ v[i] = w[i - 1] /\ i - 1 \in Nat)
  <2>1. CASE i # 1
    <3>1. i - 1 \in 1 .. n /\ (i - 1) + 1 = i
      BY <2>1, <1>3
    <3> QED
      BY <1>3, <3>1
  <2> QED
    BY <2>1
<1>5. \A i \in DOMAIN v : v[i] \in pred[v[i].to]
  BY <1>2, <1>3, <1>4 DEF Way
<1>6. v[Len(v)].to = target
  <2>1. CASE n = 0
    BY <1>2, <1>3, <1>e, <2>1 DEF At
  <2>2. CASE n # 0
    <3>1. n \in 1 .. n /\ w # << >>
      BY <1>3, <1>e, <2>2
    <3>2. w[n].to = target
      BY <3>1 DEF Way, n
    <3> QED
      BY <1>3, <3>1, <3>2
  <2> QED
    BY <2>1, <2>2
<1>7. Chained(v)
  <2> SUFFICES ASSUME NEW i \in 1 .. n PROVE v[i].to = v[i + 1].from
    BY <1>3 DEF Chained
  <2>1. CASE i = 1
    BY <1>2, <1>3, <1>e, <2>1 DEF At
  <2>2. CASE i # 1
    <3>1. i - 1 \in 1 .. (n - 1) /\ (i - 1) + 1 = i /\ i \in 1 .. n + 1
      BY <1>3, <2>2
    <3>2. w[i - 1].to = w[i].from
      BY <3>1 DEF Way, Chained, n
    <3> QED
      BY <1>3, <1>4, <2>2, <3>1, <3>2
  <2> QED
    BY <2>1, <2>2
<1>8. ASSUME NEW i \in 1 .. n PROVE w[i].to \in DOMAIN dist /\ dist[w[i].to] \in Nat /\ dist[w[i].from] < dist[w[i].to]
  <2>1. w[i] \in Arcs /\ w[i] \in pred[w[i].to] /\ w[i].to \in Tables /\ w[i].edge.cost \in Nat /\ w[i].edge.cost > 0
    <3>1. w[i] \in Arcs /\ i \in DOMAIN w
      BY <1>3
    <3> HIDE DEF v
    <3> QED
      BY <3>1, ArcType DEF Way
  <2>2. w[i].to \in DOMAIN dist /\ w[i].from \in DOMAIN dist /\ dist[w[i].to] = Reach(w[i])
    BY <2>1 DEF FoundOK, TypeOK
  <2> QED
    BY <2>1, <2>2 DEF TypeOK, Reach
<1>9. ASSUME NEW k \in 1 .. n PROVE dist[a.to] < dist[w[k].to]
  <2>1. 1 \in 1 .. n /\ a.to = w[1].from
    BY <1>2, <1>3, <1>e DEF At
  <2>2. dist[a.to] < dist[w[1].to] /\ dist[w[1].to] \in Nat
    BY <1>8, <2>1
  <2>3. a.to \in DOMAIN dist
    BY <1>1, <1>2 DEF FoundOK
  <2>4. dist[a.to] \in Nat /\ dist[w[k].to] \in Nat
    BY <1>8, <2>3 DEF TypeOK
  <2>5. CASE k = 1
    BY <2>2, <2>5
  <2>6. CASE k # 1
    <3>1. dist[w[1].to] < dist[w[k].to]
      BY <1>3, <2>1, <2>6 DEF Nearer
    <3> QED
      BY <2>2, <2>4, <3>1
  <2> QED
    BY <2>5, <2>6
<1>10. Nearer(v)
  <2> SUFFICES ASSUME NEW i \in 1 .. n + 1, NEW k \in 1 .. n + 1, i < k
               PROVE  dist[v[i].to] < dist[v[k].to]
    BY <1>3 DEF Nearer
  <2>1. k # 1 /\ k - 1 \in 1 .. n /\ v[k] = w[k - 1]
    BY <1>3, <1>4
  <2>2. CASE i = 1
    BY <1>3, <1>9, <2>1, <2>2
  <2>3. CASE i # 1
    <3>1. i - 1 \in 1 .. n /\ v[i] = w[i - 1] /\ i - 1 < k - 1
      BY <1>4, <2>3
    <3> QED
      BY <1>3, <2>1, <3>1 DEF Nearer
  <2> QED
    BY <2>2, <2>3
<1>11. v # << >> /\ Way(v)
  BY <1>3, <1>5, <1>6, <1>7 DEF Way
<1> QED
  BY <1>10, <1>11 DEF v

(* A way from the tree that ends in a walk still under way ends in one of  *)
(* its continuations.                                                      *)
LEMMA EndsCons ==
    ASSUME TypeOK, NEW w \in Seq(Arcs), At(w) \notin placed,
           NEW q \in Seq(Arcs), Way(q), q # << >>, q[1].from \in placed, Ends(w, q)
    PROVE  \E a \in pred[At(w)] : Ends(<< a >> \o w, q)
<1> DEFINE n == Len(w)
           m == Len(q)
<1>1. /\ n \in Nat /\ m \in Nat /\ m # 0 /\ n <= m /\ DOMAIN w = 1 .. n /\ DOMAIN q = 1 .. m
      /\ \A i \in 1 .. n : w[i] = q[m - n + i] /\ (w = << >> <=> n = 0)
  BY DEF Ends
<1>e. w = << >> <=> n = 0
  OBVIOUS
<1>l. q[m].to = target
  BY DEF Way
<1>c. \A i \in 1 .. (m - 1) : q[i].to = q[i + 1].from
  BY DEF Way, Chained
<1> HIDE DEF n, m
<1>2. n # m
  <2> SUFFICES ASSUME n = m PROVE FALSE
    OBVIOUS
  <2>1. 1 \in 1 .. n /\ m - n + 1 = 1 /\ w # << >>
    BY <1>1, <1>e
  <2> QED
    BY <1>1, <2>1 DEF At
<1> DEFINE h == m - n
<1>3. h \in 1 .. m /\ h \in Nat
  BY <1>1, <1>2
<1>4. q[h].to = At(w)
  <2>1. CASE n = 0
    BY <1>1, <1>e, <1>l, <2>1 DEF At
  <2>2. CASE n # 0
    <3>1. h \in 1 .. (m - 1) /\ 1 \in 1 .. n
      BY <1>1, <1>2, <2>2
    <3> QED
      BY <1>1, <1>c, <1>e, <2>2, <3>1 DEF At
  <2> QED
    BY <2>1, <2>2
<1>5. q[h] \in pred[At(w)]
  BY <1>1, <1>3, <1>4 DEF Way
<1>6. q[h] \in Arcs
  BY <1>1, <1>3
<1> DEFINE v == << q[h] >> \o w
<1>7. /\ Len(v) = n + 1 /\ DOMAIN v = 1 .. n + 1
      /\ v[1] = q[h] /\ \A i \in 1 .. n : v[i + 1] = w[i]
  BY <1>6, ConsType DEF n
<1> HIDE DEF v
<1>8. ASSUME NEW i \in 1 .. n + 1 PROVE v[i] = q[m - (n + 1) + i]
  <2>1. CASE i = 1
    BY <1>1, <1>7, <2>1
  <2>2. CASE i # 1
    <3>1. i - 1 \in 1 .. n /\ (i - 1) + 1 = i /\ m - n + (i - 1) = m - (n + 1) + i
      BY <1>1, <2>2
    <3>2. v[i] = w[i - 1]
      BY <1>7, <3>1
    <3> QED
      BY <1>1, <3>1, <3>2
  <2> QED
    BY <2>1, <2>2
<1>9. n + 1 <= m
  BY <1>1, <1>2
<1>10. Ends(v, q)
  BY <1>7, <1>8, <1>9 DEF Ends, m
<1> QED
  BY <1>5, <1>10 DEF v

LEMMA WalkNext == IInv /\ TypeOK' /\ [Next]_vars => WalkOK' /\ NoWayLost'
<1> SUFFICES ASSUME IInv, TypeOK', [Next]_vars, pc' = "walk" PROVE WalkOK' /\ NoWayLost'
  BY DEF WalkOK, NoWayLost
<1> USE DEF vars, given, tree, lists, found, back
<1>0. TypeOK
  BY DEF IInv
<1>1. CASE Aim
  <2>1. PICK t \in outstanding \cap DOMAIN dist : Nearest(t) /\ target' = t
    BY <1>1 DEF Aim
  <2>2. UNCHANGED << outstanding, dist, pred, visited, todo, registry, placed >> /\ walks' = {<< >>} /\ Searched
    BY <1>1 DEF Aim
  <2>3. \A u \in outstanding \cap DOMAIN dist : dist[t] <= dist[u]
    <3>1. \A u \in DOMAIN dist : dist[u] \in Nat
      BY <1>0 DEF TypeOK
    <3> QED
      BY <2>1, <3>1 DEF Nearest
  <2>4. Way(<< >>)' /\ Nearer(<< >>)' /\ \A q \in Seq(Arcs') : Ends(<< >>, q)
    BY DEF Way, Nearer, Chained, Ends
  <2> QED
    BY <2>1, <2>2, <2>3, <2>4 DEF WalkOK, NoWayLost, Searched
<1>2. CASE WalkBack
  <2>1. PICK w \in walks : ~Complete(w) /\ walks' = (walks \ {w}) \cup {<< a >> \o w : a \in pred[At(w)]}
    BY <1>2 DEF WalkBack
  <2>2. UNCHANGED << outstanding, dist, pred, visited, todo, registry, placed, target >> /\ pc = "walk"
    BY <1>2 DEF WalkBack
  <2>3. WalkOK /\ NoWayLost /\ FoundOK
    BY <2>2 DEF IInv, SearchOK
  <2>4. w \in Seq(Arcs) /\ Way(w) /\ Nearer(w)
    BY <1>0, <2>1, <2>2, <2>3 DEF WalkOK, TypeOK
  <2>5. \A v : (Way(v)' <=> Way(v)) /\ (Nearer(v)' <=> Nearer(v))
    BY <2>2 DEF Way, Nearer, Chained
  <2>6. \A v \in walks' : Way(v) /\ Nearer(v)
    <3>1. \A a \in pred[At(w)] : Way(<< a >> \o w) /\ Nearer(<< a >> \o w)
      BY <1>0, <2>3, <2>4, WayCons
    <3> QED
      BY <2>1, <2>2, <2>3, <3>1 DEF WalkOK
  <2>7. WalkOK'
    BY <2>2, <2>3, <2>5, <2>6 DEF WalkOK
  <2>8. ASSUME NEW q \in Seq(Arcs), Way(q), q # << >>, q[1].from \in placed
        PROVE  \E v \in walks' : Ends(v, q)
    <3>1. PICK v \in walks : Ends(v, q)
      BY <2>2, <2>3, <2>8 DEF NoWayLost
    <3>2. CASE v # w
      BY <2>1, <3>1, <3>2
    <3>3. CASE v = w
      <4>1. \E a \in pred[At(w)] : Ends(<< a >> \o w, q)
        BY <1>0, <2>1, <2>4, <2>8, <3>1, <3>3, EndsCons DEF Complete
      <4> QED
        BY <2>1, <4>1
    <3> QED
      BY <3>2, <3>3
  <2>9. Arcs' = Arcs
    BY <2>2 DEF Arcs, Arc, OtherSide, Step
  <2> QED
    BY <2>2, <2>5, <2>7, <2>8, <2>9 DEF NoWayLost
<1>3. CASE UNCHANGED vars
  <2>1. Arcs' = Arcs /\ \A w : (Way(w)' <=> Way(w)) /\ (Nearer(w)' <=> Nearer(w))
    BY <1>3 DEF Arcs, Arc, OtherSide, Step, Way, Nearer, Chained
  <2> QED
    BY <1>3, <2>1 DEF IInv, WalkOK, NoWayLost
<1> QED
  BY <1>1, <1>2, <1>3 DEF Next, Returned, BeginPass, PassOver, PlaceJoin, EndExplicit, BeginSearch, Visit,
     Relax, NoPath, Searched, Choose, PlaceEdge, EndRound, EndAuto, CheckSize

(* ------------------------- The plan ------------------------------------ *)

LEMMA IInvNext == IInv /\ [Next]_vars => IInv'
BY TypeNext, TreeNext, DeclaredNext, AutoNext, SearchNext, WalkNext DEF IInv

(* What a plan is when nothing was reported against it.                    *)
LEMMA PlanUsable == IInv => UsablePlan
<1> SUFFICES ASSUME IInv, Accepted PROVE UsablePlan
  BY DEF UsablePlan
<1>1. TypeOK /\ TreeOK /\ DeclaredOK /\ AutoOK /\ SizeOK
  BY DEF IInv
<1>2. pc = "done" /\ diag \cap Errors = {} /\ path = << >>
  BY <1>1 DEF Accepted, TreeOK
<1>3. "too_many_joins" \notin diag /\ "no_join_path" \notin diag /\ "unrelated_table" \notin diag
  BY <1>2 DEF Errors
<1>4. Len(steps) <= MaxJoins /\ Len(steps) \in Nat /\ Len(path) = 0
  BY <1>1, <1>2, <1>3 DEF SizeOK, TypeOK
<1>5. ~TooLong
  BY <1>4, BoundsAssumption DEF TooLong
<1>6. GrowsFromRoot
  BY <1>1, <1>5 DEF TreeOK
<1>7. \A i \in DOMAIN steps : Along(steps[i])
  BY <1>1 DEF TypeOK, Links
<1>8. Range(selected) \subseteq placed
  BY <1>1, <1>2, <1>3 DEF DeclaredOK, AutoOK
<1>9. placed = {Root} \cup {s.to : s \in Range(steps)}
  BY <1>1 DEF TreeOK, Range
<1>10. (declared # << >> /\ diag = {}) => Len(steps) = Len(declared)
  <2> SUFFICES ASSUME declared # << >>, diag = {} PROVE Len(steps) = Len(declared)
    OBVIOUS
  <2>1. pending = << >> /\ Len(steps) + Len(pending) = Len(declared)
    BY <1>1, <1>2, <1>3 DEF DeclaredOK
  <2>2. Len(pending) = 0
    BY <2>1
  <2> QED
    BY <1>4, <2>1, <2>2
<1> QED
  BY <1>6, <1>7, <1>8, <1>9, <1>10 DEF UsablePlan, GrowsFromRoot

LEMMA Invariant == Spec => []IInv
BY InitIInv, IInvNext, PTL DEF Spec

(* A plan that is not refused is a tree that grows from the root along     *)
(* registered relationships, reaches every selected table and, when the    *)
(* user declared the joins and no loop was reported, uses all of them: for *)
(* every registry, in whatever order joins and tables are listed.          *)
THEOREM PlanIsUsable == Spec => []UsablePlan
BY Invariant, PlanUsable, PTL

(* ------------------------- Cheapest routes ----------------------------- *)

LEMMA Monotone ==
    ASSUME NEW n \in Nat, NEW f \in [0 .. n -> Int], \A i \in 1 .. n : f[i - 1] <= f[i],
           NEW i \in 0 .. n
    PROVE  f[0] <= f[i] /\ f[i] <= f[n]
<1>1. ASSUME NEW b \in 0 .. n PROVE \A k \in b .. n : f[b] <= f[k]
  <2> DEFINE K == {k \in Nat : k \in b .. n /\ ~(f[b] <= f[k])}
  <2>0. \A k \in b .. n : k \in Nat
    OBVIOUS
  <2>1. SUFFICES ASSUME K # {} PROVE FALSE
    BY <2>0
  <2>2. PICK k \in K : \A m \in K : k =< m
    <3>1. K \in SUBSET Nat
      OBVIOUS
    <3> HIDE DEF K
    <3> QED
      BY <2>1, <3>1, LeastNatural
  <2>3. k # b /\ k \in 1 .. n /\ k - 1 \in b .. n /\ k - 1 \in Nat /\ k - 1 \in 0 .. n /\ k \in 0 .. n
    BY <2>2
  <2>4. f[b] <= f[k - 1]
    <3>1. k - 1 \notin K
      BY <2>2, <2>3
    <3> QED
      BY <2>3, <3>1
  <2>5. f[k - 1] <= f[k] /\ f[k] \in Int /\ f[k - 1] \in Int /\ f[b] \in Int
    BY <2>3
  <2> QED
    BY <2>2, <2>4, <2>5
<1> QED
  BY <1>1

(* The length of a path is the last of its partial sums.                   *)
LEMMA PartialSums ==
    ASSUME TypeOK, NEW p \in Seq(Arcs)
    PROVE  \E s \in [0 .. Len(p) -> Nat] :
              /\ s[0] = 0 /\ \A i \in 1 .. Len(p) : s[i] = s[i - 1] + p[i].edge.cost
              /\ Length(p) = s[Len(p)]
<1> DEFINE l == Len(p)
           Sums(s, n) == s[0] = 0 /\ \A i \in 1 .. n : s[i] = s[i - 1] + p[i].edge.cost
           K == {n \in Nat : n <= l /\ ~ \E s \in [0 .. n -> Nat] : Sums(s, n)}
<1>1. l \in Nat
  OBVIOUS
<1>2. \A i \in 1 .. l : p[i].edge.cost \in Nat
  BY ArcType
<1> HIDE DEF l
<1>3. K = {}
  <2> SUFFICES ASSUME K # {} PROVE FALSE
    OBVIOUS
  <2>1. PICK n \in K : \A m \in K : n =< m
    <3>1. K \in SUBSET Nat
      OBVIOUS
    <3> HIDE DEF K
    <3> QED
      BY <3>1, LeastNatural
  <2>2. n \in Nat /\ n <= l
    OBVIOUS
  <2>3. n # 0
    <3>1. [i \in 0 .. 0 |-> 0] \in [0 .. 0 -> Nat] /\ Sums([i \in 0 .. 0 |-> 0], 0)
      OBVIOUS
    <3> QED
      BY <3>1
  <2>4. n - 1 \in Nat /\ n - 1 <= l /\ n - 1 \notin K
    <3>1. n - 1 \in Nat /\ n - 1 <= l /\ ~(n =< n - 1)
      BY <1>1, <2>2, <2>3
    <3> HIDE DEF K
    <3> QED
      BY <2>1, <3>1
  <2>5. PICK s \in [0 .. n - 1 -> Nat] : Sums(s, n - 1)
    <3> HIDE DEF Sums
    <3> QED
      BY <2>4
  <2> DEFINE u == [i \in 0 .. n |-> IF i = n THEN s[n - 1] + p[n].edge.cost ELSE s[i]]
  <2>6. n \in 1 .. l /\ p[n].edge.cost \in Nat /\ s[n - 1] \in Nat
    BY <1>1, <1>2, <2>2, <2>3, <2>4
  <2>7. u \in [0 .. n -> Nat]
    <3>1. \A i \in 0 .. n : i # n => i \in 0 .. n - 1
      BY <2>2
    <3> QED
      BY <2>6, <3>1
  <2>8. u[0] = 0
    BY <2>2, <2>3, <2>5
  <2>9. ASSUME NEW i \in 1 .. n PROVE u[i] = u[i - 1] + p[i].edge.cost
    <3>1. CASE i = n
      <4>1. u[n] = s[n - 1] + p[n].edge.cost /\ u[n - 1] = s[n - 1]
        BY <2>2, <2>3
      <4> QED
        BY <3>1, <4>1
    <3>2. CASE i # n
      <4>1. i \in 1 .. n - 1 /\ i \in 0 .. n /\ i - 1 \in 0 .. n /\ i - 1 # n
        BY <2>2, <3>2
      <4>2. u[i] = s[i] /\ u[i - 1] = s[i - 1]
        BY <3>2, <4>1
      <4> QED
        BY <2>5, <4>1, <4>2
    <3> QED
      BY <3>1, <3>2
  <2>10. Sums(u, n)
    <3> HIDE DEF u
    <3> QED
      BY <2>8, <2>9
  <2> HIDE DEF u, Sums
  <2> QED
    BY <2>1, <2>7, <2>10
<1>4. PICK s \in [0 .. l -> Nat] : Sums(s, l)
  <2>1. l \notin K /\ l <= l
    BY <1>1, <1>3
  <2> HIDE DEF Sums
  <2> QED
    BY <1>1, <2>1
<1> DEFINE G(f) == [i \in 0 .. l |-> IF i = 0 THEN 0 ELSE f[i - 1] + p[i].edge.cost]
           g == CHOOSE f : f = G(f)
<1>5. s = G(s)
  <2>1. ASSUME NEW i \in 0 .. l PROVE s[i] = IF i = 0 THEN 0 ELSE s[i - 1] + p[i].edge.cost
    <3>1. i = 0 \/ i \in 1 .. l
      BY <1>1
    <3> QED
      BY <1>4, <3>1
  <2> QED
    BY <2>1
<1>6. g = G(g)
  <2>1. \E f : f = G(f)
    BY <1>5
  <2> HIDE DEF G
  <2> QED
    BY <2>1
<1>7. Length(p) = g[l]
  BY DEF Length, l
<1> HIDE DEF g
<1>8. g[0] = 0 /\ \A i \in 1 .. l : g[i] = g[i - 1] + p[i].edge.cost
  <2>1. \A i \in 0 .. l : g[i] = IF i = 0 THEN 0 ELSE g[i - 1] + p[i].edge.cost
    BY <1>6
  <2>2. 0 \in 0 .. l /\ \A i \in 1 .. l : i \in 0 .. l /\ i # 0
    BY <1>1
  <2> QED
    BY <2>1, <2>2
<1>9. g \in [0 .. l -> Nat]
  <2> DEFINE B == {n \in Nat : n \in 0 .. l /\ g[n] \notin Nat}
  <2>1. SUFFICES ASSUME B # {} PROVE FALSE
    BY <1>6
  <2>2. PICK n \in B : \A m \in B : n =< m
    <3>1. B \in SUBSET Nat
      OBVIOUS
    <3> HIDE DEF B
    <3> QED
      BY <2>1, <3>1, LeastNatural
  <2>3. n \in Nat \ {0} /\ n \in 1 .. l /\ g[n] \notin Nat
    BY <1>1, <1>8, <2>2
  <2>4. n - 1 \in Nat /\ n - 1 \in 0 .. l /\ n - 1 \notin B
    BY <1>1, <2>2, <2>3
  <2>5. g[n - 1] \in Nat /\ p[n].edge.cost \in Nat
    BY <1>2, <2>3, <2>4
  <2> QED
    BY <1>8, <2>3, <2>5
<1> QED
  BY <1>7, <1>8, <1>9 DEF l


(* When the search is over, every table on a route from the tree is known. *)
LEMMA RouteKnown ==
    ASSUME TypeOK, FoundOK, visited = DOMAIN dist, todo = {},
           NEW q \in Seq(Arcs), q # << >>, q[1].from \in placed, Chained(q)
    PROVE  \A i \in DOMAIN q : q[i].to \in DOMAIN dist
<1> DEFINE n == Len(q)
<1>1. n \in Nat /\ n # 0 /\ DOMAIN q = 1 .. n
  OBVIOUS
<1>2. \A i \in 1 .. n : q[i] \in Arcs
  BY <1>1
<1>3. \A i \in 1 .. (n - 1) : q[i].to = q[i + 1].from
  BY DEF Chained
<1> HIDE DEF n
<1>4. \A i \in 1 .. n : q[i].to \in DOMAIN dist
  <2> DEFINE K == {k \in Nat : k \in 1 .. n /\ q[k].to \notin DOMAIN dist}
  <2>1. SUFFICES ASSUME K # {} PROVE FALSE
    OBVIOUS
  <2>2. PICK k \in K : \A m \in K : k =< m
    <3>1. K \in SUBSET Nat
      OBVIOUS
    <3> HIDE DEF K
    <3> QED
      BY <2>1, <3>1, LeastNatural
  <2>3. q[k].from \notin DOMAIN dist
    BY <1>2, <2>2 DEF FoundOK
  <2>4. k # 1
    BY <2>3 DEF FoundOK
  <2>5. k - 1 \in 1 .. n /\ k - 1 \in 1 .. (n - 1) /\ k - 1 \in Nat /\ (k - 1) + 1 = k /\ ~(k =< k - 1)
    BY <1>1, <2>2, <2>4
  <2>6. k - 1 \notin K
    <3> HIDE DEF K
    <3> QED
      BY <2>2, <2>5
  <2> QED
    BY <1>3, <2>3, <2>5, <2>6
<1> QED
  BY <1>1, <1>4

(* When the search is over no route from the tree is shorter than the      *)
(* distance found, and those as short are tight at every step.             *)
LEMMA RouteLength ==
    ASSUME TypeOK, FoundOK, visited = DOMAIN dist, todo = {},
           NEW q \in Seq(Arcs), q # << >>, q[1].from \in placed, Chained(q)
    PROVE  /\ q[Len(q)].to \in DOMAIN dist /\ dist[q[Len(q)].to] <= Length(q) /\ Length(q) \in Nat
           /\ Length(q) = dist[q[Len(q)].to] <=> \A i \in DOMAIN q : dist[q[i].to] = Reach(q[i])
<1> DEFINE n == Len(q)
<1>1. n \in Nat /\ n # 0 /\ DOMAIN q = 1 .. n
  OBVIOUS
<1>2. \A i \in 1 .. n : q[i] \in Arcs /\ q[i].edge.cost \in Nat
  BY <1>1, ArcType
<1>3. \A i \in 1 .. (n - 1) : q[i].to = q[i + 1].from
  BY DEF Chained
<1>4. PICK s \in [0 .. n -> Nat] :
        /\ s[0] = 0 /\ \A i \in 1 .. n : s[i] = s[i - 1] + q[i].edge.cost
        /\ Length(q) = s[n]
  BY PartialSums
<1> HIDE DEF n
<1>5. \A i \in 1 .. n : q[i].to \in DOMAIN dist
  BY <1>1, RouteKnown
(* How much longer the route is up to a step than it need be.              *)
<1> DEFINE f == [i \in 0 .. n |-> IF i = 0 THEN 0 ELSE s[i] - dist[q[i].to]]
<1>6. \A i \in 1 .. n : dist[q[i].to] \in Nat /\ s[i] \in Nat /\ i - 1 \in 0 .. n /\ i \in 0 .. n
  BY <1>1, <1>5 DEF TypeOK
<1>7. f \in [0 .. n -> Int] /\ f[0] = 0 /\ \A i \in 1 .. n : f[i] = s[i] - dist[q[i].to]
  <2>1. \A i \in 0 .. n : i = 0 \/ i \in 1 .. n
    BY <1>1
  <2>2. 0 \in 0 .. n /\ \A i \in 1 .. n : i # 0
    BY <1>1
  <2> QED
    BY <1>6, <2>1, <2>2
<1> HIDE DEF f
<1>8. \A i \in 1 .. n : /\ q[i].from \in DOMAIN dist /\ dist[q[i].from] \in Nat
                        /\ f[i - 1] = s[i - 1] - dist[q[i].from]
  <2> SUFFICES ASSUME NEW i \in 1 .. n
               PROVE  /\ q[i].from \in DOMAIN dist /\ dist[q[i].from] \in Nat
                      /\ f[i - 1] = s[i - 1] - dist[q[i].from]
    OBVIOUS
  <2>1. CASE i = 1
    <3>1. q[1].from \in DOMAIN dist /\ dist[q[1].from] = 0
      BY DEF FoundOK
    <3>2. i - 1 = 0
      BY <2>1
    <3> QED
      BY <1>4, <1>7, <2>1, <3>1, <3>2
  <2>2. CASE i # 1
    <3>1. i - 1 \in 1 .. n /\ i - 1 \in 1 .. (n - 1) /\ (i - 1) + 1 = i
      BY <1>1, <2>2
    <3>2. q[i].from = q[i - 1].to
      BY <1>3, <3>1
    <3> QED
      BY <1>5, <1>6, <1>7, <3>1, <3>2
  <2> QED
    BY <2>1, <2>2
<1>9. ASSUME NEW i \in 1 .. n
      PROVE  f[i - 1] <= f[i] /\ (f[i] <= f[i - 1] <=> dist[q[i].to] = Reach(q[i]))
  <2>1. q[i].edge.cost \in Nat /\ s[i - 1] \in Nat /\ s[i] = s[i - 1] + q[i].edge.cost
    BY <1>2, <1>4, <1>6
  <2>2. f[i - 1] = s[i - 1] - dist[q[i].from] /\ f[i] = s[i] - dist[q[i].to]
    BY <1>7, <1>8
  <2>3. dist[q[i].to] \in Nat /\ dist[q[i].from] \in Nat
    BY <1>6, <1>8
  <2>4. dist[q[i].to] <= dist[q[i].from] + q[i].edge.cost
    BY <1>2, <1>8 DEF FoundOK, Reach
  <2>5. \A c, b, u, v \in Nat : v <= u + c =>
          b - u <= (b + c) - v /\ ((b + c) - v <= b - u <=> v = u + c)
    OBVIOUS
  <2>6. PICK c \in Nat, b \in Nat, u \in Nat, v \in Nat :
          c = q[i].edge.cost /\ b = s[i - 1] /\ u = dist[q[i].from] /\ v = dist[q[i].to]
    BY <2>1, <2>3
  <2>7. v <= u + c /\ f[i - 1] = b - u /\ f[i] = (b + c) - v /\ Reach(q[i]) = u + c
    BY <2>1, <2>2, <2>4, <2>6 DEF Reach
  <2>8. b - u <= (b + c) - v /\ ((b + c) - v <= b - u <=> v = u + c)
    BY <2>5, <2>7
  <2> QED
    BY <2>6, <2>7, <2>8
<1>10. \A i \in 0 .. n : f[0] <= f[i] /\ f[i] <= f[n]
  BY <1>1, <1>7, <1>9, Monotone
<1>11. n \in 1 .. n /\ n \in 0 .. n
  BY <1>1
<1>12. f[n] = Length(q) - dist[q[n].to] /\ dist[q[n].to] \in Nat /\ Length(q) \in Nat /\ 0 <= f[n]
  BY <1>4, <1>6, <1>7, <1>10, <1>11
<1>13. ASSUME Length(q) = dist[q[n].to], NEW i \in 1 .. n PROVE dist[q[i].to] = Reach(q[i])
  <2>1. f[n] = 0
    BY <1>12, <1>13
  <2>2. f[i] = 0 /\ f[i - 1] = 0
    <3>1. f[i] \in Int /\ f[i - 1] \in Int
      BY <1>6, <1>7
    <3> QED
      BY <1>6, <1>7, <1>10, <2>1, <3>1
  <2> QED
    BY <1>9, <2>2
<1>14. ASSUME \A i \in 1 .. n : dist[q[i].to] = Reach(q[i]) PROVE Length(q) = dist[q[n].to]
  <2> DEFINE g == [i \in 0 .. n |-> 0 - f[i]]
  <2>1. g \in [0 .. n -> Int] /\ \A i \in 0 .. n : g[i] = 0 - f[i] /\ f[i] \in Int
    BY <1>7
  <2>2. ASSUME NEW i \in 1 .. n PROVE g[i - 1] <= g[i]
    <3>1. f[i] <= f[i - 1] /\ g[i] = 0 - f[i] /\ g[i - 1] = 0 - f[i - 1] /\ f[i] \in Int /\ f[i - 1] \in Int
      BY <1>6, <1>9, <1>14, <2>1
    <3> HIDE DEF g
    <3> QED
      BY <3>1
  <2> HIDE DEF g
  <2>3. g[0] <= g[n] /\ 0 \in 0 .. n
    <3>1. \A i \in 1 .. n : g[i - 1] <= g[i]
      BY <2>2
    <3>2. \A i \in 0 .. n : g[0] <= g[i]
      BY <1>1, <2>1, <3>1, Monotone
    <3> QED
      BY <1>1, <1>11, <3>2
  <2>4. f[n] <= 0
    <3>1. g[0] = 0 /\ g[n] = 0 - f[n] /\ f[n] \in Int
      BY <1>7, <1>11, <2>1, <2>3
    <3> QED
      BY <2>3, <3>1
  <2> QED
    BY <1>12, <2>4
<1>15. q[n].to \in DOMAIN dist /\ dist[q[n].to] <= Length(q)
  BY <1>5, <1>11, <1>12
<1> QED
  BY <1>1, <1>12, <1>13, <1>14, <1>15 DEF n

(* A route as the reference defines it.                                    *)
LEMMA RouteIs ==
    ASSUME TypeOK, NEW t, NEW q \in Routes(t)
    PROVE  /\ q \in Seq(Arcs) /\ q # << >> /\ q[1].from \in placed /\ q[Len(q)].to = t /\ Chained(q)
           /\ \A i \in DOMAIN q : q[i].to \notin placed
<1>1. PICK k \in 1 .. Cardinality(Tables \ placed) :
         /\ q \in [1 .. k -> Arcs]
         /\ q[1].from \in placed /\ q[k].to = t
         /\ \A i \in 1 .. k : q[i].to \notin placed
         /\ \A i \in 1 .. (k - 1) : q[i].to = q[i + 1].from
  BY DEF Routes
<1>2. IsFiniteSet(Tables \ placed)
  BY BoundsAssumption, FS_Difference
<1>3. Cardinality(Tables \ placed) \in Nat
  BY <1>2, FS_CardinalityType
<1>4. k \in Nat /\ k # 0
  BY <1>3
<1>5. q \in Seq(Arcs) /\ Len(q) = k /\ DOMAIN q = 1 .. k
  BY <1>1, <1>4
<1>6. q # << >>
  BY <1>4, <1>5
<1> QED
  BY <1>1, <1>5, <1>6 DEF Chained

LEMMA IsRoute ==
    ASSUME TypeOK, NEW w \in Seq(Arcs), w # << >>, w[1].from \in placed, Chained(w),
           \A i \in DOMAIN w : w[i].to \notin placed,
           \A i, k \in DOMAIN w : w[i].to = w[k].to => i = k
    PROVE  w \in Routes(w[Len(w)].to)
<1> DEFINE n == Len(w)
           f == [i \in 1 .. n |-> w[i].to]
           T == Tables \ placed
<1>1. n \in Nat /\ n # 0 /\ DOMAIN w = 1 .. n /\ w \in [1 .. n -> Arcs]
  OBVIOUS
<1>2. \A i \in 1 .. n : w[i].to \in T
  BY <1>1, ArcType
<1>c. \A i \in 1 .. (n - 1) : w[i].to = w[i + 1].from
  BY DEF Chained
<1> HIDE DEF n
<1>3. f \in Injection(1 .. n, T)
  <2>1. f \in [1 .. n -> T]
    BY <1>2
  <2>2. \A i, k \in 1 .. n : f[i] = f[k] => i = k
    BY <1>1
  <2> QED
    BY <2>1, <2>2 DEF Injection, IsInjective
<1>4. IsFiniteSet(T)
  BY BoundsAssumption, FS_Difference
<1>5. Cardinality(1 .. n) <= Cardinality(T)
  BY <1>3, <1>4, FS_Injection
<1>6. Cardinality(1 .. n) = n
  <2>1. 1 \in Int /\ n \in Int /\ ~(1 > n) /\ n - 1 + 1 = n
    BY <1>1
  <2> QED
    BY <2>1, FS_Interval
<1>7. n \in 1 .. Cardinality(T)
  <2>1. Cardinality(T) \in Nat
    BY <1>4, FS_CardinalityType
  <2> QED
    BY <1>1, <1>5, <1>6, <2>1
<1> QED
  BY <1>1, <1>7, <1>c DEF Routes, n

(* A route from the tree that ends in a whole walk is that walk.           *)
LEMMA SameEnd ==
    ASSUME TypeOK, NEW w \in Seq(Arcs), w # << >>, w[1].from \in placed,
           NEW q \in Seq(Arcs), Chained(q), \A i \in DOMAIN q : q[i].to \notin placed, Ends(w, q)
    PROVE  q = w
<1> DEFINE n == Len(w)
           m == Len(q)
<1>1. /\ n \in Nat /\ n # 0 /\ m \in Nat /\ n <= m /\ DOMAIN w = 1 .. n /\ DOMAIN q = 1 .. m
      /\ \A i \in 1 .. n : w[i] = q[m - n + i]
  BY DEF Ends
<1>2. \A i \in 1 .. (m - 1) : q[i].to = q[i + 1].from
  BY DEF Chained
<1> HIDE DEF n, m
<1>3. n = m
  <2> SUFFICES ASSUME n # m PROVE FALSE
    OBVIOUS
  <2>1. m - n \in 1 .. (m - 1) /\ m - n \in 1 .. m /\ 1 \in 1 .. n
    BY <1>1
  <2>2. q[m - n].to = w[1].from
    BY <1>1, <1>2, <2>1
  <2> QED
    BY <1>1, <2>1, <2>2
<1>4. \A i \in 1 .. n : w[i] = q[i]
  <2> SUFFICES ASSUME NEW i \in 1 .. n PROVE w[i] = q[i]
    OBVIOUS
  <2>1. m - n + i = i
    BY <1>1, <1>3
  <2> QED
    BY <1>1, <2>1
<1> QED
  BY <1>1, <1>3, <1>4 DEF n, m

(* The only walk that is left, unless it was given up, is the only         *)
(* cheapest route: any other would have a walk of its own.                 *)
LEMMA ChooseForced ==
    ASSUME IInv, Choose, "ambiguous_join_path" \notin diag', Len(path') <= MaxWalk
    PROVE  \E t \in outstanding :
              /\ Cheapest(t) = {path'}
              /\ \A u \in outstanding : \A q \in Cheapest(u) : Length(path') <= Length(q)
<1>1. TypeOK /\ pc = "walk" /\ declared = << >> /\ MaxWalk \in Nat
  BY BoundsAssumption DEF IInv, Choose, DeclaredOK
<1>2. WalkOK /\ NoWayLost /\ FoundOK /\ AutoOK
  BY <1>1 DEF IInv, SearchOK
<1>3. PICK w \in walks : path' = w /\ walks = {w} /\ Complete(w)
  BY DEF Choose
<1>4. w \in Seq(Arcs) /\ Way(w) /\ Nearer(w) /\ Len(w) <= MaxWalk /\ Len(w) \in Nat
  BY <1>1, <1>2, <1>3 DEF WalkOK, TypeOK
<1>5. visited = DOMAIN dist /\ todo = {} /\ target \in outstanding /\ target \in DOMAIN dist /\ target \notin placed
  BY <1>1, <1>2 DEF WalkOK, AutoOK
<1>6. w # << >> /\ w[1].from \in placed /\ w[Len(w)].to = target /\ Chained(w)
  BY <1>1, <1>3, <1>4, <1>5 DEF Complete, At, Way
<1>7. \A i \in DOMAIN w : /\ w[i].to \notin placed /\ w[i].to \in DOMAIN dist
                          /\ dist[w[i].to] = Reach(w[i]) /\ dist[w[i].to] \in Nat
  <2>1. \A i \in DOMAIN w : w[i] \in Arcs /\ w[i].to \in Tables
    BY <1>1, <1>4, ArcType
  <2> QED
    BY <1>1, <1>2, <1>4, <2>1 DEF Way, FoundOK, TypeOK
<1>8. \A i, k \in DOMAIN w : w[i].to = w[k].to => i = k
  <2>1. DOMAIN w \subseteq Nat
    BY <1>4
  <2>2. \A i, k \in DOMAIN w : i < k => w[i].to # w[k].to
    BY <1>4, <1>7 DEF Nearer
  <2> QED
    BY <2>1, <2>2
<1>9. w \in Routes(target)
  BY <1>1, <1>4, <1>6, <1>7, <1>8, IsRoute
<1>10. Length(w) = dist[target]
  BY <1>1, <1>2, <1>4, <1>5, <1>6, <1>7, RouteLength
<1>11. ASSUME NEW u, NEW q \in Routes(u)
       PROVE  /\ u \in DOMAIN dist /\ dist[u] <= Length(q) /\ Length(q) \in Nat /\ dist[u] \in Nat
              /\ Length(q) = dist[u] => \A i \in DOMAIN q : dist[q[i].to] = Reach(q[i])
  <2>1. /\ q \in Seq(Arcs) /\ q # << >> /\ q[1].from \in placed /\ q[Len(q)].to = u /\ Chained(q)
    BY <1>1, <1>11, RouteIs
  <2>2. /\ u \in DOMAIN dist /\ dist[u] <= Length(q) /\ Length(q) \in Nat
        /\ Length(q) = dist[u] => \A i \in DOMAIN q : dist[q[i].to] = Reach(q[i])
    BY <1>1, <1>2, <1>5, <2>1, RouteLength
  <2> QED
    BY <1>1, <2>2 DEF TypeOK
<1>12. w \in Cheapest(target)
  BY <1>9, <1>10, <1>11 DEF Cheapest
<1>13. ASSUME NEW q \in Cheapest(target) PROVE q = w
  <2>1. q \in Routes(target) /\ Length(q) <= Length(w)
    BY <1>9, <1>13 DEF Cheapest
  <2>2. Length(q) = dist[target] /\ \A i \in DOMAIN q : dist[q[i].to] = Reach(q[i])
    BY <1>10, <1>11, <2>1
  <2>3. /\ q \in Seq(Arcs) /\ q # << >> /\ q[1].from \in placed /\ q[Len(q)].to = target /\ Chained(q)
        /\ \A i \in DOMAIN q : q[i].to \notin placed
    BY <1>1, <2>1, RouteIs
  <2>k. \A i \in DOMAIN q : q[i].to \in DOMAIN dist
    BY <1>1, <1>2, <1>5, <2>3, RouteKnown
  <2>4. \A i \in DOMAIN q : q[i].from \in DOMAIN dist
    <3> DEFINE n == Len(q)
    <3>a. n \in Nat /\ DOMAIN q = 1 .. n
      BY <2>3
    <3>b. Chained(q) => \A i \in 1 .. (n - 1) : q[i].to = q[i + 1].from
      BY DEF Chained
    <3>1. n \in Nat /\ DOMAIN q = 1 .. n /\ \A i \in 1 .. (n - 1) : q[i].to = q[i + 1].from
      BY <2>3, <3>a, <3>b
    <3>2. SUFFICES ASSUME NEW i \in 1 .. n PROVE q[i].from \in DOMAIN dist
      BY <3>1
    <3>3. CASE i = 1
      BY <1>2, <2>3, <3>3 DEF FoundOK
    <3>4. CASE i # 1
      <4>1. i - 1 \in 1 .. (n - 1) /\ i - 1 \in 1 .. n /\ (i - 1) + 1 = i
        BY <3>1, <3>4
      <4>2. q[i - 1].to = q[i].from
        BY <3>1, <4>1
      <4> QED
        BY <2>k, <3>1, <4>1, <4>2
    <3> QED
      BY <3>3, <3>4
  <2>5. \A i \in DOMAIN q : q[i] \in pred[q[i].to]
    BY <1>2, <1>5, <2>2, <2>3, <2>4 DEF FoundOK
  <2>6. Way(q)
    BY <2>3, <2>5 DEF Way
  <2>7. Ends(w, q)
    BY <1>1, <1>2, <1>3, <2>3, <2>6 DEF NoWayLost
  <2> QED
    BY <1>1, <1>4, <1>6, <2>3, <2>7, SameEnd
<1>14. ASSUME NEW u \in outstanding, NEW q \in Cheapest(u) PROVE Length(w) <= Length(q)
  <2>1. u \in DOMAIN dist /\ dist[u] <= Length(q) /\ Length(q) \in Nat /\ dist[u] \in Nat
    BY <1>11, <1>14 DEF Cheapest
  <2>2. dist[target] <= dist[u] /\ dist[target] \in Nat
    BY <1>1, <1>2, <1>5, <2>1 DEF WalkOK, TypeOK
  <2> QED
    BY <1>10, <2>1, <2>2
<1> QED
  BY <1>3, <1>5, <1>12, <1>13, <1>14

LEMMA StepForced == IInv /\ [Next]_vars =>
    (pc = "walk" /\ pc' = "place" /\ "ambiguous_join_path" \notin diag' /\ Len(path') <= MaxWalk =>
          \E t \in outstanding :
              /\ Cheapest(t) = {path'}
              /\ \A u \in outstanding : \A q \in Cheapest(u) : Length(path') <= Length(q))
<1>1. [Next]_vars /\ pc = "walk" /\ pc' = "place" => Choose
  BY DEF Next, vars, Returned, BeginPass, PassOver, PlaceJoin, EndExplicit, BeginSearch, Visit, Relax, NoPath,
     Searched, Aim, WalkBack, PlaceEdge, EndRound, EndAuto, CheckSize
<1> QED
  BY <1>1, ChooseForced

(* Whatever path the planner takes without asking was the only cheapest    *)
(* way to join its table, and no other table was nearer.                   *)
THEOREM JoinsAreForced == Spec => OnlyForcedJoins
<1>1. IInv /\ [Next]_vars =>
        [(pc = "walk" /\ pc' = "place" /\ "ambiguous_join_path" \notin diag' /\ Len(path') <= MaxWalk) =>
          \E t \in outstanding :
              /\ Cheapest(t) = {path'}
              /\ \A u \in outstanding : \A q \in Cheapest(u) : Length(path') <= Length(q)]_vars
  BY StepForced
<1> QED
  BY <1>1, Invariant, PTL DEF Spec, OnlyForcedJoins

(* ------------------------- The tree ------------------------------------ *)

Tree ==
    /\ plan \in Seq(F!Steps)
    /\ \A i \in DOMAIN plan :
          /\ plan[i].to # Root
          /\ plan[i].from # Root => \E k \in 1 .. (i - 1) : plan[k].to = plan[i].from
          /\ \A k \in 1 .. (i - 1) : plan[k].to # plan[i].to

LEMMA PlanTypes ==
    ASSUME Tree
    PROVE  /\ F!PlanSteps \subseteq F!Steps
           /\ Len(plan) \in Nat /\ DOMAIN plan = 1 .. Len(plan)
           /\ \A s \in F!PlanSteps : s.from \in Tables /\ s.to \in Tables /\ s.to # Root
           /\ \A i \in DOMAIN plan : plan[i] \in F!PlanSteps
<1>1. Len(plan) \in Nat /\ DOMAIN plan = 1 .. Len(plan) /\ \A i \in DOMAIN plan : plan[i] \in F!Steps
  BY DEF Tree
<1>2. F!PlanSteps \subseteq F!Steps
  BY <1>1 DEF F!PlanSteps
<1>3. \A s \in F!PlanSteps : s.from \in Tables /\ s.to \in Tables /\ s.to # Root
  BY <1>1 DEF F!PlanSteps, F!Steps, Tree
<1>4. \A i \in DOMAIN plan : plan[i] \in F!PlanSteps
  BY DEF F!PlanSteps
<1> QED
  BY <1>1, <1>2, <1>3, <1>4

(* Later steps do not lead to a table that a step uses.                    *)
LEMMA Order ==
    ASSUME Tree, NEW i \in DOMAIN plan, NEW k \in DOMAIN plan, k > i
    PROVE  plan[k].to # plan[i].to /\ plan[k].to # plan[i].from
<1>1. Len(plan) \in Nat /\ DOMAIN plan = 1 .. Len(plan)
  BY PlanTypes
<1>2. plan[k].to # Root /\ plan[k].to # plan[i].to /\ \A m \in 1 .. (k - 1) : plan[m].to # plan[k].to
  BY <1>1 DEF Tree
<1>3. plan[i].from # Root => \E m \in 1 .. (i - 1) : plan[m].to = plan[i].from
  BY DEF Tree
<1> QED
  BY <1>1, <1>2, <1>3

LEMMA OneStepTo ==
    ASSUME Tree, NEW s \in F!PlanSteps, NEW j \in F!PlanSteps, s.to = j.to
    PROVE  s = j
<1>1. PICK i \in DOMAIN plan, k \in DOMAIN plan : s = plan[i] /\ j = plan[k]
  BY DEF F!PlanSteps
<1>2. ~(i < k) /\ ~(k < i)
  BY <1>1, Order
<1> QED
  BY <1>1, <1>2, PlanTypes

LEMMA FromIsPlaced ==
    ASSUME Tree, NEW s \in F!PlanSteps
    PROVE  s.from # Root => \E j \in F!PlanSteps : j.to = s.from
<1>1. PICK i \in DOMAIN plan : s = plan[i]
  BY DEF F!PlanSteps
<1>2. s.from # Root => \E k \in 1 .. (i - 1) : plan[k].to = s.from
  BY <1>1 DEF Tree
<1>3. i \in 1 .. Len(plan) /\ Len(plan) \in Nat /\ \A k \in 1 .. Len(plan) : plan[k] \in F!PlanSteps
  BY PlanTypes
<1>4. \A k \in 1 .. (i - 1) : plan[k] \in F!PlanSteps
  BY <1>3
<1> QED
  BY <1>2, <1>4

(* ------------------------- What steps reach ---------------------------- *)

LEMMA Reaching ==
    ASSUME NEW S, NEW t \in Tables, \A s \in S : s.to \in Tables
    PROVE  /\ t \in F!Reached(S, t) /\ F!Reached(S, t) \subseteq Tables
           /\ \A s \in S : s.from \in F!Reached(S, t) => s.to \in F!Reached(S, t)
           /\ \A C \in SUBSET Tables :
                 (t \in C /\ \A s \in S : s.from \in C => s.to \in C) => F!Reached(S, t) \subseteq C
BY DEF F!Reached

LEMMA LastStep ==
    ASSUME NEW S, NEW t \in Tables, \A s \in S : s.to \in Tables,
           NEW u \in F!Reached(S, t), u # t
    PROVE  \E s \in S : s.to = u /\ s.from \in F!Reached(S, t)
<1> DEFINE C == F!Reached(S, t) \ {u}
<1> SUFFICES ASSUME \A s \in S : s.to = u => s.from \notin F!Reached(S, t) PROVE FALSE
  OBVIOUS
<1>1. C \in SUBSET Tables /\ t \in C
  BY Reaching
<1>2. \A s \in S : s.from \in C => s.to \in C
  BY Reaching
<1>3. F!Reached(S, t) \subseteq C
  <2> HIDE DEF C
  <2> QED BY <1>1, <1>2, Reaching
<1> QED
  BY <1>3

LEMMA BelowIs ==
    ASSUME Tree, NEW t \in Tables
    PROVE  /\ t \in F!Below(t) /\ F!Below(t) \subseteq Tables
           /\ \A s \in F!PlanSteps : s.from \in F!Below(t) => s.to \in F!Below(t)
           /\ \A C \in SUBSET Tables :
                 (t \in C /\ \A s \in F!PlanSteps : s.from \in C => s.to \in C) => F!Below(t) \subseteq C
           /\ \A u \in F!Below(t) : F!Below(u) \subseteq F!Below(t)
<1>1. \A s \in F!PlanSteps : s.to \in Tables
  BY PlanTypes
<1>2. /\ t \in F!Below(t) /\ F!Below(t) \subseteq Tables
      /\ \A s \in F!PlanSteps : s.from \in F!Below(t) => s.to \in F!Below(t)
      /\ \A C \in SUBSET Tables :
            (t \in C /\ \A s \in F!PlanSteps : s.from \in C => s.to \in C) => F!Below(t) \subseteq C
  BY <1>1, Reaching DEF F!Below
<1>3. ASSUME NEW u \in F!Below(t) PROVE F!Below(u) \subseteq F!Below(t)
  <2>1. u \in Tables
    BY <1>2
  <2> QED
    BY <1>1, <1>2, <2>1, Reaching DEF F!Below
<1> QED
  BY <1>2, <1>3

LEMMA StepAbove ==
    ASSUME Tree, NEW t \in Tables, NEW s \in F!PlanSteps, s.to \in F!Below(t), s.to # t
    PROVE  s.from \in F!Below(t)
<1>1. PICK j \in F!PlanSteps : j.to = s.to /\ j.from \in F!Below(t)
  BY PlanTypes, LastStep DEF F!Below
<1> QED
  BY <1>1, OneStepTo

LEMMA RootAbove ==
    ASSUME Tree, Root \in Tables, NEW t \in Tables, Root \in F!Below(t)
    PROVE  t = Root
<1>1. SUFFICES ASSUME t # Root PROVE FALSE
  OBVIOUS
<1>2. PICK j \in F!PlanSteps : j.to = Root
  BY <1>1, PlanTypes, LastStep DEF F!Below
<1> QED
  BY <1>2, PlanTypes

(* What holds below, and fails at t, fails at every table above t.         *)
LEMMA Upward ==
    ASSUME Tree, NEW t \in Tables, NEW Bad \in SUBSET Tables, t \notin Bad,
           \A s \in F!PlanSteps : t \in F!Below(s.to) /\ s.from \in Bad => s.to \in Bad,
           NEW u \in Tables, t \in F!Below(u)
    PROVE  u \notin Bad
<1> DEFINE C == {x \in Tables : x \in Bad \/ t \notin F!Below(x)}
<1> SUFFICES ASSUME u \in Bad PROVE FALSE
  OBVIOUS
<1>1. u \in C /\ C \in SUBSET Tables
  OBVIOUS
<1>2. ASSUME NEW s \in F!PlanSteps, s.from \in C PROVE s.to \in C
  <2>1. s.to \in Tables /\ s.from \in Tables
    BY PlanTypes
  <2>2. CASE t \in F!Below(s.to)
    <3>1. s.to \in F!Below(s.from)
      BY <2>1, BelowIs
    <3>2. t \in F!Below(s.from)
      BY <2>1, <2>2, <3>1, BelowIs
    <3>3. s.from \in Bad
      BY <1>2, <3>2
    <3> QED
      BY <2>1, <2>2, <3>3
  <2>3. CASE t \notin F!Below(s.to)
    BY <2>1, <2>3
  <2> QED
    BY <2>2, <2>3
<1>3. F!Below(u) \subseteq C
  <2> HIDE DEF C
  <2> QED BY <1>1, <1>2, BelowIs
<1>4. t \in C
  BY <1>3
<1> QED
  BY <1>4, BelowIs

(* ------------------------- Branches ------------------------------------ *)

LEMMA BranchesAre ==
    ASSUME Tree, Root \in Tables, NEW b \in F!Branches
    PROVE  /\ b \in Tables /\ b # Root /\ Root \notin F!Below(b)
           /\ F!RootStep(b) \in F!PlanSteps /\ F!RootStep(b).to = b /\ F!RootStep(b).from = Root
<1>1. PICK s \in F!PlanSteps : s.from = Root /\ s.to = b
  BY DEF F!Branches, F!Targets
<1>2. F!RootStep(b) \in F!PlanSteps /\ F!RootStep(b).to = b
  BY <1>1 DEF F!RootStep
<1>3. F!RootStep(b) = s
  BY <1>1, <1>2, OneStepTo
<1> QED
  BY <1>1, <1>2, <1>3, PlanTypes, RootAbove

LEMMA OneBranch ==
    ASSUME Tree, Root \in Tables, NEW b \in F!Branches, NEW c \in F!Branches,
           NEW t \in F!Below(b), t \in F!Below(c)
    PROVE  b = c
<1> SUFFICES ASSUME b # c PROVE FALSE
  OBVIOUS
<1> DEFINE C == F!Below(b) \ F!Below(c)
<1>0. b \in Tables /\ c \in Tables /\ Root \notin F!Below(b) /\ Root \notin F!Below(c)
  BY BranchesAre
<1>1. C \in SUBSET Tables
  BY <1>0, BelowIs
<1>2. b \in C
  <2>1. b \notin F!Below(c)
    BY <1>0, BranchesAre, StepAbove
  <2> QED
    BY <1>0, <2>1, BelowIs
<1>3. ASSUME NEW s \in F!PlanSteps, s.from \in C PROVE s.to \in C
  <2>1. s.to \in F!Below(b)
    BY <1>0, <1>3, BelowIs
  <2>2. s.to # c
    BY <1>0, <1>3, BranchesAre, OneStepTo
  <2>3. s.to \notin F!Below(c)
    BY <1>0, <1>3, <2>2, StepAbove
  <2> QED
    BY <2>1, <2>3
<1>4. F!Below(b) \subseteq C
  <2> HIDE DEF C
  <2> QED BY <1>0, <1>1, <1>2, <1>3, BelowIs
<1> QED
  BY <1>4

LEMMA InSomeBranch ==
    ASSUME Tree, Root \in Tables, NEW t \in F!Placed, t # Root
    PROVE  \E b \in F!Branches : t \in F!Below(b)
<1> DEFINE Stray == {i \in DOMAIN plan : \A b \in F!Branches : plan[i].to \notin F!Below(b)}
<1>1. PICK n \in DOMAIN plan : plan[n].to = t
  BY DEF F!Placed, F!Targets, F!PlanSteps
<1>2. SUFFICES ASSUME Stray # {} PROVE FALSE
  BY <1>1
<1>3. PICK i \in Stray : \A k \in Stray : i =< k
  <2>1. Stray \in SUBSET Nat
    BY PlanTypes
  <2> HIDE DEF Stray
  <2> QED BY <1>2, <2>1, LeastNatural
<1>4. plan[i] \in F!PlanSteps /\ plan[i].to \in Tables
  BY PlanTypes
<1>5. plan[i].from # Root
  <2> SUFFICES ASSUME plan[i].from = Root PROVE FALSE
    OBVIOUS
  <2>1. plan[i].to \in F!Branches
    BY <1>4 DEF F!Branches, F!Targets
  <2> QED
    BY <1>4, <2>1, BelowIs
<1>6. PICK k \in 1 .. (i - 1) : plan[k].to = plan[i].from
  BY <1>3, <1>5 DEF Tree
<1>7. k \in DOMAIN plan /\ k \notin Stray
  BY <1>3, <1>6, PlanTypes
<1>8. PICK b \in F!Branches : plan[i].from \in F!Below(b)
  BY <1>6, <1>7
<1> QED
  BY <1>4, <1>8, BranchesAre, BelowIs

(* ------------------------- Joined rows --------------------------------- *)

JoinedRow == [Tables -> 0 .. N]

(* The row x, joined along the steps of S.                                 *)
JoinOf(r, S, d, x) ==
    /\ r \in JoinedRow
    /\ \A u \in Tables \ F!Targets(S) : r[u] = x[u]
    /\ \A s \in S : F!Linked(s, d, r)

LEMMA JoinedIs ==
    ASSUME NEW S, \A s \in S : s.to \in Tables, NEW d, NEW rows \in SUBSET JoinedRow, NEW r
    PROVE  r \in F!Joined(S, d, rows) <=> \E x \in rows : JoinOf(r, S, d, x)
<1>1. ASSUME r \in F!Joined(S, d, rows) PROVE \E x \in rows : JoinOf(r, S, d, x)
  <2>0. r \in {F!Filled(x, f) : x \in rows, f \in [F!Targets(S) -> 0 .. N]}
    BY <1>1 DEF F!Joined
  <2>1. PICK x \in rows, f \in [F!Targets(S) -> 0 .. N] : r = F!Filled(x, f)
    BY <2>0
  <2>2. \A s \in S : F!Linked(s, d, r)
    BY <1>1 DEF F!Joined
  <2>3. x \in JoinedRow
    OBVIOUS
  <2>4. r \in JoinedRow
    BY <2>1, <2>3 DEF F!Filled, JoinedRow, F!Targets
  <2>5. \A u \in Tables \ F!Targets(S) : r[u] = x[u]
    BY <2>1, <2>3 DEF F!Filled, JoinedRow
  <2> QED
    BY <2>2, <2>4, <2>5 DEF JoinOf
<1>2. ASSUME NEW x \in rows, JoinOf(r, S, d, x) PROVE r \in F!Joined(S, d, rows)
  <2> DEFINE f == [u \in F!Targets(S) |-> r[u]]
  <2>1. x \in JoinedRow /\ r \in JoinedRow /\ \A u \in Tables \ F!Targets(S) : r[u] = x[u]
    BY <1>2 DEF JoinOf
  <2>2. F!Targets(S) \subseteq Tables
    BY DEF F!Targets
  <2>3. f \in [F!Targets(S) -> 0 .. N]
    BY <2>1, <2>2 DEF JoinedRow
  <2>4. r = F!Filled(x, f)
    BY <2>1, <2>2 DEF F!Filled, JoinedRow
  <2>6. \A s \in S : F!Linked(s, d, r)
    BY <1>2 DEF JoinOf
  <2> HIDE DEF f
  <2> QED
    <3>1. r \in {F!Filled(z, g) : z \in rows, g \in [F!Targets(S) -> 0 .. N]}
      BY <2>3, <2>4
    <3> QED BY <2>6, <3>1 DEF F!Joined
<1> QED
  BY <1>1, <1>2

(* Optional joins always find a row.                                       *)
LEMMA Fills ==
    ASSUME Tree, NEW S \in SUBSET F!PlanSteps, \A s \in S : ~s.inner,
           NEW d, NEW x \in JoinedRow
    PROVE  \E r : JoinOf(r, S, d, x)
<1> DEFINE Upto(n, r) == /\ r \in JoinedRow
                         /\ \A u \in Tables \ F!Targets(S) : r[u] = x[u]
                         /\ \A i \in 1 .. n : plan[i] \in S => F!Linked(plan[i], d, r)
           Hard == {n \in 0 .. Len(plan) : \A r \in JoinedRow : ~Upto(n, r)}
<1>0. Len(plan) \in Nat /\ DOMAIN plan = 1 .. Len(plan)
  BY PlanTypes
<1>1. ASSUME Hard # {} PROVE FALSE
  <2>1. PICK n \in Hard : \A k \in Hard : n =< k
    <3>1. Hard \in SUBSET Nat
      BY <1>0
    <3> HIDE DEF Hard
    <3> QED BY <1>1, <3>1, LeastNatural
  <2>2. n # 0
    <3>1. Upto(0, x)
      OBVIOUS
    <3> QED BY <2>1, <3>1
  <2>3. n \in 1 .. Len(plan) /\ n - 1 \in 0 .. Len(plan) /\ ~(n =< n - 1)
    BY <1>0, <2>1, <2>2
  <2>4. n - 1 \notin Hard
    <3> HIDE DEF Hard
    <3> QED BY <2>1, <2>3
  <2>5. PICK r \in JoinedRow : Upto(n - 1, r)
    BY <2>3, <2>4
  <2> DEFINE s == plan[n]
             far == F!Matching(s, d, r[s.from])
             c == IF far = {} THEN 0 ELSE CHOOSE z \in far : TRUE
             q == [r EXCEPT ![s.to] = c]
  <2>6. s \in F!PlanSteps /\ s.from \in Tables /\ s.to \in Tables /\ s.from # s.to
    <3>1. s \in F!PlanSteps /\ s.from \in Tables /\ s.to \in Tables /\ s.to # Root
      BY <1>0, <2>3, PlanTypes
    <3>2. s.from # Root => \E k \in 1 .. (n - 1) : plan[k].to = s.from
      BY <1>0, <2>3 DEF Tree
    <3>3. \A k \in 1 .. (n - 1) : plan[k].to # s.to
      BY <1>0, <2>3 DEF Tree
    <3> QED BY <3>1, <3>2, <3>3
  <2>7. CASE s \in S
    <3>1. far \subseteq 1 .. N /\ (far # {} => c \in far) /\ (far = {} => c = 0)
      BY DEF F!Matching, F!Rows
    <3>2. q \in JoinedRow /\ q[s.to] = c /\ \A u \in Tables \ {s.to} : q[u] = r[u]
      <4>1. c \in 0 .. N
        BY <3>1, RowsAssumption
      <4> HIDE DEF c, far, s
      <4> QED BY <2>6, <4>1 DEF JoinedRow
    <3>3. F!Linked(s, d, q)
      <4>1. q[s.from] = r[s.from]
        <5> HIDE DEF c, far, q
        <5> QED BY <2>6, <3>2
      <4>2. ~s.inner
        BY <2>7
      <4> HIDE DEF c, q
      <4> QED BY <3>1, <3>2, <4>1, <4>2 DEF F!Linked
    <3>4. ASSUME NEW i \in 1 .. n, plan[i] \in S PROVE F!Linked(plan[i], d, q)
      <4>1. CASE i = n
        BY <3>3, <4>1
      <4>2. CASE i # n
        <5>1. i \in 1 .. (n - 1) /\ i \in DOMAIN plan /\ n \in DOMAIN plan /\ n > i
          BY <1>0, <2>3, <4>2
        <5>2. s.to # plan[i].to /\ s.to # plan[i].from
          BY <5>1, Order
        <5>3. F!Linked(plan[i], d, r)
          BY <2>5, <3>4, <5>1
        <5>4. plan[i].to \in Tables /\ plan[i].from \in Tables
          BY <5>1, PlanTypes
        <5>5. q[plan[i].to] = r[plan[i].to] /\ q[plan[i].from] = r[plan[i].from]
          <6> HIDE DEF c, far, q, s
          <6> QED BY <3>2, <5>2, <5>4
        <5> HIDE DEF c, far, q, s
        <5> QED BY <5>3, <5>5 DEF F!Linked
      <4> QED BY <4>1, <4>2
    <3>5. s.to \in F!Targets(S)
      BY <2>7 DEF F!Targets
    <3>6. \A u \in Tables \ F!Targets(S) : q[u] = x[u]
      <4> HIDE DEF c, far, q, s
      <4> QED BY <2>5, <3>2, <3>5
    <3>7. Upto(n, q)
      <4> HIDE DEF c, far, q, s
      <4> QED BY <3>2, <3>4, <3>6
    <3> HIDE DEF q
    <3> QED BY <2>1, <3>2, <3>7
  <2>8. CASE s \notin S
    <3>1. ASSUME NEW i \in 1 .. n, plan[i] \in S PROVE F!Linked(plan[i], d, r)
      <4>1. i \in 1 .. (n - 1)
        BY <1>0, <2>3, <2>8, <3>1
      <4> QED BY <2>5, <3>1, <4>1
    <3>2. Upto(n, r)
      BY <2>5, <3>1
    <3> QED BY <2>1, <3>2
  <2> QED BY <2>7, <2>8
<1>2. PICK r \in JoinedRow : Upto(Len(plan), r)
  BY <1>0, <1>1
<1>3. \A s \in S : F!Linked(s, d, r)
  <2> TAKE s \in S
  <2>1. PICK i \in DOMAIN plan : s = plan[i]
    BY DEF F!PlanSteps
  <2> QED BY <1>0, <1>2, <2>1
<1>4. JoinOf(r, S, d, x)
  BY <1>2, <1>3 DEF JoinOf
<1> QED
  BY <1>4

(* Along many-to-one and one-to-one steps there is only one.               *)
LEMMA OneJoin ==
    ASSUME Tree, NEW S \in SUBSET F!PlanSteps, \A s \in S : ~s.many,
           NEW d, NEW x, NEW y, NEW r, NEW q,
           JoinOf(r, S, d, x), JoinOf(q, S, d, y),
           \A u \in Tables \ F!Targets(S) : x[u] = y[u]
    PROVE  r = q
<1> DEFINE Apart == {i \in DOMAIN plan : plan[i] \in S /\ r[plan[i].to] # q[plan[i].to]}
<1>0. Len(plan) \in Nat /\ DOMAIN plan = 1 .. Len(plan)
  BY PlanTypes
<1>1. /\ r \in JoinedRow /\ q \in JoinedRow
      /\ \A u \in Tables \ F!Targets(S) : r[u] = q[u]
      /\ \A s \in S : F!Linked(s, d, r) /\ F!Linked(s, d, q)
  BY DEF JoinOf
<1>2. ASSUME Apart # {} PROVE FALSE
  <2>1. PICK i \in Apart : \A k \in Apart : i =< k
    <3>1. Apart \in SUBSET Nat
      BY <1>0
    <3> HIDE DEF Apart
    <3> QED BY <1>2, <3>1, LeastNatural
  <2>2. i \in DOMAIN plan /\ plan[i] \in S /\ r[plan[i].to] # q[plan[i].to]
    OBVIOUS
  <2>3. plan[i].from \in Tables /\ ~plan[i].many
    BY <2>2, PlanTypes
  <2>4. r[plan[i].from] # q[plan[i].from]
    <3> SUFFICES ASSUME r[plan[i].from] = q[plan[i].from] PROVE FALSE
      OBVIOUS
    <3>1. F!Linked(plan[i], d, r) /\ F!Linked(plan[i], d, q)
      BY <1>1, <2>2
    <3>2. \A c, e \in F!Matching(plan[i], d, r[plan[i].from]) : c = e
      BY <2>3 DEF F!Matching
    <3> QED BY <2>2, <3>1, <3>2 DEF F!Linked
  <2>5. PICK s \in S : s.to = plan[i].from
    BY <1>1, <2>3, <2>4 DEF F!Targets
  <2>6. PICK k \in DOMAIN plan : s = plan[k]
    BY DEF F!PlanSteps
  <2>7. k \in Apart
    BY <2>4, <2>5, <2>6
  <2>8. i =< k
    <3> HIDE DEF Apart
    <3> QED BY <2>1, <2>7
  <2>9. ~(k > i)
    BY <2>2, <2>5, <2>6, Order
  <2>10. k = i
    BY <1>0, <2>2, <2>6, <2>8, <2>9
  <2>11. plan[i].from = plan[i].to
    BY <2>5, <2>6, <2>10
  <2>12. plan[i].to # Root /\ plan[i].from # Root => \E m \in 1 .. (i - 1) : plan[m].to = plan[i].from
    BY <2>2 DEF Tree
  <2> QED BY <2>2, <2>11, <2>12 DEF Tree
<1>3. ASSUME NEW u \in F!Targets(S) PROVE r[u] = q[u]
  <2>1. PICK s \in S : s.to = u
    BY DEF F!Targets
  <2>2. PICK i \in DOMAIN plan : s = plan[i]
    BY DEF F!PlanSteps
  <2> QED BY <1>2, <2>1, <2>2
<1>4. \A u \in Tables : r[u] = q[u]
  BY <1>1, <1>3
<1> QED
  BY <1>1, <1>4 DEF JoinedRow

(* ------------------------- Chains of records --------------------------- *)

(* The records y of the tables above t, each of them the one the next      *)
(* record points to.                                                       *)
Chain(t, d, y) ==
    /\ y \in JoinedRow
    /\ \A s \in F!PlanSteps : t \in F!Below(s.to) =>
          /\ s.many /\ y[s.to] \in F!Rows /\ y[s.from] \in F!Rows
          /\ d[s.to][y[s.to]] = y[s.from]

LEMMA RowNumbers == /\ 0 \notin F!Rows /\ F!Rows \subseteq 0 .. N /\ 0 \in 0 .. N
                    /\ \A v \in 0 .. N : v # 0 => v \in F!Rows
BY RowsAssumption DEF F!Rows

LEMMA MatchingIs ==
    ASSUME NEW s, NEW d, NEW p, NEW c \in F!Matching(s, d, p)
    PROVE  c \in F!Rows /\ p # 0 /\ (s.many => d[s.to][c] = p)
BY DEF F!Matching

(* A joined row with a record of t has a record of each table above.       *)
LEMMA RowHasChain ==
    ASSUME Tree, NEW t \in Tables, F!OwnedByRoot(t), NEW d, NEW x \in JoinedRow, x[t] # 0,
           \A s \in F!PlanSteps : t \in F!Below(s.to) => F!Linked(s, d, x)
    PROVE  Chain(t, d, x)
<1> DEFINE Bad == {u \in Tables : x[u] = 0}
<1>1. ASSUME NEW s \in F!PlanSteps, t \in F!Below(s.to), s.from \in Bad PROVE s.to \in Bad
  <2>1. F!Matching(s, d, x[s.from]) = {}
    BY <1>1, MatchingIs
  <2>2. F!Linked(s, d, x)
    BY <1>1
  <2>3. x[s.to] = 0
    BY <2>1, <2>2 DEF F!Linked
  <2> QED BY <2>3, PlanTypes
<1>2. ASSUME NEW u \in Tables, t \in F!Below(u) PROVE u \notin Bad
  <2>1. t \notin Bad /\ Bad \in SUBSET Tables
    OBVIOUS
  <2> HIDE DEF Bad
  <2> QED BY <1>1, <1>2, <2>1, Upward
<1>3. ASSUME NEW s \in F!PlanSteps, t \in F!Below(s.to)
      PROVE  /\ s.many /\ x[s.to] \in F!Rows /\ x[s.from] \in F!Rows
             /\ d[s.to][x[s.to]] = x[s.from]
  <2>1. s.many
    BY <1>3 DEF F!OwnedByRoot
  <2>2. s.to \in Tables /\ s.from \in Tables
    BY PlanTypes
  <2>3. x[s.to] # 0
    BY <1>2, <1>3, <2>2
  <2>4. F!Linked(s, d, x)
    BY <1>3
  <2>5. x[s.to] \in F!Matching(s, d, x[s.from])
    BY <2>3, <2>4 DEF F!Linked
  <2>6. x[s.to] \in F!Rows /\ x[s.from] # 0 /\ d[s.to][x[s.to]] = x[s.from]
    BY <2>1, <2>5, MatchingIs
  <2>7. x[s.from] \in 0 .. N
    BY <2>2 DEF JoinedRow
  <2> QED BY <2>1, <2>6, <2>7, RowNumbers
<1> QED
  BY <1>3 DEF Chain

(* A record of t has one chain.                                            *)
LEMMA OneChain ==
    ASSUME Tree, NEW t \in Tables, NEW d, NEW x, NEW y, Chain(t, d, x), Chain(t, d, y),
           x[t] = y[t], NEW u \in Tables, t \in F!Below(u)
    PROVE  x[u] = y[u]
<1> DEFINE Bad == {w \in Tables : x[w] # y[w]}
<1>1. ASSUME NEW s \in F!PlanSteps, t \in F!Below(s.to), s.from \in Bad PROVE s.to \in Bad
  <2>1. d[s.to][x[s.to]] = x[s.from] /\ d[s.to][y[s.to]] = y[s.from]
    BY <1>1 DEF Chain
  <2>2. x[s.from] # y[s.from]
    BY <1>1
  <2>3. x[s.to] # y[s.to]
    BY <2>1, <2>2
  <2> QED BY <2>3, PlanTypes
<1>2. t \notin Bad /\ Bad \in SUBSET Tables
  OBVIOUS
<1>3. u \notin Bad
  <2> HIDE DEF Bad
  <2> QED BY <1>1, <1>2, Upward
<1> QED
  BY <1>3

(* ------------------------- Derived tables ------------------------------ *)

(* What the figures of t need of the derived tables they come through.     *)
Deep(t) ==
    /\ Tree /\ Root \in Tables
    /\ t \in F!Placed /\ t # Root /\ F!OwnedByRoot(t)
    /\ \A s \in F!Layers(t) :
          /\ report.filter \cap F!Inline(s.to) = {}
          /\ \A j \in F!PlanSteps : j.to \in F!Inline(s.to) => ~j.inner

LEMMA InlineIs ==
    ASSUME Tree, NEW u \in Tables
    PROVE  /\ u \in F!Inline(u) /\ F!Inline(u) \subseteq Tables
           /\ \A w \in F!Inline(u) : w # u =>
                 \E j \in F!PlanSteps : ~j.many /\ j.to = w /\ j.from \in F!Inline(u)
<1> DEFINE S == {s \in F!PlanSteps : ~s.many}
<1>1. \A s \in S : s.to \in Tables
  BY PlanTypes
<1>2. F!Inline(u) = F!Reached(S, u)
  BY DEF F!Inline
<1>3. u \in F!Inline(u) /\ F!Inline(u) \subseteq Tables
  <2> HIDE DEF S
  <2> QED BY <1>1, <1>2, Reaching
<1>4. ASSUME NEW w \in F!Inline(u), w # u
      PROVE \E j \in F!PlanSteps : ~j.many /\ j.to = w /\ j.from \in F!Inline(u)
  <2>1. \E j \in S : j.to = w /\ j.from \in F!Reached(S, u)
    <3> HIDE DEF S
    <3> QED BY <1>1, <1>2, <1>4, LastStep
  <2> QED BY <1>2, <2>1
<1> QED
  BY <1>3, <1>4

LEMMA LayersAre ==
    ASSUME NEW t, Deep(t)
    PROVE  /\ t \in Tables
           /\ \A s \in F!PlanSteps : t \in F!Below(s.to) => s.many /\ s \in F!Layers(t)
           /\ \A s \in F!Layers(t) : /\ s \in F!PlanSteps /\ t \in F!Below(s.to) /\ s.many
                                     /\ s.from \in Tables /\ s.to \in Tables /\ s.to # Root
           /\ \A s, j \in F!Layers(t) : s.to = j.to => s = j
<1>1. Tree
  BY DEF Deep
<1>2. t \in Tables
  BY <1>1, PlanTypes DEF Deep, F!Placed, F!Targets
<1>3. \A s \in F!PlanSteps : t \in F!Below(s.to) => s.many
  BY DEF Deep, F!OwnedByRoot
<1>4. \A s \in F!PlanSteps : t \in F!Below(s.to) => s \in F!Layers(t)
  BY <1>3 DEF F!Layers
<1>5. \A s \in F!Layers(t) : s \in F!PlanSteps /\ t \in F!Below(s.to)
  BY DEF F!Layers
<1> QED
  BY <1>1, <1>2, <1>3, <1>4, <1>5, PlanTypes, OneStepTo

(* At the grain of a layer, no other table above t is.                     *)
LEMMA NoneInline ==
    ASSUME NEW t, Deep(t), NEW o \in F!Layers(t), NEW j \in F!PlanSteps,
           t \in F!Below(j.to), j.to \in F!Inline(o.to)
    PROVE  o.to = j.to
<1>1. Tree /\ o.to \in Tables
  BY LayersAre DEF Deep
<1>2. SUFFICES ASSUME j.to # o.to PROVE FALSE
  OBVIOUS
<1>3. PICK k \in F!PlanSteps : ~k.many /\ k.to = j.to
  BY <1>1, <1>2, InlineIs
<1>4. k = j
  BY <1>1, <1>3, OneStepTo
<1> QED
  BY <1>3, <1>4, LayersAre

LEMMA AroundIs ==
    ASSUME NEW t, Deep(t), NEW s \in F!Layers(t), s.from # Root
    PROVE  F!Around(s, t) \in F!Layers(t) /\ F!Around(s, t).to = s.from
<1>1. Tree /\ s \in F!PlanSteps /\ t \in F!Below(s.to) /\ s.from \in Tables /\ t \in Tables
  BY LayersAre DEF Deep
<1>2. PICK j \in F!PlanSteps : j.to = s.from
  BY <1>1, FromIsPlaced
<1>3. t \in F!Below(j.to)
  BY <1>1, <1>2, BelowIs
<1>4. j \in F!Layers(t) /\ s.from \in F!Inline(j.to)
  BY <1>1, <1>2, <1>3, LayersAre, InlineIs
<1>5. F!Around(s, t) \in F!Layers(t) /\ s.from \in F!Inline(F!Around(s, t).to)
  BY <1>4 DEF F!Around
<1>6. F!Around(s, t).to = j.to
  BY <1>2, <1>3, <1>5, NoneInline
<1> QED
  BY <1>2, <1>5, <1>6

LEMMA InmostIs ==
    ASSUME NEW t, Deep(t)
    PROVE  F!Inmost(t) \in F!Layers(t) /\ F!Inmost(t).to = t
<1>1. Tree /\ t \in Tables /\ t \in F!Below(t)
  BY LayersAre, BelowIs DEF Deep
<1>2. PICK j \in F!PlanSteps : j.to = t
  BY DEF Deep, F!Placed, F!Targets
<1>3. j \in F!Layers(t) /\ t \in F!Inline(j.to)
  BY <1>1, <1>2, LayersAre, InlineIs
<1>4. F!Inmost(t) \in F!Layers(t) /\ t \in F!Inline(F!Inmost(t).to)
  BY <1>3 DEF F!Inmost
<1>5. F!Inmost(t).to = j.to
  BY <1>1, <1>2, <1>4, NoneInline
<1> QED
  BY <1>2, <1>4, <1>5

GrainSteps(s) == {j \in F!PlanSteps : j.to \in F!Inline(s.to) \ {s.to}}

LEMMA OnlyIs ==
    ASSUME NEW u \in Tables, NEW v \in 0 .. N
    PROVE  F!Only(u, v) \in JoinedRow /\ F!Only(u, v)[u] = v
BY RowNumbers DEF F!Only, JoinedRow

LEMMA GrainIs ==
    ASSUME NEW t, Deep(t), NEW s \in F!Layers(t), NEW d, NEW p, NEW r
    PROVE  r \in F!Grain(s, d, p) <=>
               \E c \in F!Matching(s, d, p) : JoinOf(r, GrainSteps(s), d, F!Only(s.to, c))
<1> DEFINE Base == {F!Only(s.to, c) : c \in F!Matching(s, d, p)}
<1>1. s.to \in Tables /\ report.filter \cap F!Inline(s.to) = {}
  BY LayersAre DEF Deep
<1>2. Base \in SUBSET JoinedRow
  <2>1. ASSUME NEW c \in F!Matching(s, d, p) PROVE F!Only(s.to, c) \in JoinedRow
    <3>1. c \in 0 .. N
      BY MatchingIs, RowNumbers
    <3> QED BY <1>1, <3>1, OnlyIs
  <2> QED BY <2>1
<1>3. \A j \in GrainSteps(s) : j.to \in Tables
  BY PlanTypes DEF GrainSteps, Deep
<1>4. r \in F!Grain(s, d, p) <=> r \in F!Joined(GrainSteps(s), d, Base)
  <2>1. F!Kept(r, report.filter \cap F!Inline(s.to))
    BY <1>1 DEF F!Kept
  <2> QED BY <2>1 DEF F!Grain, GrainSteps
<1>5. r \in F!Joined(GrainSteps(s), d, Base) <=> \E x \in Base : JoinOf(r, GrainSteps(s), d, x)
  <2> HIDE DEF Base
  <2> QED BY <1>2, <1>3, JoinedIs
<1> QED
  BY <1>4, <1>5

LEMMA GrainRows ==
    ASSUME NEW t, Deep(t), NEW s \in F!Layers(t), NEW d, NEW p
    PROVE  /\ \A r \in F!Grain(s, d, p) : r \in JoinedRow /\ r[s.to] \in F!Matching(s, d, p)
           /\ \A c \in F!Matching(s, d, p) : \E r \in F!Grain(s, d, p) : r[s.to] = c
<1>1. Tree /\ s \in F!PlanSteps /\ s.to \in Tables
  BY LayersAre DEF Deep
<1>2. s.to \notin F!Targets(GrainSteps(s)) /\ GrainSteps(s) \in SUBSET F!PlanSteps
  BY DEF F!Targets, GrainSteps
<1>3. ASSUME NEW c \in F!Matching(s, d, p) PROVE c \in 0 .. N
  BY MatchingIs, RowNumbers
<1>4. ASSUME NEW r \in F!Grain(s, d, p) PROVE r \in JoinedRow /\ r[s.to] \in F!Matching(s, d, p)
  <2>1. PICK c \in F!Matching(s, d, p) : JoinOf(r, GrainSteps(s), d, F!Only(s.to, c))
    BY GrainIs
  <2>2. r \in JoinedRow /\ r[s.to] = F!Only(s.to, c)[s.to]
    BY <1>1, <1>2, <2>1 DEF JoinOf
  <2> QED BY <1>1, <1>3, <2>2, OnlyIs
<1>5. ASSUME NEW c \in F!Matching(s, d, p) PROVE \E r \in F!Grain(s, d, p) : r[s.to] = c
  <2>1. F!Only(s.to, c) \in JoinedRow /\ F!Only(s.to, c)[s.to] = c
    BY <1>1, <1>3, OnlyIs
  <2>2. \A j \in GrainSteps(s) : ~j.inner
    BY DEF Deep, GrainSteps
  <2>3. PICK r : JoinOf(r, GrainSteps(s), d, F!Only(s.to, c))
    BY <1>1, <1>2, <2>1, <2>2, Fills
  <2>4. r \in F!Grain(s, d, p)
    BY <2>3, GrainIs
  <2>5. r[s.to] = c
    BY <1>1, <1>2, <2>1, <2>3 DEF JoinOf
  <2> QED BY <2>4, <2>5
<1> QED
  BY <1>4, <1>5

LEMMA OneGrainRow ==
    ASSUME NEW t, Deep(t), NEW s \in F!Layers(t), NEW d, NEW p, NEW z,
           NEW r \in F!Grain(s, d, p), NEW q \in F!Grain(s, d, z), r[s.to] = q[s.to]
    PROVE  r = q
<1>1. Tree /\ s.to \in Tables
  BY LayersAre DEF Deep
<1>2. s.to \notin F!Targets(GrainSteps(s)) /\ GrainSteps(s) \in SUBSET F!PlanSteps
  BY DEF F!Targets, GrainSteps
<1>3. PICK c \in F!Matching(s, d, p) : JoinOf(r, GrainSteps(s), d, F!Only(s.to, c))
  BY GrainIs
<1>4. PICK e \in F!Matching(s, d, z) : JoinOf(q, GrainSteps(s), d, F!Only(s.to, e))
  BY GrainIs
<1>5. r[s.to] = F!Only(s.to, c)[s.to] /\ q[s.to] = F!Only(s.to, e)[s.to]
  BY <1>1, <1>2, <1>3, <1>4 DEF JoinOf
<1>6. c = e
  <2>1. c \in 0 .. N /\ e \in 0 .. N
    BY MatchingIs, RowNumbers
  <2>2. F!Only(s.to, c)[s.to] = c /\ F!Only(s.to, e)[s.to] = e
    BY <1>1, <2>1, OnlyIs
  <2> QED BY <1>5, <2>2
<1>7. ASSUME NEW j \in GrainSteps(s) PROVE ~j.many
  <2>1. PICK k \in F!PlanSteps : ~k.many /\ k.to = j.to
    BY <1>1, InlineIs DEF GrainSteps
  <2>2. k = j
    BY <1>1, <2>1, OneStepTo DEF GrainSteps
  <2> QED BY <2>1, <2>2
<1> QED
  BY <1>1, <1>2, <1>3, <1>4, <1>6, <1>7, OneJoin

(* ------------------------- Entries ------------------------------------- *)

(* The records of the tables above t that an entry beside r comes through. *)
RecordsOf(r, e, t) ==
    [u \in Tables |->
        IF u = Root THEN r[Root]
        ELSE IF \E s \in F!Layers(t) : s.to = u
             THEN e[CHOOSE s \in F!Layers(t) : s.to = u][u] ELSE 0]

LEMMA EntryIs ==
    ASSUME NEW t, Deep(t), NEW d, NEW r, NEW e \in F!SubEntries(d, r, t)
    PROVE  /\ DOMAIN e = F!Layers(t) /\ e = [s \in F!Layers(t) |-> e[s]]
           /\ \A s \in F!Layers(t) :
                 e[s] \in F!Grain(s, d, IF s.from = Root THEN r[Root]
                                        ELSE e[F!Around(s, t)][s.from])
BY DEF F!SubEntries

LEMMA RecordsAre ==
    ASSUME NEW t, Deep(t), NEW r, NEW e, Root \in Tables
    PROVE  /\ RecordsOf(r, e, t)[Root] = r[Root]
           /\ \A s \in F!Layers(t) : RecordsOf(r, e, t)[s.to] = e[s][s.to]
<1>1. RecordsOf(r, e, t)[Root] = r[Root]
  BY DEF RecordsOf
<1>2. ASSUME NEW s \in F!Layers(t) PROVE RecordsOf(r, e, t)[s.to] = e[s][s.to]
  <2>1. s.to \in Tables /\ s.to # Root
    BY LayersAre
  <2>2. (CHOOSE j \in F!Layers(t) : j.to = s.to) = s
    <3>1. (CHOOSE j \in F!Layers(t) : j.to = s.to) \in F!Layers(t)
          /\ (CHOOSE j \in F!Layers(t) : j.to = s.to).to = s.to
      OBVIOUS
    <3> QED BY <3>1, LayersAre
  <2>3. RecordsOf(r, e, t)[s.to] = e[CHOOSE j \in F!Layers(t) : j.to = s.to][s.to]
    BY <2>1 DEF RecordsOf
  <2> QED BY <2>2, <2>3
<1> QED
  BY <1>1, <1>2

LEMMA EntryHasChain ==
    ASSUME NEW t, Deep(t), NEW d, NEW r \in JoinedRow, NEW e \in F!SubEntries(d, r, t)
    PROVE  /\ Chain(t, d, RecordsOf(r, e, t))
           /\ RecordsOf(r, e, t)[Root] = r[Root]
           /\ RecordsOf(r, e, t)[t] = e[F!Inmost(t)][t]
<1> DEFINE y == RecordsOf(r, e, t)
<1>1. Tree /\ Root \in Tables /\ t \in Tables
  BY LayersAre DEF Deep
<1>2. y[Root] = r[Root] /\ \A s \in F!Layers(t) : y[s.to] = e[s][s.to]
  BY <1>1, RecordsAre
<1>3. y[t] = e[F!Inmost(t)][t]
  BY <1>2, InmostIs
<1>4. ASSUME NEW s \in F!Layers(t) PROVE e[s] \in F!Grain(s, d, y[s.from])
  <2>1. CASE s.from = Root
    BY <1>2, <2>1, EntryIs
  <2>2. CASE s.from # Root
    <3>1. y[s.from] = e[F!Around(s, t)][s.from]
      BY <1>2, <2>2, AroundIs
    <3> HIDE DEF y
    <3> QED BY <2>2, <3>1, EntryIs
  <2> QED BY <2>1, <2>2
<1>5. ASSUME NEW s \in F!Layers(t) PROVE y[s.to] \in F!Matching(s, d, y[s.from])
  BY <1>2, <1>4, GrainRows
<1>6. y \in JoinedRow
  <2>1. ASSUME NEW u \in Tables PROVE y[u] \in 0 .. N
    <3>1. CASE u = Root
      BY <1>1, <1>2, <3>1 DEF JoinedRow
    <3>2. CASE \E s \in F!Layers(t) : s.to = u
      <4>1. PICK s \in F!Layers(t) : s.to = u
        BY <3>2
      <4>2. y[u] \in F!Rows
        BY <1>5, <4>1, MatchingIs
      <4> QED BY <4>2, RowNumbers
    <3>3. CASE u # Root /\ ~ \E s \in F!Layers(t) : s.to = u
      <4>1. y[u] = 0
        BY <3>3 DEF RecordsOf
      <4> QED BY <4>1, RowNumbers
    <3> QED BY <3>1, <3>2, <3>3
  <2>2. y = [u \in Tables |-> y[u]]
    BY DEF RecordsOf
  <2> HIDE DEF y
  <2> QED BY <2>1, <2>2 DEF JoinedRow
<1>7. ASSUME NEW s \in F!PlanSteps, t \in F!Below(s.to)
      PROVE  /\ s.many /\ y[s.to] \in F!Rows /\ y[s.from] \in F!Rows
             /\ d[s.to][y[s.to]] = y[s.from]
  <2>1. s \in F!Layers(t) /\ s.many /\ s.from \in Tables
    BY <1>7, LayersAre
  <2>2. y[s.to] \in F!Rows /\ y[s.from] # 0 /\ d[s.to][y[s.to]] = y[s.from]
    BY <1>5, <2>1, MatchingIs
  <2>3. y[s.from] \in 0 .. N
    <3> HIDE DEF y
    <3> QED BY <1>6, <2>1 DEF JoinedRow
  <2> QED BY <2>1, <2>2, <2>3, RowNumbers
<1>8. Chain(t, d, y)
  <2> HIDE DEF y
  <2> QED BY <1>6, <1>7 DEF Chain
<1> QED
  BY <1>2, <1>3, <1>8

LEMMA ChainHasEntry ==
    ASSUME NEW t, Deep(t), NEW d, NEW r, NEW y, Chain(t, d, y), y[Root] = r[Root]
    PROVE  \E e \in F!SubEntries(d, r, t) : e[F!Inmost(t)][t] = y[t]
<1> DEFINE of(s) == CHOOSE g \in F!Grain(s, d, y[s.from]) : g[s.to] = y[s.to]
           e == [s \in F!Layers(t) |-> of(s)]
<1>1. ASSUME NEW s \in F!Layers(t)
      PROVE  e[s] \in F!Grain(s, d, y[s.from]) /\ e[s][s.to] = y[s.to] /\ y[s.from] \in F!Rows
  <2>1. /\ s \in F!PlanSteps /\ t \in F!Below(s.to) /\ s.many
    BY LayersAre
  <2>2. y[s.to] \in F!Rows /\ y[s.from] \in F!Rows /\ d[s.to][y[s.to]] = y[s.from]
    BY <2>1 DEF Chain
  <2>3. y[s.to] \in F!Matching(s, d, y[s.from])
    BY <2>1, <2>2, RowNumbers DEF F!Matching
  <2>4. \E g \in F!Grain(s, d, y[s.from]) : g[s.to] = y[s.to]
    BY <2>3, GrainRows
  <2>5. e[s] = of(s)
    OBVIOUS
  <2> HIDE DEF e
  <2> QED BY <2>2, <2>4, <2>5
<1>2. e \in [F!Layers(t) -> UNION {F!Grain(s, d, p) : s \in F!Layers(t), p \in F!Rows}]
  <2>1. ASSUME NEW s \in F!Layers(t)
        PROVE  e[s] \in UNION {F!Grain(j, d, p) : j \in F!Layers(t), p \in F!Rows}
    <3>1. F!Grain(s, d, y[s.from]) \in {F!Grain(j, d, p) : j \in F!Layers(t), p \in F!Rows}
      <4> HIDE DEF e
      <4> QED BY <1>1
    <3> HIDE DEF e
    <3> QED BY <1>1, <3>1
  <2>2. e = [s \in F!Layers(t) |-> e[s]]
    <3> HIDE DEF of
    <3> QED OBVIOUS
  <2> HIDE DEF e
  <2> QED BY <2>1, <2>2
<1>3. ASSUME NEW s \in F!Layers(t)
      PROVE  e[s] \in F!Grain(s, d, IF s.from = Root THEN r[Root] ELSE e[F!Around(s, t)][s.from])
  <2>1. CASE s.from = Root
    <3> HIDE DEF e
    <3> QED BY <1>1, <2>1
  <2>2. CASE s.from # Root
    <3>1. F!Around(s, t) \in F!Layers(t) /\ F!Around(s, t).to = s.from
      BY <2>2, AroundIs
    <3>2. e[F!Around(s, t)][s.from] = y[s.from]
      <4> HIDE DEF e
      <4> QED BY <1>1, <3>1
    <3> HIDE DEF e
    <3> QED BY <1>1, <2>2, <3>2
  <2> QED BY <2>1, <2>2
<1>4. e \in F!SubEntries(d, r, t)
  <2> HIDE DEF e
  <2> QED BY <1>2, <1>3 DEF F!SubEntries
<1>5. e[F!Inmost(t)][t] = y[t]
  <2> HIDE DEF e
  <2> QED BY <1>1, InmostIs
<1> QED
  BY <1>4, <1>5

(* Each record of t enters once, beside the record of the root it is of.   *)
LEMMA OneEntry ==
    ASSUME NEW t, Deep(t), NEW d, NEW r \in JoinedRow, NEW q \in JoinedRow,
           NEW e \in F!SubEntries(d, r, t), NEW f \in F!SubEntries(d, q, t),
           e[F!Inmost(t)][t] = f[F!Inmost(t)][t]
    PROVE  e = f /\ r[Root] = q[Root]
<1> DEFINE x == RecordsOf(r, e, t)
           y == RecordsOf(q, f, t)
<1>1. Tree /\ Root \in Tables /\ t \in Tables
  BY LayersAre DEF Deep
<1>2. Chain(t, d, x) /\ Chain(t, d, y) /\ x[t] = y[t] /\ x[Root] = r[Root] /\ y[Root] = q[Root]
  BY EntryHasChain
<1>3. \A s \in F!Layers(t) : x[s.to] = e[s][s.to] /\ y[s.to] = f[s][s.to]
  BY <1>1, RecordsAre
<1> HIDE DEF x, y
<1>4. ASSUME NEW s \in F!Layers(t) PROVE e[s] = f[s]
  <2>1. x[s.to] = y[s.to]
    BY <1>1, <1>2, LayersAre, OneChain
  <2>2. e[s][s.to] = f[s][s.to]
    BY <1>3, <2>1
  <2> QED BY <2>2, EntryIs, OneGrainRow
<1>5. e = f
  BY <1>4, EntryIs
<1>6. t \in F!Below(Root)
  <2>1. PICK b \in F!Branches : t \in F!Below(b)
    BY <1>1, InSomeBranch DEF Deep
  <2>2. b \in F!Below(Root)
    BY <1>1, <2>1, BranchesAre, BelowIs
  <2> QED BY <1>1, <2>1, <2>2, BelowIs
<1>7. x[Root] = y[Root]
  BY <1>1, <1>2, <1>6, OneChain
<1> QED
  BY <1>2, <1>5, <1>7

(* ------------------------- What the analysis decides ------------------- *)

(* The plan is annotated for a report; each branch has its strategy.       *)
AnnotatedOK == /\ report \in F!Definitions /\ report.agg # {}
               /\ fans = F!FansOut /\ branchOf = F!BranchOf
StrategyOK  == /\ strategy = [t \in Tables |-> IF t \in F!Branches THEN F!Choose(t) ELSE "none"]
               /\ warned = (\E b \in F!Branches : F!Multiplies(b) /\ F!Choose(b) = "detail")
Analysed    == Tree /\ AnnotatedOK /\ StrategyOK

(* The reports HonestTotals is about.                                      *)
Honest ==
    /\ Analysed /\ ~warned
    /\ \A t \in report.agg : F!OwnedByRoot(t)
    /\ F!InnerApart /\ F!FiltersApart
    /\ report.any => Cardinality(report.filter) <= 1

LEMMA Sorts ==
    ASSUME Analysed
    PROVE  /\ Tree /\ Root \in Tables /\ IsFiniteSet(Tables)
           /\ report.plain \subseteq Tables /\ report.agg \subseteq Tables
           /\ report.filter \subseteq Tables
BY BoundsAssumption DEF Analysed, AnnotatedOK, StrategyOK, F!Definitions

LEMMA BranchTablesAre ==
    ASSUME Analysed, NEW b \in F!Branches
    PROVE  /\ F!BranchTables(b) = F!Below(b) /\ b \in F!Below(b) /\ F!Below(b) \subseteq Tables
           /\ \A u \in F!Below(b) : u # Root /\ branchOf[u] = b
           /\ strategy[b] = F!Choose(b)
<1>1. Tree /\ Root \in Tables /\ b \in Tables /\ Root \notin F!Below(b)
  BY Sorts, BranchesAre
<1>2. b \in F!Below(b) /\ F!Below(b) \subseteq Tables
  BY <1>1, BelowIs
<1>3. ASSUME NEW u \in Tables PROVE branchOf[u] = IF \E c \in F!Branches : u \in F!Below(c)
                                                  THEN CHOOSE c \in F!Branches : u \in F!Below(c) ELSE u
  BY DEF Analysed, AnnotatedOK, StrategyOK, F!BranchOf
<1>4. ASSUME NEW u \in F!Below(b) PROVE u # Root /\ branchOf[u] = b
  <2>1. branchOf[u] \in F!Branches /\ u \in F!Below(branchOf[u])
    BY <1>2, <1>3
  <2> QED BY <1>1, <2>1, OneBranch
<1>5. ASSUME NEW u \in F!BranchTables(b) PROVE u \in F!Below(b)
  <2>1. branchOf[u] = b /\ u \in F!Placed
    BY DEF F!BranchTables
  <2>2. u \in Tables
    BY <1>1, <2>1, PlanTypes DEF F!Placed, F!Targets
  <2> QED BY <1>2, <1>3, <2>1, <2>2
<1>6. ASSUME NEW u \in F!Below(b) PROVE u \in F!BranchTables(b)
  <2>1. u \in F!Placed
    <3>1. CASE u = b
      BY <1>1, <3>1, BranchesAre DEF F!Placed, F!Targets
    <3>2. CASE u # b
      <4>1. PICK s \in F!PlanSteps : s.to = u
        BY <1>1, <3>2, PlanTypes, LastStep DEF F!Below
      <4> QED BY <4>1 DEF F!Placed, F!Targets
    <3> QED BY <3>1, <3>2
  <2> QED BY <1>4, <2>1 DEF F!BranchTables
<1>7. strategy[b] = F!Choose(b)
  BY <1>1 DEF Analysed, AnnotatedOK, StrategyOK
<1> QED
  BY <1>2, <1>4, <1>5, <1>6, <1>7

LEMMA HandledIs ==
    ASSUME Analysed, NEW b \in F!Branches, NEW u \in F!Below(b)
    PROVE  u \in F!Handled <=> strategy[b] # "detail"
<1>1. Tree /\ Root \in Tables
  BY Sorts
<1>2. ASSUME strategy[b] # "detail" PROVE u \in F!Handled
  BY <1>2, BranchTablesAre DEF F!Handled
<1>3. ASSUME u \in F!Handled PROVE strategy[b] # "detail"
  <2>1. PICK c \in F!Branches : strategy[c] # "detail" /\ u \in F!BranchTables(c)
    BY <1>3 DEF F!Handled
  <2>2. u \in F!Below(c)
    BY <2>1, BranchTablesAre
  <2> QED BY <1>1, <2>1, <2>2, OneBranch
<1> QED
  BY <1>2, <1>3

LEMMA HandledBranch ==
    ASSUME Analysed, NEW u \in F!Handled
    PROVE  /\ u \in Tables /\ u # Root
           /\ \E b \in F!Branches : u \in F!Below(b) /\ strategy[b] # "detail" /\ F!Multiplies(b)
<1>1. PICK b \in F!Branches : strategy[b] # "detail" /\ u \in F!BranchTables(b)
  BY DEF F!Handled
<1>2. u \in F!Below(b) /\ u \in Tables /\ u # Root /\ F!Choose(b) # "detail"
  BY <1>1, BranchTablesAre
<1>3. F!Multiplies(b)
  BY <1>2 DEF F!Choose
<1> QED
  BY <1>1, <1>2, <1>3

(* A branch is handled as a whole.                                         *)
LEMMA HandledWhole ==
    ASSUME Analysed, NEW s \in F!PlanSteps
    PROVE  /\ s.from \in F!Handled => s.to \in F!Handled
           /\ s.to \in F!Handled => s.from = Root \/ s.from \in F!Handled
<1>1. Tree /\ Root \in Tables /\ s.from \in Tables /\ s.to \in Tables
  BY Sorts, PlanTypes
<1>2. ASSUME s.from \in F!Handled PROVE s.to \in F!Handled
  <2>1. PICK b \in F!Branches : s.from \in F!Below(b) /\ strategy[b] # "detail"
    BY <1>2, HandledBranch
  <2>2. s.to \in F!Below(b)
    BY <1>1, <2>1, BelowIs, BranchesAre
  <2> QED BY <2>1, <2>2, HandledIs
<1>3. ASSUME s.to \in F!Handled, s.from # Root PROVE s.from \in F!Handled
  <2>1. PICK b \in F!Branches : s.to \in F!Below(b) /\ strategy[b] # "detail"
    BY <1>3, HandledBranch
  <2>2. s.to # b
    BY <1>1, <1>3, <2>1, BranchesAre, OneStepTo
  <2>3. s.from \in F!Below(b)
    BY <1>1, <2>1, <2>2, BranchesAre, StepAbove
  <2> QED BY <2>1, <2>3, HandledIs
<1> QED
  BY <1>2, <1>3

LEMMA HandledOptional ==
    ASSUME Honest, NEW s \in F!PlanSteps, s.to \in F!Handled
    PROVE  ~s.inner
<1>1. Analysed
  BY DEF Honest
<1>2. PICK b \in F!Branches : s.to \in F!Below(b) /\ F!Multiplies(b)
  BY <1>1, HandledBranch
<1>3. branchOf[s.to] = b
  BY <1>1, <1>2, BranchTablesAre
<1> QED
  BY <1>2, <1>3 DEF Honest, F!InnerApart

(* What is joined as it is multiplies nothing, or there is a warning.      *)
LEMMA OuterSingle ==
    ASSUME Honest, NEW s \in F!PlanSteps, s.to \notin F!Handled
    PROVE  ~s.many
<1>1. Analysed /\ Tree /\ Root \in Tables /\ s.to \in Tables /\ s.to # Root
  BY Sorts, PlanTypes DEF Honest
<1>2. s.to \in F!Placed
  BY DEF F!Placed, F!Targets
<1>3. PICK b \in F!Branches : s.to \in F!Below(b)
  BY <1>1, <1>2, InSomeBranch
<1>4. F!Choose(b) = "detail"
  BY <1>1, <1>3, HandledIs, BranchTablesAre
<1>5. ~F!Multiplies(b)
  BY <1>1, <1>4 DEF Honest, Analysed, AnnotatedOK, StrategyOK
<1>6. ~fans[s.to]
  BY <1>1, <1>3, <1>5, BranchTablesAre DEF F!Multiplies
<1>7. s.to \in F!Below(s.to)
  BY <1>1, BelowIs
<1>8. fans[s.to] = \E j \in F!PlanSteps : j.many /\ s.to \in F!Below(j.to)
  BY <1>1 DEF Analysed, AnnotatedOK, StrategyOK, F!FansOut
<1> QED
  BY <1>6, <1>7, <1>8

LEMMA PlainOuter ==
    ASSUME Analysed, NEW u \in report.plain
    PROVE  u \notin F!Handled
<1> SUFFICES ASSUME u \in F!Handled PROVE FALSE
  OBVIOUS
<1>1. PICK b \in F!Branches : u \in F!Below(b) /\ strategy[b] # "detail"
  BY HandledBranch
<1>2. F!Uses(b, report.plain)
  BY <1>1, BranchTablesAre DEF F!Uses
<1>3. F!Choose(b) = "detail"
  BY <1>2 DEF F!Choose
<1> QED
  BY <1>1, <1>3, BranchTablesAre

(* The branch of an aggregated table is pre-aggregated and unfiltered.     *)
LEMMA AggBranch ==
    ASSUME Honest, NEW t \in report.agg, t \in F!Placed, t # Root
    PROVE  \E b \in F!Branches : /\ t \in F!Below(b) /\ strategy[b] = "pre_aggregate"
                                 /\ F!Below(b) \subseteq F!Handled
                                 /\ report.filter \cap F!Below(b) = {}
<1>1. Analysed /\ Tree /\ Root \in Tables
  BY Sorts DEF Honest
<1>2. PICK b \in F!Branches : t \in F!Below(b)
  BY <1>1, InSomeBranch
<1>3. F!RootStep(b) \in F!PlanSteps /\ F!RootStep(b).to = b
  BY <1>1, BranchesAre
<1>4. F!RootStep(b).many
  BY <1>2, <1>3 DEF Honest, F!OwnedByRoot
<1>5. b \in F!Handled
  BY <1>3, <1>4, OuterSingle
<1>6. strategy[b] # "detail"
  BY <1>1, <1>5, HandledIs, BranchTablesAre
<1>7. F!Uses(b, report.agg)
  BY <1>1, <1>2, BranchTablesAre DEF F!Uses
<1>8. strategy[b] = "pre_aggregate" /\ F!Multiplies(b)
  BY <1>1, <1>6, <1>7, BranchTablesAre DEF F!Choose
<1>9. F!Below(b) \subseteq F!Handled
  BY <1>1, <1>6, HandledIs
<1>10. ASSUME NEW u \in report.filter, u \in F!Below(b) PROVE FALSE
  <2>1. u # Root /\ branchOf[u] = b
    BY <1>1, <1>10, BranchTablesAre
  <2> QED BY <1>7, <1>8, <2>1 DEF Honest, F!FiltersApart
<1> QED
  BY <1>2, <1>8, <1>9, <1>10

LEMMA AggDeep ==
    ASSUME Honest, NEW t \in report.agg, t \in F!Placed, t # Root
    PROVE  Deep(t)
<1>1. Analysed /\ Tree /\ Root \in Tables /\ t \in Tables
  BY Sorts DEF Honest
<1>2. PICK b \in F!Branches : /\ t \in F!Below(b) /\ F!Below(b) \subseteq F!Handled
                              /\ report.filter \cap F!Below(b) = {}
  BY AggBranch
<1>3. ASSUME NEW s \in F!Layers(t)
      PROVE  /\ report.filter \cap F!Inline(s.to) = {}
             /\ \A j \in F!PlanSteps : j.to \in F!Inline(s.to) => ~j.inner
  <2>1. s \in F!PlanSteps /\ t \in F!Below(s.to) /\ s.to \in Tables /\ s.to # Root
    BY <1>1, PlanTypes DEF F!Layers
  <2>2. PICK c \in F!Branches : s.to \in F!Below(c)
    BY <1>1, <2>1, InSomeBranch DEF F!Placed, F!Targets
  <2>3. F!Below(s.to) \subseteq F!Below(c)
    BY <1>1, <2>2, BranchesAre, BelowIs
  <2>4. c = b
    BY <1>1, <1>2, <2>1, <2>3, OneBranch
  <2>5. F!Inline(s.to) \subseteq F!Below(s.to)
    <3> DEFINE S == {j \in F!PlanSteps : ~j.many}
    <3>1. \A j \in S : j.to \in Tables
      BY <1>1, PlanTypes
    <3>2. /\ F!Below(s.to) \in SUBSET Tables /\ s.to \in F!Below(s.to)
          /\ \A j \in S : j.from \in F!Below(s.to) => j.to \in F!Below(s.to)
      BY <1>1, <2>1, BelowIs
    <3>3. F!Reached(S, s.to) \subseteq F!Below(s.to)
      <4> HIDE DEF S
      <4> QED BY <2>1, <3>1, <3>2, Reaching
    <3> QED BY <3>3 DEF F!Inline
  <2>6. F!Inline(s.to) \subseteq F!Below(b)
    BY <2>3, <2>4, <2>5
  <2> QED BY <1>2, <2>6, HandledOptional
<1> QED
  BY <1>1, <1>3 DEF Deep, Honest

(* Of conditions of which all must hold, or of one, all hold.              *)
LEMMA AllConditions ==
    ASSUME Honest, NEW T \in SUBSET report.filter, NEW r
    PROVE  F!Combined(r, T) <=> \A u \in T : r[u] = 1
<1>1. CASE ~report.any
  BY <1>1 DEF F!Combined, F!Kept
<1>2. CASE report.any
  <2>1. IsFiniteSet(report.filter) /\ Cardinality(report.filter) <= 1
    BY <1>2, Sorts, FS_Subset DEF Honest
  <2>2. \A u, w \in report.filter : u = w
    <3> SUFFICES ASSUME NEW u \in report.filter, NEW w \in report.filter, u # w PROVE FALSE
      OBVIOUS
    <3>1. IsFiniteSet(report.filter \ {u}) /\ Cardinality(report.filter \ {u}) = Cardinality(report.filter) - 1
      BY <2>1, FS_RemoveElement
    <3>2. Cardinality(report.filter \ {u}) \in Nat /\ Cardinality(report.filter) \in Nat
      BY <2>1, <3>1, FS_CardinalityType
    <3>3. Cardinality(report.filter \ {u}) = 0
      BY <2>1, <3>1, <3>2
    <3>4. report.filter \ {u} = {}
      BY <3>1, <3>3, FS_EmptySet
    <3> QED BY <3>4
  <2> QED BY <1>2, <2>2 DEF F!Combined
<1> QED
  BY <1>1, <1>2

(* ------------------------- The outer statement ------------------------- *)

OuterSteps == {s \in F!PlanSteps : s.to \notin F!Handled}
Outer(d)   == {r \in F!FromRows(d) : F!Where(r) /\ F!Exists(r, d)}
Whole(d)   == {r \in F!Joined(F!PlanSteps, d, F!RootRows) : F!Combined(r, report.filter)}

LEMMA FromRoot ==
    ASSUME Tree, Root \in Tables, NEW S \in SUBSET F!PlanSteps, NEW d, NEW r
    PROVE  r \in F!Joined(S, d, F!RootRows) <=>
              /\ r \in JoinedRow /\ r[Root] \in F!Rows
              /\ \A u \in Tables \ F!Targets(S) : u # Root => r[u] = 0
              /\ \A s \in S : F!Linked(s, d, r)
<1>1. \A s \in S : s.to \in Tables /\ s.to # Root
  BY PlanTypes
<1>2. Root \notin F!Targets(S)
  BY <1>1 DEF F!Targets
<1>3. F!RootRows \in SUBSET JoinedRow
  <2>1. \A v \in F!Rows : F!Only(Root, v) \in JoinedRow
    BY OnlyIs, RowNumbers
  <2> QED BY <2>1 DEF F!RootRows
<1>4. r \in F!Joined(S, d, F!RootRows) <=> \E x \in F!RootRows : JoinOf(r, S, d, x)
  BY <1>1, <1>3, JoinedIs
<1>5. ASSUME NEW x \in F!RootRows, JoinOf(r, S, d, x)
      PROVE  r[Root] \in F!Rows /\ \A u \in Tables \ F!Targets(S) : u # Root => r[u] = 0
  <2>1. PICK v \in F!Rows : x = F!Only(Root, v)
    BY DEF F!RootRows
  <2>2. x[Root] = v /\ \A u \in Tables : u # Root => x[u] = 0
    BY <2>1 DEF F!Only
  <2> QED BY <1>2, <1>5, <2>2 DEF JoinOf
<1>6. ASSUME r \in JoinedRow, r[Root] \in F!Rows, \A s \in S : F!Linked(s, d, r),
             \A u \in Tables \ F!Targets(S) : u # Root => r[u] = 0
      PROVE  \E x \in F!RootRows : JoinOf(r, S, d, x)
  <2>1. F!Only(Root, r[Root]) \in F!RootRows
    BY <1>6 DEF F!RootRows
  <2>2. \A u \in Tables \ F!Targets(S) : r[u] = F!Only(Root, r[Root])[u]
    BY <1>6 DEF F!Only
  <2>3. JoinOf(r, S, d, F!Only(Root, r[Root]))
    BY <1>6, <2>2 DEF JoinOf
  <2> QED BY <2>1, <2>3
<1> QED
  BY <1>4, <1>5, <1>6 DEF JoinOf

LEMMA OuterTables ==
    ASSUME Analysed
    PROVE  /\ OuterSteps \in SUBSET F!PlanSteps
           /\ \A s \in OuterSteps : s.to \notin F!Handled /\ s.from \notin F!Handled
                                    /\ s.to \in Tables /\ s.from \in Tables
           /\ \A u \in Tables : u \in F!Handled => u \notin F!Targets(OuterSteps)
           /\ \A u \in Tables \ F!Targets(OuterSteps) : u \notin F!Handled => u \notin F!Targets(F!PlanSteps)
           /\ Root \notin F!Handled /\ Root \in Tables
<1>1. Tree /\ Root \in Tables
  BY Sorts
<1>2. ASSUME NEW s \in OuterSteps
      PROVE  s \in F!PlanSteps /\ s.to \notin F!Handled /\ s.from \notin F!Handled
             /\ s.to \in Tables /\ s.from \in Tables
  BY <1>1, HandledWhole, PlanTypes DEF OuterSteps
<1>3. Root \notin F!Handled
  BY HandledBranch
<1>4. \A u \in Tables : u \in F!Handled => u \notin F!Targets(OuterSteps)
  BY DEF F!Targets, OuterSteps
<1>5. ASSUME NEW u \in Tables \ F!Targets(OuterSteps), u \notin F!Handled
      PROVE  u \notin F!Targets(F!PlanSteps)
  BY <1>5 DEF F!Targets, OuterSteps
<1> QED
  BY <1>1, <1>2, <1>3, <1>4, <1>5

LEMMA OuterIs ==
    ASSUME Honest, NEW d, NEW r
    PROVE  r \in F!FromRows(d) <=>
              /\ r \in JoinedRow /\ r[Root] \in F!Rows
              /\ \A u \in Tables \ F!Targets(OuterSteps) : u # Root => r[u] = 0
              /\ \A s \in OuterSteps : F!Linked(s, d, r)
<1>1. Tree /\ Root \in Tables /\ OuterSteps \in SUBSET F!PlanSteps
  BY Sorts, OuterTables DEF Honest
<1>2. F!FromRows(d) = F!Joined(OuterSteps, d, F!RootRows)
  BY DEF F!FromRows, OuterSteps
<1> QED
  BY <1>1, <1>2, FromRoot

(* One row for each record of the root.                                    *)
LEMMA OneOuterRow ==
    ASSUME Honest, NEW d, NEW r \in F!FromRows(d), NEW q \in F!FromRows(d), r[Root] = q[Root]
    PROVE  r = q
<1>1. Tree /\ Root \in Tables /\ OuterSteps \in SUBSET F!PlanSteps
  BY Sorts, OuterTables DEF Honest
<1>2. JoinOf(r, OuterSteps, d, r) /\ JoinOf(q, OuterSteps, d, q)
  BY OuterIs DEF JoinOf
<1>3. \A u \in Tables \ F!Targets(OuterSteps) : r[u] = q[u]
  BY OuterIs
<1>4. \A s \in OuterSteps : ~s.many
  BY OuterSingle DEF OuterSteps
<1> QED
  BY <1>1, <1>2, <1>3, <1>4, OneJoin

WhereHolds(r)     == \A u \in report.filter \ F!Handled : r[u] = 1
SemiSteps(b)      == {s \in F!PlanSteps : s.from \in F!Below(b)}
SemiRow(b, d, r, w) ==
    /\ \E c \in F!Matching(F!RootStep(b), d, r[Root]) : JoinOf(w, SemiSteps(b), d, F!Only(b, c))
    /\ \A u \in report.filter \cap F!Below(b) : w[u] = 1

LEMMA ExistsIs ==
    ASSUME Honest, NEW d, NEW r
    PROVE  F!Exists(r, d) <=>
              \A b \in F!Branches : strategy[b] = "semi_join" => \E w : SemiRow(b, d, r, w)
<1>1. Analysed /\ Tree /\ Root \in Tables
  BY Sorts DEF Honest
<1>2. ASSUME NEW b \in F!Branches
      PROVE  (\E x \in F!Joined({s \in F!PlanSteps : s.from \in F!BranchTables(b)}, d,
                        {F!Only(b, c) : c \in F!Matching(F!RootStep(b), d, r[Root])}) :
                 F!Kept(x, report.filter \cap F!BranchTables(b)))
             <=> \E w : SemiRow(b, d, r, w)
  <2> DEFINE Base == {F!Only(b, c) : c \in F!Matching(F!RootStep(b), d, r[Root])}
  <2>1. F!BranchTables(b) = F!Below(b) /\ b \in Tables
    BY <1>1, BranchTablesAre
  <2>2. Base \in SUBSET JoinedRow
    <3>1. ASSUME NEW c \in F!Matching(F!RootStep(b), d, r[Root]) PROVE F!Only(b, c) \in JoinedRow
      <4>1. c \in 0 .. N
        BY MatchingIs, RowNumbers
      <4> QED BY <2>1, <4>1, OnlyIs
    <3> QED BY <3>1
  <2>3. \A s \in SemiSteps(b) : s.to \in Tables
    BY <1>1, PlanTypes DEF SemiSteps
  <2>4. \A x : x \in F!Joined(SemiSteps(b), d, Base) <=> \E z \in Base : JoinOf(x, SemiSteps(b), d, z)
    <3> HIDE DEF Base
    <3> QED BY <2>2, <2>3, JoinedIs
  <2>5. \A x : x \in F!Joined(SemiSteps(b), d, Base) <=>
               \E c \in F!Matching(F!RootStep(b), d, r[Root]) : JoinOf(x, SemiSteps(b), d, F!Only(b, c))
    BY <2>4
  <2>6. \A x : F!Kept(x, report.filter \cap F!Below(b)) <=> \A u \in report.filter \cap F!Below(b) : x[u] = 1
    BY DEF F!Kept
  <2>7. SemiSteps(b) = {s \in F!PlanSteps : s.from \in F!BranchTables(b)}
    BY <2>1 DEF SemiSteps
  <2> HIDE DEF Base
  <2>8. (\E x \in F!Joined(SemiSteps(b), d, Base) : F!Kept(x, report.filter \cap F!Below(b)))
        <=> \E w : SemiRow(b, d, r, w)
    BY <2>5, <2>6 DEF SemiRow
  <2> QED BY <2>1, <2>7, <2>8 DEF Base
<1> QED
  BY <1>2 DEF F!Exists

LEMMA OuterRows ==
    ASSUME Honest, NEW d, NEW r
    PROVE  r \in Outer(d) <=>
              /\ r \in F!FromRows(d) /\ WhereHolds(r)
              /\ \A b \in F!Branches : strategy[b] = "semi_join" => \E w : SemiRow(b, d, r, w)
<1>1. F!Where(r) <=> WhereHolds(r)
  BY AllConditions DEF F!Where, WhereHolds
<1> QED
  BY <1>1, ExistsIs DEF Outer

LEMMA WholeRows ==
    ASSUME Honest, NEW d, NEW x
    PROVE  x \in Whole(d) <=>
              /\ x \in JoinedRow /\ x[Root] \in F!Rows
              /\ \A u \in Tables \ F!Targets(F!PlanSteps) : u # Root => x[u] = 0
              /\ \A s \in F!PlanSteps : F!Linked(s, d, x)
              /\ \A u \in report.filter : x[u] = 1
<1>1. Tree /\ Root \in Tables
  BY Sorts DEF Honest
<1>2. F!Combined(x, report.filter) <=> \A u \in report.filter : x[u] = 1
  BY AllConditions
<1> QED
  BY <1>1, <1>2, FromRoot DEF Whole

(* A row of everything gives a row of the statement.                       *)
LEMMA Project ==
    ASSUME Honest, NEW d, NEW x \in Whole(d)
    PROVE  \E r \in Outer(d) : \A u \in Tables \ F!Handled : r[u] = x[u]
<1> DEFINE r == [u \in Tables |-> IF u \in F!Handled THEN 0 ELSE x[u]]
<1>1. Analysed /\ Tree /\ Root \in Tables
  BY Sorts DEF Honest
<1>2. /\ x \in JoinedRow /\ x[Root] \in F!Rows
      /\ \A u \in Tables \ F!Targets(F!PlanSteps) : u # Root => x[u] = 0
      /\ \A s \in F!PlanSteps : F!Linked(s, d, x)
      /\ \A u \in report.filter : x[u] = 1
  BY WholeRows
<1>3. r \in JoinedRow
  BY <1>2, RowNumbers DEF JoinedRow
<1>4. \A u \in Tables : r[u] = IF u \in F!Handled THEN 0 ELSE x[u]
  OBVIOUS
<1> HIDE DEF r
<1>5. r[Root] = x[Root]
  BY <1>1, <1>4, OuterTables
<1>6. \A u \in Tables \ F!Targets(OuterSteps) : u # Root => r[u] = 0
  BY <1>1, <1>2, <1>4, OuterTables
<1>7. ASSUME NEW s \in OuterSteps PROVE F!Linked(s, d, r)
  <2>1. s \in F!PlanSteps /\ r[s.to] = x[s.to] /\ r[s.from] = x[s.from]
    BY <1>1, <1>4, OuterTables
  <2> QED BY <1>2, <2>1 DEF F!Linked
<1>8. r \in F!FromRows(d)
  BY <1>2, <1>3, <1>5, <1>6, <1>7, OuterIs
<1>9. WhereHolds(r)
  BY <1>1, <1>2, <1>4, Sorts DEF WhereHolds
<1>10. ASSUME NEW b \in F!Branches, strategy[b] = "semi_join" PROVE \E w : SemiRow(b, d, r, w)
  <2> DEFINE w == [u \in Tables |-> IF u \in F!Below(b) THEN x[u] ELSE 0]
  <2>1. /\ F!BranchTables(b) = F!Below(b) /\ b \in F!Below(b) /\ F!Below(b) \subseteq Tables
        /\ F!Choose(b) = "semi_join" /\ b \in Tables
    BY <1>1, <1>10, BranchTablesAre
  <2>2. F!RootStep(b) \in F!PlanSteps /\ F!RootStep(b).to = b /\ F!RootStep(b).from = Root
    BY <1>1, BranchesAre
  <2>3. PICK f \in report.filter : f \in F!Below(b)
    BY <2>1 DEF F!Choose, F!Uses
  <2>4. x[b] # 0
    <3> DEFINE C == {u \in Tables : x[u] = 0}
    <3> SUFFICES ASSUME b \in C PROVE FALSE
      BY <2>1
    <3>1. ASSUME NEW s \in F!PlanSteps, s.from \in C PROVE s.to \in C
      <4>1. F!Matching(s, d, x[s.from]) = {}
        BY <3>1, MatchingIs
      <4>2. x[s.to] = 0
        BY <1>2, <4>1 DEF F!Linked
      <4> QED BY <1>1, <4>2, PlanTypes
    <3>2. F!Below(b) \subseteq C
      <4>1. C \in SUBSET Tables
        OBVIOUS
      <4> HIDE DEF C
      <4> QED BY <1>1, <2>1, <3>1, <4>1, BelowIs
    <3>3. x[f] = 0 /\ x[f] = 1
      BY <1>2, <2>3, <3>2
    <3> QED BY <3>3
  <2>5. x[b] \in F!Matching(F!RootStep(b), d, r[Root])
    BY <1>2, <1>5, <2>2, <2>4 DEF F!Linked
  <2>6. w \in JoinedRow
    BY <1>2, RowNumbers DEF JoinedRow
  <2>7. \A u \in Tables : w[u] = IF u \in F!Below(b) THEN x[u] ELSE 0
    OBVIOUS
  <2> HIDE DEF w
  <2>8. ASSUME NEW s \in SemiSteps(b) PROVE F!Linked(s, d, w)
    <3>1. s \in F!PlanSteps /\ s.from \in F!Below(b) /\ s.to \in F!Below(b)
      BY <1>1, <2>1, BelowIs DEF SemiSteps
    <3>2. w[s.to] = x[s.to] /\ w[s.from] = x[s.from]
      BY <2>1, <2>7, <3>1
    <3> QED BY <1>2, <3>1, <3>2 DEF F!Linked
  <2>9. ASSUME NEW u \in Tables \ F!Targets(SemiSteps(b)) PROVE w[u] = F!Only(b, x[b])[u]
    <3>1. F!Only(b, x[b])[u] = IF u = b THEN x[b] ELSE 0
      BY DEF F!Only
    <3>2. CASE u = b
      BY <2>1, <2>7, <3>1, <3>2
    <3>3. CASE u # b
      <4>1. u \notin F!Below(b)
        <5> SUFFICES ASSUME u \in F!Below(b) PROVE FALSE
          OBVIOUS
        <5>1. \A s \in F!PlanSteps : s.to \in Tables
          BY <1>1, PlanTypes
        <5>2. PICK s \in F!PlanSteps : s.to = u /\ s.from \in F!Below(b)
          BY <2>1, <3>3, <5>1, LastStep DEF F!Below
        <5> QED BY <5>2 DEF SemiSteps, F!Targets
      <4> QED BY <2>7, <3>1, <3>3, <4>1
    <3> QED BY <3>2, <3>3
  <2>10. JoinOf(w, SemiSteps(b), d, F!Only(b, x[b]))
    BY <2>6, <2>8, <2>9 DEF JoinOf
  <2>11. \A u \in report.filter \cap F!Below(b) : w[u] = 1
    BY <1>2, <2>1, <2>7
  <2>12. SemiRow(b, d, r, w)
    BY <2>5, <2>10, <2>11 DEF SemiRow
  <2> QED BY <2>12
<1>11. r \in Outer(d)
  BY <1>8, <1>9, <1>10, OuterRows
<1> QED
  BY <1>4, <1>11

(* A row of the statement is one of everything: with the records y above   *)
(* an aggregated table, with those that an existence check found, and with *)
(* any others that match.                                                  *)
Apart(Above, d, r, y) ==
    /\ Above \subseteq F!Handled /\ y \in JoinedRow /\ y[Root] = r[Root]
    /\ \A s \in F!PlanSteps : s.to \in Above =>
          (s.from = Root \/ s.from \in Above) /\ F!Linked(s, d, y)
    /\ \A u \in Above : \A b \in F!Branches : u \in F!Below(b) => strategy[b] # "semi_join"

LEMMA Lift ==
    ASSUME Honest, NEW d, NEW r \in Outer(d), NEW y, NEW Above, Apart(Above, d, r, y)
    PROVE  \E x \in Whole(d) : /\ \A u \in Tables \ F!Handled : x[u] = r[u]
                               /\ \A u \in Above : x[u] = y[u]
<1>1. Analysed /\ Tree /\ Root \in Tables /\ Root \notin F!Handled
  BY Sorts, OuterTables DEF Honest
<1>2. /\ r \in JoinedRow /\ r[Root] \in F!Rows /\ WhereHolds(r)
      /\ \A u \in Tables \ F!Targets(OuterSteps) : u # Root => r[u] = 0
      /\ \A s \in OuterSteps : F!Linked(s, d, r)
      /\ \A b \in F!Branches : strategy[b] = "semi_join" => \E w : SemiRow(b, d, r, w)
  BY OuterRows, OuterIs
<1> DEFINE Semi == {b \in F!Branches : strategy[b] = "semi_join"}
           Checked == UNION {F!Below(b) : b \in Semi}
           w(b) == CHOOSE z : SemiRow(b, d, r, z)
<1>3. ASSUME NEW b \in Semi
      PROVE  /\ SemiRow(b, d, r, w(b)) /\ w(b) \in JoinedRow
             /\ b \in Tables /\ F!Below(b) \subseteq F!Handled /\ b \in F!Below(b)
             /\ \A u \in F!Below(b) : branchOf[u] = b
  <2>1. SemiRow(b, d, r, w(b))
    BY <1>2, <1>3
  <2>2. w(b) \in JoinedRow
    <3> HIDE DEF w
    <3> QED BY <2>1 DEF SemiRow, JoinOf
  <2> HIDE DEF w
  <2>3. F!Below(b) \subseteq F!Handled
    BY <1>1, <1>3, HandledIs
  <2> QED BY <1>1, <1>3, <2>1, <2>2, <2>3, BranchTablesAre
<1>4. Checked \subseteq F!Handled /\ \A u \in Checked : branchOf[u] \in Semi /\ u \in F!Below(branchOf[u])
  <2> HIDE DEF Semi, w
  <2> QED BY <1>3
<1>5. \A u \in Above : u \in F!Handled /\ u \notin Checked
  BY DEF Apart
<1> HIDE DEF w, Checked, Semi
<1> DEFINE g == [u \in Tables |-> IF u \in Above THEN y[u]
                                  ELSE IF u \in Checked THEN w(branchOf[u])[u] ELSE r[u]]
           S == {s \in F!PlanSteps : s.to \in F!Handled /\ s.to \notin Above /\ s.to \notin Checked}
<1>6. g \in JoinedRow
  <2>1. ASSUME NEW u \in Tables PROVE g[u] \in 0 .. N
    <3>1. CASE u \in Above
      BY <3>1 DEF Apart, JoinedRow
    <3>2. CASE u \notin Above /\ u \in Checked
      <4>1. w(branchOf[u]) \in JoinedRow
        BY <1>3, <1>4, <3>2
      <4> QED BY <3>2, <4>1 DEF JoinedRow
    <3>3. CASE u \notin Above /\ u \notin Checked
      BY <1>2, <3>3 DEF JoinedRow
    <3> QED BY <3>1, <3>2, <3>3
  <2>2. g = [u \in Tables |-> g[u]]
    OBVIOUS
  <2> HIDE DEF g
  <2> QED BY <2>1, <2>2 DEF JoinedRow
<1>7. /\ \A u \in Tables : u \in Above => g[u] = y[u]
      /\ \A u \in Tables : u \in Checked => g[u] = w(branchOf[u])[u]
      /\ \A u \in Tables : u \notin F!Handled => g[u] = r[u]
  BY <1>4, <1>5
<1> HIDE DEF g
<1>8. S \in SUBSET F!PlanSteps /\ \A s \in S : ~s.inner
  BY HandledOptional
<1>9. PICK x : JoinOf(x, S, d, g)
  <2> HIDE DEF S
  <2> QED BY <1>1, <1>6, <1>8, Fills
<1>10. \A u \in F!Targets(S) : u \in F!Handled /\ u \notin Above /\ u \notin Checked
  BY DEF F!Targets
<1>11. /\ x \in JoinedRow /\ \A s \in S : F!Linked(s, d, x)
       /\ \A u \in Tables : u \in Above => x[u] = y[u]
       /\ \A u \in Tables : u \in Checked => x[u] = w(branchOf[u])[u]
       /\ \A u \in Tables : u \notin F!Handled => x[u] = r[u]
  <2> HIDE DEF S
  <2> QED BY <1>4, <1>5, <1>7, <1>9, <1>10 DEF JoinOf
<1>12. x[Root] = r[Root] /\ x[Root] = y[Root]
  BY <1>1, <1>11 DEF Apart
<1>13. ASSUME NEW s \in F!PlanSteps PROVE F!Linked(s, d, x)
  <2>0. s.to \in Tables /\ s.from \in Tables
    BY <1>1, PlanTypes
  <2>1. CASE s \in S
    BY <1>11, <2>1
  <2>2. CASE s.to \notin F!Handled
    <3>1. s \in OuterSteps /\ s.from \notin F!Handled
      BY <1>1, <2>2, OuterTables DEF OuterSteps
    <3>2. x[s.to] = r[s.to] /\ x[s.from] = r[s.from]
      BY <1>11, <2>0, <2>2, <3>1
    <3>3. F!Linked(s, d, r)
      BY <1>2, <3>1
    <3> QED BY <3>2, <3>3 DEF F!Linked
  <2>3. CASE s.to \in Above
    <3>1. (s.from = Root \/ s.from \in Above) /\ F!Linked(s, d, y)
      BY <2>3 DEF Apart
    <3>2. x[s.to] = y[s.to] /\ x[s.from] = y[s.from]
      BY <1>11, <1>12, <2>0, <2>3, <3>1
    <3> QED BY <3>1, <3>2 DEF F!Linked
  <2>4. CASE s.to \in Checked
    <3> DEFINE b == branchOf[s.to]
    <3>1. b \in Semi /\ s.to \in F!Below(b)
      BY <1>4, <2>4
    <3>2. b \in F!Branches /\ b \in Tables
      BY <1>3, <3>1 DEF Semi
    <3>3. PICK c \in F!Matching(F!RootStep(b), d, r[Root]) :
             JoinOf(w(b), SemiSteps(b), d, F!Only(b, c))
      BY <1>3, <3>1 DEF SemiRow
    <3>4. x[s.to] = w(b)[s.to]
      BY <1>11, <2>0, <2>4
    <3> HIDE DEF b
    <3>5. CASE s.to = b
      <4>1. s = F!RootStep(b) /\ s.from = Root
        BY <1>1, <3>2, <3>5, BranchesAre, OneStepTo
      <4>2. b \notin F!Targets(SemiSteps(b))
        <5> SUFFICES ASSUME b \in F!Targets(SemiSteps(b)) PROVE FALSE
          OBVIOUS
        <5>1. PICK j \in F!PlanSteps : j.to = b /\ j.from \in F!Below(b)
          BY DEF F!Targets, SemiSteps
        <5>2. j = s
          BY <1>1, <3>5, <5>1, OneStepTo
        <5> QED BY <1>1, <3>2, <4>1, <5>1, <5>2, BranchesAre
      <4>3. w(b)[b] = F!Only(b, c)[b]
        BY <3>2, <3>3, <4>2 DEF JoinOf
      <4>4. F!Only(b, c)[b] = c
        BY <3>2 DEF F!Only
      <4>5. x[s.to] \in F!Matching(s, d, x[s.from])
        BY <1>12, <3>3, <3>4, <3>5, <4>1, <4>3, <4>4
      <4> QED BY <4>5 DEF F!Linked
    <3>6. CASE s.to # b
      <4>1. s.from \in F!Below(b)
        BY <1>1, <3>1, <3>2, <3>6, StepAbove
      <4>2. branchOf[s.from] = b /\ s.from \in Checked
        BY <1>3, <3>1, <4>1 DEF Checked
      <4>3. x[s.from] = w(b)[s.from]
        BY <1>11, <2>0, <4>2
      <4>4. F!Linked(s, d, w(b))
        BY <3>3, <4>1 DEF JoinOf, SemiSteps
      <4> QED BY <3>4, <4>3, <4>4 DEF F!Linked
    <3> QED BY <3>5, <3>6
  <2> QED BY <2>1, <2>2, <2>3, <2>4
<1>14. ASSUME NEW u \in report.filter PROVE x[u] = 1
  <2>0. u \in Tables
    BY <1>1, Sorts
  <2>1. CASE u \notin F!Handled
    BY <1>2, <1>11, <2>0, <2>1 DEF WhereHolds
  <2>2. CASE u \in F!Handled
    <3>1. PICK b \in F!Branches : u \in F!Below(b) /\ strategy[b] # "detail" /\ F!Multiplies(b)
      BY <1>1, <2>2, HandledBranch
    <3>2. branchOf[u] = b /\ u # Root /\ strategy[b] = F!Choose(b) /\ F!BranchTables(b) = F!Below(b)
      BY <1>1, <3>1, BranchTablesAre
    <3>3. ~F!Uses(b, report.agg)
      BY <3>1, <3>2 DEF Honest, F!FiltersApart
    <3>4. F!Uses(b, report.filter)
      BY <3>1, <3>2 DEF F!Uses
    <3>5. strategy[b] = "semi_join"
      BY <3>1, <3>2, <3>3, <3>4 DEF F!Choose
    <3>6. b \in Semi /\ u \in Checked
      BY <3>1, <3>5 DEF Semi, Checked
    <3>7. w(b)[u] = 1
      BY <1>3, <3>1, <3>6 DEF SemiRow
    <3> QED BY <1>11, <2>0, <3>2, <3>6, <3>7
  <2> QED BY <2>1, <2>2
<1>15. ASSUME NEW u \in Tables \ F!Targets(F!PlanSteps), u # Root PROVE x[u] = 0
  <2>1. u \notin F!Handled
    <3> SUFFICES ASSUME u \in F!Handled PROVE FALSE
      OBVIOUS
    <3>1. PICK b \in F!Branches : u \in F!BranchTables(b)
      BY DEF F!Handled
    <3> QED BY <3>1, <1>15 DEF F!BranchTables, F!Placed
  <2>2. u \notin F!Targets(OuterSteps)
    BY <1>15 DEF OuterSteps, F!Targets
  <2> QED BY <1>2, <1>11, <1>15, <2>1, <2>2
<1>16. x \in Whole(d)
  BY <1>2, <1>11, <1>12, <1>13, <1>14, <1>15, WholeRows
<1> QED
  BY <1>11, <1>16, <1>5, HandledBranch, <1>1

(* ------------------------- The figures --------------------------------- *)

LEMMA SameKey ==
    ASSUME Honest, NEW x, NEW r, \A u \in Tables \ F!Handled : x[u] = r[u]
    PROVE  F!Key(x) = F!Key(r)
<1>1. \A u \in report.plain : x[u] = r[u]
  BY Sorts, PlainOuter DEF Honest
<1> QED
  BY <1>1 DEF F!Key

(* A record of an aggregated table is among the rows of everything with    *)
(* a key exactly if it enters beside a row of the statement with that key. *)
LEMMA Entered ==
    ASSUME Honest, NEW d, NEW t \in report.agg, t \in F!Placed, t # Root,
           NEW k, NEW v \in F!Rows
    PROVE  (\E x \in Whole(d) : F!Key(x) = k /\ x[t] = v)
           <=> \E r \in Outer(d) : F!Key(r) = k /\ \E e \in F!SubEntries(d, r, t) : e[F!Inmost(t)][t] = v
<1>1. Analysed /\ Tree /\ Root \in Tables /\ Root \notin F!Handled /\ t \in Tables /\ Deep(t)
  BY Sorts, OuterTables, AggDeep DEF Honest
<1>2. F!OwnedByRoot(t) /\ v # 0
  BY RowNumbers DEF Honest
<1>3. ASSUME NEW x \in Whole(d), F!Key(x) = k, x[t] = v
      PROVE  \E r \in Outer(d) : F!Key(r) = k /\ \E e \in F!SubEntries(d, r, t) : e[F!Inmost(t)][t] = v
  <2>1. PICK r \in Outer(d) : \A u \in Tables \ F!Handled : r[u] = x[u]
    BY Project
  <2>2. F!Key(r) = k /\ x[Root] = r[Root]
    BY <1>1, <1>3, <2>1, SameKey
  <2>3. x \in JoinedRow /\ \A s \in F!PlanSteps : F!Linked(s, d, x)
    BY WholeRows
  <2>4. Chain(t, d, x)
    BY <1>1, <1>2, <1>3, <2>3, RowHasChain
  <2> QED BY <1>1, <1>3, <2>1, <2>2, <2>4, ChainHasEntry
<1>4. ASSUME NEW r \in Outer(d), F!Key(r) = k, NEW e \in F!SubEntries(d, r, t), e[F!Inmost(t)][t] = v
      PROVE  \E x \in Whole(d) : F!Key(x) = k /\ x[t] = v
  <2> DEFINE y == RecordsOf(r, e, t)
             Above == {u \in Tables : u # Root /\ t \in F!Below(u)}
  <2>1. r \in JoinedRow
    BY OuterRows, OuterIs
  <2>2. Chain(t, d, y) /\ y[Root] = r[Root] /\ y[t] = v
    BY <1>1, <1>4, <2>1, EntryHasChain
  <2> HIDE DEF y
  <2>3. PICK b \in F!Branches : t \in F!Below(b) /\ strategy[b] = "pre_aggregate" /\ F!Below(b) \subseteq F!Handled
    BY AggBranch
  <2>4. ASSUME NEW u \in Above, NEW c \in F!Branches, u \in F!Below(c) PROVE c = b
    <3>1. t \in F!Below(c)
      BY <1>1, <2>4, BranchesAre, BelowIs
    <3> QED BY <1>1, <2>3, <3>1, OneBranch
  <2>5. ASSUME NEW u \in Above PROVE u \in F!Below(b)
    <3>1. u \in F!Placed
      <4>1. CASE u = t
        BY <4>1
      <4>2. CASE u # t
        <5> DEFINE C == {z \in Tables : z = u \/ z \in F!Placed}
        <5>1. PICK s \in F!PlanSteps : s.from \in F!Below(u) /\ s.to = t
          BY <1>1, <2>5, <4>2, PlanTypes, LastStep DEF F!Below
        <5> SUFFICES ASSUME u \notin F!Placed PROVE FALSE
          OBVIOUS
        <5>2. F!Below(u) \subseteq {u}
          <6>1. {u} \in SUBSET Tables
            BY <2>5
          <6>2. \A s1 \in F!PlanSteps : s1.from # u
            BY <1>1, FromIsPlaced DEF F!Placed, F!Targets
          <6> QED BY <1>1, <6>1, <6>2, BelowIs
        <5> QED BY <4>2, <2>5, <5>2
      <4> QED BY <4>1, <4>2
    <3>2. PICK c \in F!Branches : u \in F!Below(c)
      BY <1>1, <2>5, <3>1, InSomeBranch
    <3> QED BY <2>4, <2>5, <3>2
  <2>6. ASSUME NEW s \in F!PlanSteps, s.to \in Above
        PROVE  (s.from = Root \/ s.from \in Above) /\ F!Linked(s, d, y)
    <3>1. s.from \in Tables /\ s.to \in Tables /\ t \in F!Below(s.to)
      BY <1>1, <2>6, PlanTypes
    <3>2. t \in F!Below(s.from)
      BY <1>1, <3>1, BelowIs
    <3>3. s.many /\ y[s.to] \in F!Rows /\ y[s.from] \in F!Rows /\ d[s.to][y[s.to]] = y[s.from]
      BY <2>2, <3>1 DEF Chain
    <3>4. y[s.to] \in F!Matching(s, d, y[s.from])
      BY <3>3, RowNumbers DEF F!Matching
    <3> QED BY <3>1, <3>2, <3>4 DEF F!Linked
  <2>7. t \in Above
    BY <1>1, BelowIs
  <2>8. Apart(Above, d, r, y)
    <3>1. \A u \in Above : \A c \in F!Branches : u \in F!Below(c) => strategy[c] # "semi_join"
      BY <2>3, <2>4
    <3>2. Above \subseteq F!Handled
      BY <2>3, <2>5
    <3>3. y \in JoinedRow
      BY <2>2 DEF Chain
    <3> HIDE DEF Above
    <3> QED BY <2>2, <2>6, <3>1, <3>2, <3>3 DEF Apart
  <2>9. PICK x \in Whole(d) : (\A u \in Tables \ F!Handled : x[u] = r[u]) /\ (\A u \in Above : x[u] = y[u])
    <3> HIDE DEF Above
    <3> QED BY <2>8, Lift
  <2>10. F!Key(x) = k
    BY <1>4, <2>9, SameKey
  <2>11. x[t] = v
    BY <2>2, <2>7, <2>9
  <2> QED BY <2>10, <2>11
<1> QED
  BY <1>3, <1>4

LEMMA LiftAny ==
    ASSUME Honest, NEW d, NEW r \in Outer(d)
    PROVE  \E x \in Whole(d) : \A u \in Tables \ F!Handled : x[u] = r[u]
<1>1. r \in JoinedRow
  BY OuterRows, OuterIs
<1>2. Apart({}, d, r, r)
  BY <1>1 DEF Apart
<1> QED
  BY <1>2, Lift

LEMMA AtMostOne ==
    ASSUME NEW S, \A p, q \in S : p = q
    PROVE  Cardinality(S) = IF S = {} THEN 0 ELSE 1
<1>1. CASE S = {}
  BY <1>1, FS_EmptySet
<1>2. CASE S # {}
  <2>1. PICK p \in S : S = {p}
    BY <1>2
  <2> QED BY <1>2, <2>1, FS_Singleton
<1> QED
  BY <1>1, <1>2

LEMMA SameCardinality == \A S : F!Cardinality(S) = Cardinality(S)
BY DEF F!Cardinality, Cardinality

LEMMA TotalIs ==
    ASSUME NEW E, NEW v \in F!Rows
    PROVE  F!Total(E)[v] = Cardinality({p \in E : p[2] = v})
<1> DEFINE with(w) == {p \in E : p[2] = w}
<1>1. F!Total(E) = [w \in F!Rows |-> F!Cardinality(with(w))]
  BY DEF F!Total
<1> HIDE DEF with
<1>2. F!Total(E)[v] = Cardinality(with(v))
  BY <1>1, SameCardinality
<1> QED
  BY <1>2 DEF with

OfKey(rows, k) == {r \in rows : F!Key(r) = k}
Shown(d, k, t, v) == IF \E x \in OfKey(Whole(d), k) : x[t] = v THEN 1 ELSE 0

(* A table of a derived table: what is rolled up counts each record once.  *)
LEMMA BranchFigure ==
    ASSUME Honest, NEW d, NEW k, NEW t \in report.agg, t \in F!Handled, NEW v \in F!Rows
    PROVE  F!BranchTotal(OfKey(Outer(d), k), d, t)[v] = Shown(d, k, t, v)
<1> DEFINE G == OfKey(Outer(d), k)
           of(r) == {<< << r, e >>, e[F!Inmost(t)][t] >> : e \in F!SubEntries(d, r, t)}
           E == UNION {of(r) : r \in G}
           Ev == {p \in E : p[2] = v}
<1>1. t \in F!Placed /\ t # Root
  <2>1. PICK b \in F!Branches : t \in F!BranchTables(b)
    BY DEF F!Handled
  <2> QED BY <2>1 DEF F!BranchTables
<1>2. Deep(t)
  BY <1>1, AggDeep
<1>3. F!BranchTotal(G, d, t)[v] = Cardinality(Ev)
  <2>1. F!BranchTotal(G, d, t) = F!Total(E)
    BY DEF F!BranchTotal
  <2>2. F!Total(E)[v] = Cardinality(Ev)
    BY TotalIs
  <2> QED BY <2>1, <2>2
<1>4. \A r \in G : r \in Outer(d) /\ F!Key(r) = k /\ r \in F!FromRows(d) /\ r \in JoinedRow
  BY OuterRows, OuterIs DEF OfKey
<1>5. ASSUME NEW p \in Ev
      PROVE  \E r \in G : \E e \in F!SubEntries(d, r, t) :
                p = << << r, e >>, e[F!Inmost(t)][t] >> /\ e[F!Inmost(t)][t] = v
  <2>1. PICK r \in G : p \in of(r)
    OBVIOUS
  <2>2. PICK e \in F!SubEntries(d, r, t) : p = << << r, e >>, e[F!Inmost(t)][t] >>
    BY <2>1
  <2>3. p[2] = v
    OBVIOUS
  <2> QED BY <2>2, <2>3
<1>6. ASSUME NEW p \in Ev, NEW q \in Ev PROVE p = q
  <2> HIDE DEF Ev, G
  <2>1. PICK r \in G : \E e \in F!SubEntries(d, r, t) :
            p = << << r, e >>, e[F!Inmost(t)][t] >> /\ e[F!Inmost(t)][t] = v
    BY <1>5
  <2>2. PICK e \in F!SubEntries(d, r, t) :
            p = << << r, e >>, e[F!Inmost(t)][t] >> /\ e[F!Inmost(t)][t] = v
    BY <2>1
  <2>3. PICK z \in G : \E f \in F!SubEntries(d, z, t) :
            q = << << z, f >>, f[F!Inmost(t)][t] >> /\ f[F!Inmost(t)][t] = v
    BY <1>5
  <2>4. PICK f \in F!SubEntries(d, z, t) :
            q = << << z, f >>, f[F!Inmost(t)][t] >> /\ f[F!Inmost(t)][t] = v
    BY <2>3
  <2>5. e = f /\ r[Root] = z[Root]
    BY <1>2, <1>4, <2>2, <2>4, OneEntry
  <2>6. r = z
    BY <1>4, <2>5, OneOuterRow
  <2> QED BY <2>2, <2>4, <2>5, <2>6
<1>7. ASSUME NEW r \in G, NEW e \in F!SubEntries(d, r, t), e[F!Inmost(t)][t] = v
      PROVE  << << r, e >>, v >> \in Ev
  <2>1. << << r, e >>, v >> \in of(r)
    BY <1>7
  <2>2. << << r, e >>, v >> \in E
    <3> HIDE DEF of, G
    <3> QED BY <2>1
  <2> HIDE DEF E
  <2> QED BY <2>2
<1>8. Ev # {} <=> \E r \in Outer(d) : F!Key(r) = k /\ \E e \in F!SubEntries(d, r, t) : e[F!Inmost(t)][t] = v
  <2>1. ASSUME Ev # {}
        PROVE \E r \in Outer(d) : F!Key(r) = k /\ \E e \in F!SubEntries(d, r, t) : e[F!Inmost(t)][t] = v
    <3> HIDE DEF Ev, G
    <3> QED BY <1>4, <1>5, <2>1
  <2>2. ASSUME NEW r \in Outer(d), F!Key(r) = k, NEW e \in F!SubEntries(d, r, t), e[F!Inmost(t)][t] = v
        PROVE Ev # {}
    <3>1. r \in G
      BY <2>2 DEF OfKey
    <3> HIDE DEF Ev, G
    <3> QED BY <1>7, <2>2, <3>1
  <2> QED BY <2>1, <2>2
<1>9. Ev # {} <=> \E x \in Whole(d) : F!Key(x) = k /\ x[t] = v
  <2> HIDE DEF Ev, E, of, G
  <2>1. (\E x \in Whole(d) : F!Key(x) = k /\ x[t] = v)
        <=> \E r \in Outer(d) : F!Key(r) = k /\ \E e \in F!SubEntries(d, r, t) : e[F!Inmost(t)][t] = v
    BY <1>1, Entered
  <2> QED BY <1>8, <2>1
<1>10. Cardinality(Ev) = IF Ev = {} THEN 0 ELSE 1
  <2> HIDE DEF Ev
  <2> QED BY <1>6, AtMostOne
<1> QED
  <2> HIDE DEF Ev
  <2> QED BY <1>3, <1>9, <1>10 DEF Shown, OfKey

(* Any other: the root, whose records appear once, or a table not joined.  *)
LEMMA FlatFigure ==
    ASSUME Honest, NEW d, NEW k, NEW t \in report.agg, t \notin F!Handled, NEW v \in F!Rows
    PROVE  F!FlatTotal(OfKey(Outer(d), k), t)[v] = Shown(d, k, t, v)
<1> DEFINE G == OfKey(Outer(d), k)
           E == {<< r, r[t] >> : r \in G}
           Ev == {p \in E : p[2] = v}
<1>1. Analysed /\ Tree /\ Root \in Tables /\ Root \notin F!Handled /\ t \in Tables /\ v # 0
  BY Sorts, OuterTables, RowNumbers DEF Honest
<1>2. F!FlatTotal(G, t)[v] = Cardinality(Ev)
  <2>1. F!FlatTotal(G, t) = F!Total(E)
    BY DEF F!FlatTotal
  <2>2. F!Total(E)[v] = Cardinality(Ev)
    BY TotalIs
  <2> QED BY <2>1, <2>2
<1>3. \A r \in G : r \in Outer(d) /\ F!Key(r) = k /\ r \in F!FromRows(d) /\ r \in JoinedRow
  BY OuterRows, OuterIs DEF OfKey
<1>4. \A p \in Ev : \E r \in G : p = << r, r[t] >> /\ r[t] = v
  OBVIOUS
<1>5. \A r \in G : r[t] = v => << r, r[t] >> \in Ev
  OBVIOUS
<1> HIDE DEF Ev, E
<1>6. Ev # {} <=> \E r \in G : r[t] = v
  BY <1>4, <1>5
<1>7. t = Root \/ t \notin F!Placed
  <2> SUFFICES ASSUME t # Root, t \in F!Placed PROVE FALSE
    OBVIOUS
  <2> QED BY AggBranch
<1>8. CASE t = Root
  <2>1. \A p, q \in Ev : p = q
    <3> TAKE p, q \in Ev
    <3>1. PICK r \in G : p = << r, r[t] >> /\ r[t] = v
      BY <1>4
    <3>2. PICK z \in G : q = << z, z[t] >> /\ z[t] = v
      BY <1>4
    <3>3. r = z
      BY <1>3, <1>8, <3>1, <3>2, OneOuterRow
    <3> QED BY <3>1, <3>2, <3>3
  <2>2. Cardinality(Ev) = IF Ev = {} THEN 0 ELSE 1
    BY <2>1, AtMostOne
  <2>3. ASSUME NEW r \in G, r[t] = v PROVE \E x \in OfKey(Whole(d), k) : x[t] = v
    <3>1. PICK x \in Whole(d) : \A u \in Tables \ F!Handled : x[u] = r[u]
      BY <1>3, LiftAny
    <3>2. F!Key(x) = k
      BY <1>3, <3>1, SameKey
    <3> QED BY <1>1, <1>8, <2>3, <3>1, <3>2 DEF OfKey
  <2>4. ASSUME NEW x \in OfKey(Whole(d), k), x[t] = v PROVE \E r \in G : r[t] = v
    <3>1. x \in Whole(d) /\ F!Key(x) = k
      BY DEF OfKey
    <3>2. PICK r \in Outer(d) : \A u \in Tables \ F!Handled : r[u] = x[u]
      BY <3>1, Project
    <3>3. F!Key(r) = k
      BY <3>1, <3>2, SameKey
    <3> QED BY <1>1, <1>8, <2>4, <3>2, <3>3 DEF OfKey
  <2> QED BY <1>2, <1>6, <2>2, <2>3, <2>4 DEF Shown
<1>9. CASE t # Root /\ t \notin F!Placed
  <2>1. t \notin F!Targets(F!PlanSteps) /\ t \notin F!Targets(OuterSteps)
    BY <1>9 DEF F!Placed, F!Targets, OuterSteps
  <2>2. \A r \in G : r[t] = 0
    BY <1>1, <1>3, <1>9, <2>1, OuterIs
  <2>3. \A x \in Whole(d) : x[t] = 0
    BY <1>1, <1>9, <2>1, WholeRows
  <2>4. Ev = {}
    BY <1>1, <1>6, <2>2
  <2>5. Cardinality(Ev) = 0
    BY <2>4, FS_EmptySet
  <2> QED BY <1>1, <1>2, <2>3, <2>5 DEF Shown, OfKey
<1> QED
  BY <1>7, <1>8, <1>9

LEMMA GroupedIs ==
    ASSUME NEW rows
    PROVE  /\ DOMAIN F!Grouped(rows) = IF report.plain = {} THEN {<< >>} ELSE {F!Key(r) : r \in rows}
           /\ \A k \in DOMAIN F!Grouped(rows) : F!Grouped(rows)[k] = OfKey(rows, k)
BY DEF F!Grouped, OfKey

LEMMA SameGroups ==
    ASSUME Honest, NEW d
    PROVE  DOMAIN F!Grouped(Outer(d)) = DOMAIN F!Grouped(Whole(d))
<1>1. ASSUME NEW r \in Outer(d) PROVE F!Key(r) \in {F!Key(x) : x \in Whole(d)}
  <2>1. PICK x \in Whole(d) : \A u \in Tables \ F!Handled : x[u] = r[u]
    BY LiftAny
  <2> QED BY <2>1, SameKey
<1>2. ASSUME NEW x \in Whole(d) PROVE F!Key(x) \in {F!Key(r) : r \in Outer(d)}
  <2>1. PICK r \in Outer(d) : \A u \in Tables \ F!Handled : r[u] = x[u]
    BY Project
  <2> QED BY <2>1, SameKey
<1>3. {F!Key(r) : r \in Outer(d)} = {F!Key(x) : x \in Whole(d)}
  BY <1>1, <1>2
<1> QED
  BY <1>3, GroupedIs

LEMMA HonestIsRight ==
    ASSUME Honest, result = F!Answer(db)
    PROVE  F!Right
<1> DEFINE ga == F!Grouped(Outer(db))
           gb == F!Grouped(Whole(db))
           figure(k, t) == IF t \in F!Handled THEN F!BranchTotal(ga[k], db, t) ELSE F!FlatTotal(ga[k], t)
           fact(k, t) == [v \in F!Rows |-> IF \E x \in gb[k] : x[t] = v THEN 1 ELSE 0]
<1>1. F!Answer(db) = [k \in DOMAIN ga |-> [t \in report.agg |-> figure(k, t)]]
  BY DEF F!Answer, Outer
<1>2. F!Truth = [k \in DOMAIN gb |-> [t \in report.agg |-> fact(k, t)]]
  BY DEF F!Truth, Whole
<1>3. DOMAIN ga = DOMAIN gb
  BY SameGroups
<1>4. ASSUME NEW k \in DOMAIN ga, NEW t \in report.agg PROVE figure(k, t) = fact(k, t)
  <2>1. ga[k] = OfKey(Outer(db), k) /\ gb[k] = OfKey(Whole(db), k)
    BY <1>3, GroupedIs
  <2>2. ASSUME NEW v \in F!Rows PROVE figure(k, t)[v] = fact(k, t)[v]
    <3>1. fact(k, t)[v] = Shown(db, k, t, v)
      BY <2>1 DEF Shown
    <3>2. figure(k, t)[v] = Shown(db, k, t, v)
      BY <2>1, BranchFigure, FlatFigure
    <3> QED BY <3>1, <3>2
  <2>3. figure(k, t) = [v \in F!Rows |-> figure(k, t)[v]]
    BY DEF F!BranchTotal, F!FlatTotal, F!Total
  <2> HIDE DEF figure
  <2> QED BY <2>2, <2>3
<1> HIDE DEF ga, gb, figure, fact
<1> QED
  BY <1>1, <1>2, <1>3, <1>4 DEF F!Right

(* ------------------------- The build ----------------------------------- *)

(* A build is with the planner until it has a plan; from then on each      *)
(* stage has left what it computes from the plan and the report.           *)
Stages == {"waiting", "planned", "annotated", "analysed", "done"}
BuildInv ==
    /\ stage \in Stages
    /\ IF stage = "waiting" THEN IInv ELSE pc = "returned" /\ Tree
    /\ stage \in Stages \ {"waiting", "planned"} => AnnotatedOK
    /\ stage \in {"analysed", "done"} => StrategyOK
    /\ stage = "done" => result = F!Answer(db)

LEMMA InitBuildInv == BuildInit => BuildInv
BY InitIInv DEF BuildInit, F!Init, BuildInv, Stages

(* The planner's tree is the tree of the statement.                        *)
LEMMA TreeHandedOver ==
    ASSUME IInv, Accepted, NEW kinds \in [DOMAIN steps -> Kinds], plan' = Annotated(kinds)
    PROVE  Tree'
<1>1. steps \in Seq(Links) /\ Links \subseteq [from : Tables, to : Tables, edge : registry]
  BY DEF IInv, TypeOK, Links
<1>2. Len(steps) \in Nat /\ DOMAIN steps = 1 .. Len(steps)
      /\ \A i \in DOMAIN steps : steps[i].from \in Tables /\ steps[i].to \in Tables
  BY <1>1
<1>3. \A i \in DOMAIN steps :
          LET before == {Root} \cup {steps[k].to : k \in 1 .. (i - 1)}
          IN  steps[i].from \in before /\ steps[i].to \notin before
  BY PlanUsable DEF UsablePlan
<1>4. \A i \in DOMAIN steps : kinds[i].many \in BOOLEAN /\ kinds[i].inner \in BOOLEAN
  BY KindsAssumption
<1>5. DOMAIN plan' = DOMAIN steps
      /\ \A i \in DOMAIN steps : plan'[i] = [from |-> steps[i].from, to |-> steps[i].to,
                                             many |-> kinds[i].many, inner |-> kinds[i].inner]
  BY DEF Annotated
<1>6. plan' \in Seq(F!Steps)
  <2>1. \A i \in 1 .. Len(steps) : plan'[i] \in F!Steps
    BY <1>2, <1>4, <1>5 DEF F!Steps
  <2>2. plan' = [i \in 1 .. Len(steps) |-> plan'[i]]
    BY <1>2 DEF Annotated
  <2>3. plan' \in [1 .. Len(steps) -> F!Steps]
    BY <2>1, <2>2
  <2> QED BY <1>2, <2>3
<1>7. ASSUME NEW i \in DOMAIN plan'
      PROVE  /\ plan'[i].to # Root
             /\ plan'[i].from # Root => \E k \in 1 .. (i - 1) : plan'[k].to = plan'[i].from
             /\ \A k \in 1 .. (i - 1) : plan'[k].to # plan'[i].to
  <2>1. i \in DOMAIN steps /\ plan'[i].from = steps[i].from /\ plan'[i].to = steps[i].to
    BY <1>5
  <2>2. \A k \in 1 .. (i - 1) : plan'[k].to = steps[k].to
    <3>1. \A k \in 1 .. (i - 1) : k \in DOMAIN steps
      BY <1>2, <2>1
    <3> QED BY <1>5, <3>1
  <2>3. /\ steps[i].from \in {Root} \cup {steps[k].to : k \in 1 .. (i - 1)}
        /\ steps[i].to \notin {Root} \cup {steps[k].to : k \in 1 .. (i - 1)}
    BY <1>3, <2>1
  <2> QED BY <2>1, <2>2, <2>3
<1> QED
  BY <1>6, <1>7 DEF Tree, F!Steps

LEMMA PlannerEnds == (Next /\ pc = "returned") => FALSE
BY DEF Next, Returned, BeginPass, PassOver, PlaceJoin, EndExplicit, BeginSearch, Visit, Relax, NoPath,
   Searched, Aim, WalkBack, Choose, PlaceEdge, EndRound, EndAuto, CheckSize

LEMMA SameLater ==
    ASSUME UNCHANGED << plan, report, fans, branchOf >>
    PROVE  /\ Tree <=> Tree'
           /\ AnnotatedOK <=> AnnotatedOK'
           /\ UNCHANGED << strategy, warned >> => (StrategyOK <=> StrategyOK')
<1>1. Tree <=> Tree'
  BY DEF Tree, F!Steps
<1>2. AnnotatedOK <=> AnnotatedOK'
  BY DEF AnnotatedOK, F!Definitions, F!FansOut, F!BranchOf, F!Branches, F!PlanSteps, F!Below
<1>3. UNCHANGED << strategy, warned >> => (StrategyOK <=> StrategyOK')
  BY DEF StrategyOK, F!Branches, F!PlanSteps, F!Choose, F!Multiplies, F!BranchTables, F!Uses, F!Placed
<1> QED
  BY <1>1, <1>2, <1>3

LEMMA SameAnswer ==
    ASSUME UNCHANGED << plan, report, branchOf, strategy >>, NEW d
    PROVE  F!Answer(d)' = F!Answer(d)
<1>1. F!PlanSteps' = F!PlanSteps
  BY DEF F!PlanSteps
<1>2. F!Branches' = F!Branches /\ F!Placed' = F!Placed
  BY <1>1 DEF F!Branches, F!Placed
<1>3. \A b : F!BranchTables(b)' = F!BranchTables(b) /\ F!RootStep(b)' = F!RootStep(b)
  BY <1>1, <1>2 DEF F!BranchTables, F!RootStep
<1>4. F!Handled' = F!Handled
  BY <1>2, <1>3 DEF F!Handled
<1>5. \A t : F!Below(t)' = F!Below(t) /\ F!Inline(t)' = F!Inline(t)
  BY <1>1 DEF F!Below, F!Inline
<1>6. \A s, p : F!Grain(s, d, p)' = F!Grain(s, d, p)
  BY <1>1, <1>5 DEF F!Grain, F!Kept
<1>7. \A t : F!Layers(t)' = F!Layers(t)
  BY <1>1, <1>5 DEF F!Layers
<1>8. \A t : F!Inmost(t)' = F!Inmost(t) /\ \A s : F!Around(s, t)' = F!Around(s, t)
  BY <1>5, <1>7 DEF F!Inmost, F!Around
<1>9. \A r, t : F!SubEntries(d, r, t)' = F!SubEntries(d, r, t)
  BY <1>6, <1>7, <1>8 DEF F!SubEntries
<1>10. \A rows, t : F!BranchTotal(rows, d, t)' = F!BranchTotal(rows, d, t)
  BY <1>8, <1>9 DEF F!BranchTotal
<1>11. F!FromRows(d)' = F!FromRows(d)
  BY <1>1, <1>4 DEF F!FromRows
<1>12. \A r : F!Where(r)' = F!Where(r) /\ F!Exists(r, d)' = F!Exists(r, d)
  <2>1. \A r : F!Where(r)' = F!Where(r)
    BY <1>4 DEF F!Where, F!Combined, F!Kept
  <2>2. \A r : F!Exists(r, d)' = F!Exists(r, d)
    <3> DEFINE own(b)     == {s \in F!PlanSteps : s.from \in F!BranchTables(b)}
               start(b, r) == {F!Only(b, c) : c \in F!Matching(F!RootStep(b), d, r[Root])}
               met(b, r)   == \E x \in F!Joined(own(b), d, start(b, r)) :
                                 F!Kept(x, report.filter \cap F!BranchTables(b))
               checked     == {c \in F!Branches : strategy[c] = "semi_join"}
    <3>1. \A b : own(b)' = own(b)
      BY <1>1, <1>3
    <3>2. \A b, r : start(b, r)' = start(b, r)
      BY <1>3
    <3>3. \A b, r : met(b, r)' = met(b, r)
      <4> HIDE DEF own, start
      <4> QED BY <1>3, <3>1, <3>2
    <3>4. checked' = checked
      BY <1>2
    <3>5. ASSUME NEW r PROVE F!Exists(r, d) <=> \A b \in checked : met(b, r)
      BY Zenon DEF F!Exists
    <3>6. ASSUME NEW r PROVE F!Exists(r, d)' <=> \A b \in checked' : met(b, r)'
      BY Zenon DEF F!Exists
    <3>7. ASSUME NEW r PROVE F!Exists(r, d)' = F!Exists(r, d)
      <4>1. F!Exists(r, d) \in BOOLEAN /\ F!Exists(r, d)' \in BOOLEAN
        BY DEF F!Exists
      <4> HIDE DEF met, checked
      <4> QED BY <3>3, <3>4, <3>5, <3>6, <4>1
    <3> QED BY <3>7
  <2> QED BY <2>1, <2>2
<1>13. \A rows : F!Grouped(rows)' = F!Grouped(rows)
  BY DEF F!Grouped, F!Key
<1> QED
  BY <1>4, <1>10, <1>11, <1>12, <1>13 DEF F!Answer

LEMMA NextBuildInv == BuildInv /\ [BuildNext]_<< vars, buildVars >> => BuildInv'
<1> SUFFICES ASSUME BuildInv, [BuildNext]_<< vars, buildVars >> PROVE BuildInv'
  OBVIOUS
<1> USE DEF Stages
<1>1. CASE Plan \/ UNCHANGED << vars, buildVars >>
  <2>1. [Next]_vars /\ UNCHANGED buildVars
    BY <1>1 DEF Plan
  <2>2. UNCHANGED << plan, report, stage, fans, branchOf, strategy, warned, db, result >>
    BY <2>1 DEF buildVars
  <2>3. CASE stage = "waiting"
    <3>1. IInv'
      BY <2>1, <2>3, IInvNext DEF BuildInv
    <3> QED BY <2>2, <2>3, <3>1 DEF BuildInv
  <2>4. CASE stage # "waiting"
    <3>1. pc = "returned" /\ Tree
      BY <2>4 DEF BuildInv
    <3>2. pc' = "returned"
      BY <2>1, <3>1, PlannerEnds DEF vars
    <3>3. stage = "done" => result' = F!Answer(db)'
      <4>1. F!Answer(db)' = F!Answer(db)
        BY <2>2, SameAnswer
      <4> QED BY <2>2, <4>1 DEF BuildInv
    <3> QED BY <2>2, <2>4, <3>1, <3>2, <3>3, SameLater DEF BuildInv
  <2> QED BY <2>3, <2>4
<1>2. CASE HandOver
  <2>1. PICK kinds \in [DOMAIN steps -> Kinds] : F!Take(Annotated(kinds))
    BY <1>2 DEF HandOver
  <2>2. stage = "waiting" /\ stage' = "planned" /\ plan' = Annotated(kinds)
    BY <2>1 DEF F!Take
  <2>3. IInv /\ Accepted /\ pc' = "returned"
    BY <1>2, <2>2 DEF BuildInv, HandOver
  <2>4. Tree'
    BY <2>2, <2>3, TreeHandedOver
  <2> QED BY <2>2, <2>3, <2>4 DEF BuildInv
<1>3. CASE Compile
  <2>0. UNCHANGED pc
    BY <1>3 DEF Compile
  <2>1. CASE stage = "planned" /\ \E rep \in Ordered : F!Annotate(rep)
    <3>1. PICK rep \in Ordered : F!Annotate(rep)
      BY <2>1
    <3>2. rep \in F!Definitions /\ rep.agg # {}
      BY ReportsAssumption DEF Ordered
    <3>3. /\ plan' = plan /\ report' = rep /\ fans' = F!FansOut /\ branchOf' = F!BranchOf
          /\ stage' = "annotated"
      BY <3>1 DEF F!Annotate
    <3>4. Tree' /\ F!FansOut' = F!FansOut /\ F!BranchOf' = F!BranchOf
      BY <2>1, <3>3 DEF BuildInv, Tree, F!Steps, F!FansOut, F!BranchOf, F!Branches, F!PlanSteps, F!Below
    <3>5. AnnotatedOK'
      BY <3>2, <3>3, <3>4 DEF AnnotatedOK, F!Definitions
    <3> QED BY <2>0, <2>1, <3>3, <3>4, <3>5 DEF BuildInv
  <2>2. CASE F!Analyze
    <3>1. /\ stage = "annotated" /\ stage' = "analysed"
          /\ strategy' = [t \in Tables |-> IF t \in F!Branches THEN F!Choose(t) ELSE "none"]
          /\ warned' = (/\ report.agg # {}
                        /\ \E b \in F!Branches : F!Multiplies(b) /\ F!Choose(b) = "detail")
          /\ UNCHANGED << plan, report, fans, branchOf >>
      BY <2>2 DEF F!Analyze
    <3>2. AnnotatedOK
      BY <3>1 DEF BuildInv
    <3>3. StrategyOK'
      <4>1. F!Branches' = F!Branches
        BY <3>1 DEF F!Branches, F!PlanSteps
      <4>2. \A b : F!Choose(b)' = F!Choose(b) /\ F!Multiplies(b)' = F!Multiplies(b)
        BY <3>1 DEF F!Choose, F!Multiplies, F!BranchTables, F!Uses, F!Placed, F!PlanSteps
      <4> QED BY <3>1, <3>2, <4>1, <4>2 DEF StrategyOK, AnnotatedOK
    <3> QED BY <2>0, <3>1, <3>2, <3>3, SameLater DEF BuildInv
  <2>3. CASE F!Execute
    <3>1. stage = "analysed" /\ stage' = "done"
          /\ UNCHANGED << plan, report, fans, branchOf, strategy, warned >>
      BY <2>3 DEF F!Execute
    <3>2. result' = F!Answer(db')
      BY <2>3 DEF F!Execute
    <3>3. F!Answer(db)' = F!Answer(db')
      BY <3>1, SameAnswer
    <3> QED BY <2>0, <3>1, <3>2, <3>3, SameLater DEF BuildInv
  <2> QED BY <1>3, <2>1, <2>2, <2>3 DEF Compile
<1>4. CASE Answered
  BY <1>1, <1>4 DEF Answered
<1> QED
  BY <1>1, <1>2, <1>3, <1>4 DEF BuildNext

LEMMA BuildInvariant == BuildSpec => []BuildInv
BY InitBuildInv, NextBuildInv, PTL DEF BuildSpec

LEMMA BuildHonest == BuildInv => HonestTotals
<1> SUFFICES ASSUME BuildInv, F!Done, ~warned, \A t \in report.agg : F!OwnedByRoot(t),
                    F!InnerApart, F!FiltersApart,
                    report.any => F!Cardinality(report.filter) <= 1
             PROVE  F!Right
  BY DEF HonestTotals, F!HonestTotals
<1>1. Tree /\ AnnotatedOK /\ StrategyOK /\ result = F!Answer(db)
  BY DEF BuildInv, F!Done, Stages
<1>2. Honest
  BY <1>1, SameCardinality DEF Honest, Analysed
<1> QED
  BY <1>1, <1>2, HonestIsRight

(* A report that carries no inflation warning shows, for every group, the  *)
(* figures counted from the records: each record enters its total once,    *)
(* whatever branches the report mixes, however deep they multiply and      *)
(* whatever rows the tables hold.                                          *)
THEOREM TotalsAreHonest == BuildSpec => []HonestTotals
BY BuildInvariant, BuildHonest, PTL

(* The planner's promise, in a build: what is handed over is a tree over   *)
(* the selected tables.                                                    *)
THEOREM BuildIsUsable == BuildSpec => []UsablePlan
<1>1. BuildInv => UsablePlan
  <2>1. ASSUME BuildInv, stage = "waiting" PROVE UsablePlan
    BY <2>1, PlanUsable DEF BuildInv
  <2>2. ASSUME BuildInv, stage # "waiting" PROVE UsablePlan
    BY <2>2 DEF BuildInv, UsablePlan, Accepted
  <2> QED BY <2>1, <2>2
<1> QED
  BY <1>1, BuildInvariant, PTL

(* The planner's other promise, in a build: no path is taken without       *)
(* asking unless it is the only cheapest one.                              *)
THEOREM BuildIsForced == BuildSpec => OnlyForcedJoins
<1>1. BuildInv /\ [BuildNext]_<< vars, buildVars >> =>
        [(pc = "walk" /\ pc' = "place" /\ "ambiguous_join_path" \notin diag' /\ Len(path') <= MaxWalk) =>
          \E t \in outstanding :
              /\ Cheapest(t) = {path'}
              /\ \A u \in outstanding : \A q \in Cheapest(u) : Length(path') <= Length(q)]_vars
  <2> SUFFICES ASSUME BuildInv, [BuildNext]_<< vars, buildVars >>, pc = "walk", pc' = "place"
               PROVE  IInv /\ [Next]_vars
    BY StepForced
  <2>1. IInv
    BY DEF BuildInv
  <2>2. Next
    BY DEF BuildNext, Plan, HandOver, Compile, Answered, vars
  <2> QED BY <2>1, <2>2
<1> QED
  BY <1>1, BuildInvariant, PTL DEF BuildSpec, OnlyForcedJoins

=============================================================================
