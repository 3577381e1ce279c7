--------------------------- MODULE MCReportBuild ---------------------------
(* Small instances of ReportBuild: every registry over four tables with    *)
(* physical (2) and manual (3) edges and one possible parallel edge, and   *)
(* every order of declared joins over a registry with loops.               *)
EXTENDS ReportBuild

CONSTANTS r, a, b, c

Edge(i, l, t, k) == [id |-> i, left |-> l, right |-> t, cost |-> k]
Choice(i, l, t)  == {{}, {Edge(i, l, t, 2)}, {Edge(i, l, t, 3)}}

AllRegistries ==
    {ra \cup rb \cup rc \cup ab \cup bc \cup par :
        ra \in Choice("ra", r, a), rb \in Choice("rb", r, b), rc \in Choice("rc", c, r),
        ab \in Choice("ab", a, b), bc \in Choice("bc", b, c),
        par \in {{}, {Edge("ra2", a, r, 2)}}}

Orders(S) == UNION {{s \in [1 .. k -> S] : \A i, j \in 1 .. k : s[i] = s[j] => i = j}
                    : k \in 1 .. Cardinality(S)}

AutoInputs == [registry : AllRegistries, selected : Orders({a, b, c}), declared : {<< >>}]

LoopRegistry == {Edge("ra", r, a, 2), Edge("rb", r, b, 6), Edge("ab", b, a, 3),
                 Edge("bc", b, c, 2)}
Join(l, t, on, id) == [left |-> l, right |-> t, on |-> on, id |-> id]
Joins == {Join(r, a, "ra", "ra"), Join(r, b, "rb", "none"), Join(a, b, "ab", "none"),
          Join(b, c, "bc", "gone"), Join(a, c, "none", "none")}
LoopInputs == [registry : {LoopRegistry}, selected : {<<a>>, <<b, c>>}, declared : Orders(Joins)]

AllInputs == AutoInputs \cup LoopInputs

(* INNER only where a many-to-one relationship says so.                    *)
Kind(m, i)   == [many |-> m, inner |-> i]
PlannedKinds == {Kind(FALSE, TRUE), Kind(FALSE, FALSE), Kind(TRUE, FALSE)}

Sums == {d \in [plain : SUBSET {r, a, b}, agg : SUBSET {r, a, b} \ {{}}, filter : SUBSET {r, a, b},
                any : BOOLEAN, corrected : BOOLEAN] :
           /\ d.any => Cardinality(d.filter) > 1
           /\ ~d.corrected => d.filter = {}}
Unfiltered == {d \in Sums : d.filter = {} /\ d.corrected}

=============================================================================
