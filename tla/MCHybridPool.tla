---------------------------- MODULE MCHybridPool ----------------------------
(* Small instances of HybridPool: reports on one kind of table and on      *)
(* both, and some whose join plan goes through a table nobody asked for,   *)
(* an operational table between uploads or one more operational table.     *)
EXTENDS HybridPool

CONSTANTS a, b, u, v

Rep(asked, planned) == [asked |-> asked, planned |-> planned]

PlainReports == {Rep({a}, {a}), Rep({u}, {u}), Rep({a, u}, {a, u})}
MixedReports == {Rep({a, u}, {a, u}), Rep({a, b, u}, {a, b, u})}
SomeReports  == PlainReports \cup {Rep({a, u}, {a, b, u}), Rep({u, v}, {u, v, a})}

=============================================================================
