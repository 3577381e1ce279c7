--------------------------- MODULE MCReportEditor ---------------------------
(* A small instance of ReportEditor: two tables with one column each, and  *)
(* one saved report that uses everything a definition has.                 *)
EXTENDS ReportEditor, TLC

CONSTANTS a, b, ca, cb, r1, r2

ColumnTable == (ca :> a) @@ (cb :> b)

Orders == [report |-> r1,
           def |-> [primary |-> a, tables |-> {a, b}, columns |-> {ca, cb},
                    sorts |-> {cb}, groups |-> {a}, filters |-> {b},
                    look |-> FALSE]]

=============================================================================
