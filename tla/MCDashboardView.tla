---- MODULE MCDashboardView ----
(* Small instances of DashboardView: seven orders over a month, half of    *)
(* them dated differently in the table of their invoices, one not at all.  *)
EXTENDS DashboardView
CONSTANTS orders, invoices

MCDated == [t \in {orders, invoices} |->
              IF t = orders THEN <<100, 99, 98, 97, 94, 93, 87>> ELSE <<101, 99, 97, 97, 95, Nothing, 86>>]
Set(op, children) == [op |-> op, children |-> children]
Range(preset, mode, periods) ==
    [preset |-> preset, mode |-> mode, periods |-> periods, start |-> Nothing, end |-> Nothing, field |-> orders]
Custom(start, end) == [Range("custom", "last", 1) EXCEPT !.start = start, !.end = end]
Ranges == {Range("daily", m, n) : m \in {"last", "this", "previous"}, n \in {1, 2}}
          \cup {Range("weekly", "last", 1), Range("all_time", "last", 1), Custom(99, 97), Custom(98, Nothing)}
          \cup {[Range("daily", "last", 2) EXCEPT !.field = f] : f \in {Nothing, invoices}}
Own == {Set("and", {}), Set("and", {{1, 2, 5}}), Set("or", {{1, 3, 5}, {2, 3, 4}})}
Filter(t, on) == [table |-> t, rows |-> {1, 3, 4, 6}, active |-> on]
Card(own, ignores, comparison, field) ==
    [table |-> orders, own |-> own, ignores |-> ignores, comparison |-> comparison, field |-> field]
Strips == {<<>>}
          \cup {<<Card(own, FALSE, c, Nothing)>> : own \in Own, c \in {"none", "previous_period", "share_of_total"}}
          \cup {<<Card(Set("and", {}), TRUE, "previous_period", Nothing),
                  Card(Set("and", {{1, 2, 5}}), FALSE, "previous_period", invoices)>>}
Panels == {[ignores |-> i, ignoresFilters |-> f, field |-> Nothing] : i, f \in BOOLEAN}
Board(range, strip, filters, p, own, tables) ==
    [range |-> range, cards |-> strip, filters |-> filters, panel |-> p, report |-> [tables |-> tables, own |-> own]]
MCBoards ==
    {Board(range, strip, filters, Nothing, Set("and", {}), {orders}) :
        range \in Ranges, strip \in Strips \ {<<>>},
        filters \in {<<>>, <<Filter(orders, FALSE), Filter(invoices, TRUE)>>}}
    \cup {Board(range, <<>>, <<Filter(orders, a), Filter(invoices, TRUE)>>, p, own, tables) :
        range \in Ranges, a \in BOOLEAN, p \in Panels, own \in Own, tables \in {{orders}, {orders, invoices}}}
====
