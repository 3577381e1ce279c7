---- MODULE MCDigiMatch ----
(* Small instances of DigiMatch: two orders, two sales orders, two orphans. *)
EXTENDS DigiMatch

Pair(x, y) == [i \in {1, 2} |-> IF i = 1 THEN x ELSE y]

(* Half days: the same day, the day after, a week and more, too long ago.  *)
MCTimes == {0, 1, 2, 3, 7, 9, 20, 100}
MCInputs ==
    [placed  : {Pair(2, 3), Pair(2, 20), Pair(NoDay, 9)},
     named   : {Pair({}, {}), Pair({}, {1}), Pair({1, 2}, {2})},
     tracked : {Pair(Nobody, Nobody), Pair(2, Nobody)},
     date    : {Pair(2, 2), Pair(0, 7), Pair(100, NoDay)},
     name    : {Pair(Pair(2, 2), Pair(2, 2)), Pair(Pair(2, 1), Pair(2, 0)), Pair(Pair(0, 0), Pair(1, 1))},
     zip     : {Pair(Pair(TRUE, TRUE), Pair(TRUE, TRUE)), Pair(Pair(TRUE, FALSE), Pair(FALSE, FALSE))},
     bought  : {{}, {1}, {1, 2}},
     orphanDate : {Pair(2, 2), Pair(3, 9), Pair(NoDay, 100)},
     orphanName : {Pair(Pair(2, 2), Pair(2, 2)), Pair(Pair(1, 2), Pair(2, 0)), Pair(Pair(0, 0), Pair(0, 0))}]
====
