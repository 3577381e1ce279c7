------------------------------ MODULE DigiMatch ------------------------------
(***************************************************************************)
(* services/connectors/digi_match.py: which sales order each DIGI order    *)
(* was for.  Nothing links the two, so match() goes over the DIGI orders   *)
(* four times, from the surest rule to the least sure, and what an earlier *)
(* pass decided bounds what a later one may.  One action is one order's    *)
(* turn in one pass.                                                       *)
(*                                                                         *)
(* DIGI orders, sales orders and orphans (DIGI purchase orders whose sales *)
(* order is gone) are numbered in the order of their lists.  match() sorts *)
(* the DIGI orders by time; the other lists are in whatever order the      *)
(* database returned.                                                      *)
(***************************************************************************)
EXTENDS Integers, Sequences, FiniteSets

CONSTANTS
    Orders, Sales, Orphans,  \* numbers of the three lists
    Times,                   \* dates and times, in half days
    NoDay, Nobody,           \* a missing date, no sales order
    Inputs                   \* bound of the model: what the queries may return

(* What the queries return, as far as match() can tell: when each was      *)
(* placed, how well the recipient's name fits (name_match: 2 the same, 1   *)
(* spelled differently, 0 another), whether a ZIP code agrees, on whose    *)
(* purchase orders the DIGI number is written, whose shipment has the      *)
(* tracking number, and which sales orders have a purchase order.          *)
InputType ==
    [placed  : [Orders -> Times \cup {NoDay}],
     named   : [Orders -> SUBSET Sales],
     tracked : [Orders -> Sales \cup {Nobody}],
     date    : [Sales -> Times \cup {NoDay}],
     name    : [Orders -> [Sales -> 0 .. 2]],
     zip     : [Orders -> [Sales -> BOOLEAN]],
     bought  : SUBSET Sales,
     orphanDate : [Orphans -> Times \cup {NoDay}],
     orphanName : [Orders -> [Orphans -> 0 .. 2]]]

ASSUME MatchAssumption ==
    /\ Orders \subseteq Nat /\ Orphans \subseteq Nat /\ Times \subseteq Int
    /\ Sales \subseteq Nat /\ IsFiniteSet(Sales)
    /\ Inputs \subseteq InputType
    /\ \A in \in Inputs : \A b, c \in Orders :
          b < c /\ in.placed[c] # NoDay => in.placed[b] = NoDay \/ in.placed[b] =< in.placed[c]

DaysBefore == 45
DaysAfter == 7

VARIABLES
    in,       \* the input
    pass,     \* "exact", "likely", "orphans", "rows", "done"
    turn,     \* the DIGI orders whose turn in this pass has been
    links,    \* what each DIGI order has been matched to
    claimed,  \* purchase orders that are spoken for
    used,     \* purchase orders named in the rows written
    hint,     \* purchase orders a row's note says have no DIGI order
    leftOver  \* the rows for purchase orders no DIGI order was matched to

vars == <<in, pass, turn, links, claimed, used, hint, leftOver>>

(* Purchase orders: one of each sales order that has any, and the orphans. *)
PurchaseOrders == {<<"sale", s>> : s \in in.bought} \cup {<<"orphan", p>> : p \in Orphans}

Unlinked == [to |-> "none", number |-> Nobody, how |-> "", confidence |-> "Not matched", notes |-> {}]

LinkType ==
    [to : {"none", "sale", "orphan"}, number : Sales \cup Orphans \cup {Nobody},
     how : {"", "number", "tracking", "name", "orphan"},
     confidence : {"High", "Medium", "Low", "Not matched"},
     notes : SUBSET {"spelled", "fulfilled", "tie", "deleted"}]

TypeOK ==
    /\ in \in Inputs
    /\ pass \in {"exact", "likely", "orphans", "rows", "done"}
    /\ turn \subseteq Orders
    /\ links \in [Orders -> LinkType]
    /\ \A b \in Orders : links[b].number \in [none |-> {Nobody}, sale |-> Sales, orphan |-> Orphans][links[b].to]
    /\ claimed \subseteq PurchaseOrders /\ used \subseteq PurchaseOrders
    /\ hint \in [Orders -> SUBSET PurchaseOrders] /\ leftOver \subseteq PurchaseOrders

Init ==
    /\ in \in Inputs
    /\ pass = "exact" /\ turn = {}
    /\ links = [b \in Orders |-> Unlinked]
    /\ claimed = {} /\ used = {} /\ leftOver = {}
    /\ hint = [b \in Orders |-> {}]

First(S) == CHOOSE x \in S : \A y \in S : x =< y

(* (x - y).days rounds down, so half a day before counts as a day and half *)
(* a day after as none.                                                    *)
DaysSince(x, y) == (x - y) \div 2
Size(n) == IF n >= 0 THEN n ELSE -n
Distance(x, y) == Size(DaysSince(x, y))

Turn(p, b) == pass = p /\ turn # Orders /\ b = First(Orders \ turn) /\ turn' = turn \cup {b}

(* ------------------------ 1 and 2: exact links ------------------------- *)

(* The number on a purchase order of the first sales order that has it     *)
(* there; without one, the shipment with the same tracking number.         *)
ExactLink(b) ==
    IF in.named[b] # {}
    THEN [to |-> "sale", number |-> First(in.named[b]), how |-> "number", confidence |-> "High", notes |-> {}]
    ELSE IF in.tracked[b] # Nobody
    THEN [to |-> "sale", number |-> in.tracked[b], how |-> "tracking", confidence |-> "High", notes |-> {}]
    ELSE Unlinked

MatchExactly(b) ==
    /\ Turn("exact", b)
    /\ links' = [links EXCEPT ![b] = ExactLink(b)]
    /\ UNCHANGED <<in, pass, claimed, used, hint, leftOver>>

(* ------------------------ 3: name, ZIP and date ------------------------ *)

(* Exact matches of the same sales order placed more than a week away.     *)
Fulfilled(b, s) ==
    \E c \in Orders : /\ links[c].confidence = "High" /\ links[c].to = "sale" /\ links[c].number = s
                      /\ in.placed[c] # NoDay /\ Distance(in.placed[b], in.placed[c]) > 7

Gap(b, s) == DaysSince(in.placed[b], in.date[s])

Candidate(b, s) ==
    /\ in.name[b][s] > 0 /\ in.date[s] # NoDay
    /\ -DaysAfter =< Gap(b, s) /\ Gap(b, s) =< DaysBefore

Closeness(gap) == IF gap =< 1 THEN 3 ELSE IF gap =< 7 THEN 2 ELSE IF gap =< 21 THEN 1 ELSE 0

Score(b, s) ==
      in.name[b][s] * 2
    + (IF in.zip[b][s] THEN 3 ELSE 0)
    + Closeness(Size(Gap(b, s)))
    + (IF s \in in.bought THEN 1 ELSE 0)
    - (IF Fulfilled(b, s) THEN 3 ELSE 0)

(* The better score, then the nearer date; the sort is stable, so among    *)
(* equals the one that comes first in the list of sales orders.            *)
Beats(b, s, t) ==
    \/ Score(b, s) > Score(b, t)
    \/ Score(b, s) = Score(b, t) /\ Size(Gap(b, s)) < Size(Gap(b, t))

Best(b, S) == First({s \in S : \A t \in S : ~Beats(b, t, s)})

LikelyLink_TellsByDate(b, s, S) ==
    [to |-> "sale", number |-> s, how |-> "name",
     confidence |-> IF in.name[b][s] = 2 /\ in.zip[b][s] /\ ~Fulfilled(b, s) THEN "Medium" ELSE "Low",
     notes |-> {n \in {"tie"} : \E t \in S \ {s} : Score(b, t) = Score(b, s) /\ Size(Gap(b, t)) # Size(Gap(b, s))}]
LikelyLink(b, s, S) ==
    [to |-> "sale", number |-> s, how |-> "name",
     confidence |-> IF in.name[b][s] = 2 /\ in.zip[b][s] /\ ~Fulfilled(b, s) THEN "Medium" ELSE "Low",
     notes |-> {n \in {"spelled", "fulfilled", "tie"} :
                  \/ n = "spelled" /\ in.name[b][s] = 1
                  \/ n = "fulfilled" /\ Fulfilled(b, s)
                  \/ n = "tie" /\ \E t \in S \ {s} : Score(b, t) = Score(b, s)}]

MatchLikely(b) ==
    /\ Turn("likely", b)
    /\ LET found == {s \in Sales : Candidate(b, s)}
       IN IF links[b] # Unlinked \/ in.placed[b] = NoDay \/ found = {}
          THEN UNCHANGED links
          ELSE links' = [links EXCEPT ![b] = LikelyLink(b, Best(b, found), found)]
    /\ UNCHANGED <<in, pass, claimed, used, hint, leftOver>>

(* ------------- 4: purchase orders whose sales order is gone ------------ *)

(* A sure or likely match speaks for the purchase orders of its sales      *)
(* order.                                                                  *)
Claims == {<<"sale", links[b].number>> : b \in {c \in Orders : /\ links[c].confidence \in {"High", "Medium"}
                                                              /\ links[c].number \in in.bought}}

OrphanGap(b, p) == Distance(in.placed[b], in.orphanDate[p])

Adoptable_ByAnyone(b, p) ==
    /\ in.orphanName[b][p] > 0 /\ in.orphanDate[p] # NoDay
    /\ OrphanGap(b, p) =< 3
Adoptable(b, p) ==
    /\ <<"orphan", p>> \notin claimed
    /\ in.orphanName[b][p] > 0 /\ in.orphanDate[p] # NoDay
    /\ OrphanGap(b, p) =< 3

(* The better name, then the nearer date, then the first in the list.      *)
BestOrphan(b, S) ==
    First({p \in S : \A q \in S : \/ in.orphanName[b][p] > in.orphanName[b][q]
                                  \/ /\ in.orphanName[b][p] = in.orphanName[b][q]
                                     /\ OrphanGap(b, p) =< OrphanGap(b, q)})

OrphanLink(b, p) ==
    [to |-> "orphan", number |-> p, how |-> "orphan",
     confidence |-> IF OrphanGap(b, p) =< 1 /\ in.orphanName[b][p] = 2 THEN "Medium" ELSE "Low",
     notes |-> {"deleted"} \cup (IF in.orphanName[b][p] = 1 THEN {"spelled"} ELSE {})]

(* A likely match gives way only if its sales order was fulfilled before,  *)
(* or the purchase order is of the same day and nearer.                    *)
GivesWay(b, p) ==
    \/ links[b] = Unlinked
    \/ "fulfilled" \in links[b].notes
    \/ /\ OrphanGap(b, p) =< 1
       /\ OrphanGap(b, p) < Distance(in.placed[b], in.date[links[b].number])

MatchOrphan_FirstOnly(b) ==
    /\ Turn("orphans", b)
    /\ LET found == {p \in {First(Orphans)} : in.placed[b] # NoDay /\ Adoptable(b, p)}
       IN IF links[b].confidence = "High" \/ found = {} \/ ~GivesWay(b, First(Orphans))
          THEN UNCHANGED <<links, claimed>>
          ELSE /\ links' = [links EXCEPT ![b] = OrphanLink(b, First(Orphans))]
               /\ claimed' = claimed \cup {<<"orphan", First(Orphans)>>}
    /\ UNCHANGED <<in, pass, used, hint, leftOver>>
MatchOrphan(b) ==
    /\ Turn("orphans", b)
    /\ LET found == {p \in Orphans : Adoptable(b, p)}
       IN IF \/ links[b].confidence = "High" \/ in.placed[b] = NoDay \/ found = {}
             \/ ~GivesWay(b, BestOrphan(b, found))
          THEN UNCHANGED <<links, claimed>>
          ELSE /\ links' = [links EXCEPT ![b] = OrphanLink(b, BestOrphan(b, found))]
               /\ claimed' = claimed \cup {<<"orphan", BestOrphan(b, found)>>}
    /\ UNCHANGED <<in, pass, used, hint, leftOver>>

(* -------------------------------- The rows ----------------------------- *)

(* The purchase orders a link's row names.                                 *)
Shown(b) == {po \in PurchaseOrders : po = <<links[b].to, links[b].number>>}

(* The orders whose customer a purchase order names (bound of the model:   *)
(* all names a sales order is known by fit alike).                         *)
SameCustomer(b, po) == IF po[1] = "sale" THEN in.name[b][po[2]] = 2 ELSE in.orphanName[b][po[2]] = 2

(* The row of an order whose sales order has no purchase order points at   *)
(* those of the same customer which no row has named so far.               *)
WriteRow(b) ==
    /\ Turn("rows", b)
    /\ used' = used \cup Shown(b)
    /\ hint' = IF links[b].to = "sale" /\ Shown(b) = {}
               THEN [hint EXCEPT ![b] = {po \in PurchaseOrders \ used : SameCustomer(b, po)}]
               ELSE hint
    /\ UNCHANGED <<in, pass, links, claimed, leftOver>>

Following == [exact |-> "likely", likely |-> "orphans", orphans |-> "rows", rows |-> "done"]

EndPass_Claimed ==
    /\ pass # "done" /\ turn = Orders
    /\ pass' = Following[pass]
    /\ turn' = IF pass = "rows" THEN Orders ELSE {}
    /\ claimed' = IF pass = "likely" THEN Claims ELSE claimed
    /\ leftOver' = IF pass = "rows" THEN PurchaseOrders \ claimed ELSE leftOver
    /\ UNCHANGED <<in, links, used, hint>>
EndPass ==
    /\ pass # "done" /\ turn = Orders
    /\ pass' = Following[pass]
    /\ turn' = IF pass = "rows" THEN Orders ELSE {}
    /\ claimed' = IF pass = "likely" THEN Claims ELSE claimed
    /\ leftOver' = IF pass = "rows" THEN PurchaseOrders \ used ELSE leftOver
    /\ UNCHANGED <<in, links, used, hint>>

Returned == pass = "done" /\ UNCHANGED vars

Next ==
    \/ \E b \in Orders : MatchExactly(b) \/ MatchLikely(b) \/ MatchOrphan(b) \/ WriteRow(b)
    \/ EndPass
    \/ Returned

Spec == Init /\ [][Next]_vars

(* ------------------------------ Properties ----------------------------- *)

(* "One [row] per DIGI order, and one per DIGI purchase order no DIGI      *)
(* order was matched to": when the rows are written each purchase order is *)
(* either in a row of an order or in a row of its own, also one whose      *)
(* match was too weak to claim it and one that lost its order to an orphan;*)
(* and as an orphan was for one DIGI order, no two rows name it, whichever *)
(* of them it fits better.                                                 *)
EveryPoShownOnce ==
    /\ pass = "done" =>
          leftOver = {po \in PurchaseOrders : \A b \in Orders : po \notin Shown(b)}
    /\ \A b, c \in Orders : b # c /\ links[b].to = "orphan" => Shown(b) # Shown(c)

(* What is left unmatched fits nothing that is still to be had: no sales   *)
(* order by name and date, and no orphan that another order did not take.  *)
UnmatchedFitsNothing ==
    \A b \in Orders :
        pass \in {"rows", "done"} /\ links[b] = Unlinked /\ in.placed[b] # NoDay =>
            /\ \A s \in Sales : ~Candidate(b, s)
            /\ \A p \in Orphans : ~Adoptable(b, p)

(* The lists come from queries without ORDER BY.  Had the sales orders     *)
(* come the other way round, an order that is matched by name would have   *)
(* gone to the same one, or its row says that another fits equally well.   *)
LastOf(S) == CHOOSE x \in S : \A y \in S : y =< x
TieIsTold ==
    \A b \in Orders :
        links[b].how = "name" =>
            LET found == {s \in Sales : Candidate(b, s)}
                other == LastOf({s \in found : \A t \in found : ~Beats(b, t, s)})
            IN other = links[b].number \/ "tie" \in links[b].notes

(* "This customer has DIGI purchase order(s) with no DIGI order": those a  *)
(* row points at are in the end left over.                                 *)
HintIsTrue == pass = "done" => \A b \in Orders : hint[b] \subseteq leftOver

=============================================================================
