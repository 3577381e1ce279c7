------------------------------ MODULE SyncFetch ------------------------------
(***************************************************************************)
(* How one dataset is read from its provider: connector_service._fetch_all *)
(* and the fetch methods of the clients it drives.  ConnectorSync takes    *)
(* all of this as a single step that ends in rows, no rows or an error;    *)
(* here every request is a step of its own, and the provider's list        *)
(* changes between two of them.                                            *)
(*                                                                         *)
(* A record is a number, newer records have greater ones, and a provider   *)
(* lists what it has with the newest first.  A row is a pair: the record,  *)
(* and which entry of its nested list the row is for.                      *)
(***************************************************************************)
EXTENDS Naturals, Sequences, FiniteSets, SequencesExt, FiniteSetsExt

CONSTANTS
    Records,     \* what the provider may ever hold
    Entries,     \* Entries[r]: length of the nested list of record r
    PageSize,    \* rows asked for in one page
    MaxPages,    \* MAX_PAGES
    MaxRows,     \* MAX_ROWS_PER_SYNC
    MaxIds,      \* MAX_IDENTIFIERS
    BatchSize,   \* KeySource.batch_size, and what one keyed request is answered for
    MaxChanges,  \* bound of the model: changes at the provider during one fetch
    InitialLists, \* bound of the model: what the provider may hold at first
    Recorded     \* bound of the model: the identifiers a key source may hold

ASSUME FetchAssumption ==
    /\ Records \subseteq Nat \ {0} /\ IsFiniteSet(Records)
    /\ Entries \in [Records -> Nat]
    /\ {PageSize, MaxPages, MaxRows, MaxIds, BatchSize} \subseteq Nat \ {0}
    /\ MaxChanges \in Nat
    /\ InitialLists \subseteq SUBSET Records /\ Recorded \subseteq SUBSET Records

(* One dataset of each way of reading the clients have: the pages of Meta  *)
(* follow a cursor, those of Shippo a URL with the page's number, those of *)
(* S&S an offset, those of RIIN a page index; some answer in one go, some  *)
(* only about identifiers they are given, some ask nobody.                 *)
Dataset(style, asPage, nested) == [style |-> style, asPage |-> asPage, nested |-> nested]

Offered ==
    [meta         |-> {Dataset("after", FALSE, FALSE),   \* campaigns, ads, insights
                       Dataset("after", TRUE, FALSE),    \* page_posts
                       Dataset("whole", TRUE, FALSE)},   \* page_insights
     shippo       |-> {Dataset("number", FALSE, FALSE)},
     ssactivewear |-> {Dataset("offset", FALSE, FALSE)},
     riin         |-> {Dataset("index", FALSE, FALSE),   \* styles, products
                       Dataset("whole", FALSE, FALSE),   \* ship_addresses
                       Dataset("keyed", FALSE, FALSE),   \* order_info
                       Dataset("keyed", FALSE, TRUE),    \* order_status
                       Dataset("census", FALSE, FALSE),  \* api_responses
                       Dataset("fixed", FALSE, FALSE),   \* codes_order_status
                       Dataset("query", FALSE, FALSE)}]  \* orders_sent

Datasets == UNION {Offered[p] : p \in DOMAIN Offered}
Paged    == {"after", "number", "offset", "index"}
Shifting == {"number", "offset", "index"}
Keyed    == {"keyed", "census"}

VARIABLES
    dataset,   \* the dataset being read
    status,    \* "none" before it is added, "idle", "asking", then "done", "limited", "failed"
    list,      \* the records the provider holds
    stubborn,  \* the provider ignores which page it is asked for
    ids,       \* the identifiers still to ask about, the greatest first
    cursor,    \* where the next page begins; 0: at the start, or there is none
    pages,     \* requests for rows so far
    token,     \* the Page's own token: "unasked", "own", "none"
    rows,      \* what has been fetched
    asked,     \* (history) the identifiers read at the start
    steady,    \* (history) records the provider has held since the fetch began
    moved      \* (history) how many records were added and removed since then

fetchVars == <<dataset, status, list, stubborn, ids, cursor, pages, token, rows, asked, steady, moved>>

Rows == Records \X Nat

FetchTypeOK ==
    /\ dataset \in Datasets
    /\ status \in {"none", "idle", "asking", "done", "limited", "failed"}
    /\ list \subseteq Records /\ steady \subseteq Records /\ asked \subseteq Records
    /\ stubborn \in BOOLEAN
    /\ ids \subseteq Records /\ Cardinality(ids) =< MaxIds
    /\ cursor \in Nat
    /\ pages \in 0 .. MaxPages
    /\ token \in {"unasked", "own", "none"}
    /\ rows \in Seq(Nat \X Nat) /\ (dataset.style # "fixed" => Len(rows) =< MaxRows)
    /\ moved \in [{"added", "removed"} -> 0 .. MaxChanges]

(* ---------------------------- The provider ----------------------------- *)

(* The place of a record in a list: 1 is the newest.                       *)
Place(S, r) == Cardinality({q \in S : q >= r})
Newest(S, n) == {r \in S : Place(S, r) =< n}

(* The records one request is answered with, given where the page begins.  *)
Answer(style, at) ==
    LET from == IF stubborn THEN 0 ELSE at
        skipped == CASE style = "after"  -> {r \in list : from # 0 /\ r >= from}
                     [] style = "offset" -> Newest(list, from)
                     [] OTHER            -> Newest(list, PageSize * (IF from = 0 THEN 0 ELSE from - 1))
    IN Newest(list \ skipped, PageSize)

Oldest(page) == CHOOSE r \in page : \A q \in page : r =< q

(* Whether the answer says that there is more (Meta, Shippo); the clients  *)
(* believe it, also of an empty page.                                      *)
HasNext(style, at, page) ==
    \/ stubborn
    \/ style = "after" /\ \E r \in list : page # {} /\ r < Oldest(page)
    \/ style = "number" /\ Cardinality(list) > PageSize * (IF at = 0 THEN 1 ELSE at)

(* A keyed endpoint answers about the first BatchSize identifiers it knows *)
(* and silently drops the rest.                                            *)
KeyedAnswer(keys) == Newest(keys, BatchSize) \cap list

(* ----------------------------- The clients ----------------------------- *)

(* The cursor a client returns with a page; 0 is None.  Where a provider   *)
(* names it, it goes by the page it answered with.                         *)
AfterOf(page) == IF page = {} THEN 1 ELSE Oldest(page)
NumberOf(at) == IF stubborn \/ at = 0 THEN 1 ELSE at

NextCursor_FullPageIsLast(style, at, page) ==
    CASE style = "after"  -> IF HasNext(style, at, page) THEN AfterOf(page) ELSE 0
      [] style = "number" -> IF HasNext(style, at, page) THEN NumberOf(at) + 1 ELSE 0
      [] style = "offset" -> IF Cardinality(page) > PageSize THEN at + Cardinality(page) ELSE 0
      [] style = "index"  -> IF Cardinality(page) > PageSize THEN (IF at = 0 THEN 1 ELSE at) + 1 ELSE 0
      [] OTHER            -> 0
NextCursor_AfterFirst(style, at, page) ==
    CASE style = "after"  -> IF HasNext(style, at, page) THEN IF page = {} THEN 1 ELSE Max(page) ELSE 0
      [] style = "number" -> IF HasNext(style, at, page) THEN NumberOf(at) + 1 ELSE 0
      [] style = "offset" -> IF Cardinality(page) >= PageSize THEN at + Cardinality(page) ELSE 0
      [] style = "index"  -> IF Cardinality(page) >= PageSize THEN (IF at = 0 THEN 1 ELSE at) + 1 ELSE 0
      [] OTHER            -> 0
NextCursor(style, at, page) ==
    CASE style = "after"  -> IF HasNext(style, at, page) THEN AfterOf(page) ELSE 0
      [] style = "number" -> IF HasNext(style, at, page) THEN NumberOf(at) + 1 ELSE 0
      [] style = "offset" -> IF Cardinality(page) >= PageSize THEN at + Cardinality(page) ELSE 0
      [] style = "index"  -> IF Cardinality(page) >= PageSize THEN (IF at = 0 THEN 1 ELSE at) + 1 ELSE 0
      [] OTHER            -> 0

(* One row for each entry of the nested list, and one for a record whose   *)
(* list is empty (RiinConnector._exploded); one row for a record otherwise.*)
RowsOf(page, nested) ==
    UNION {{r} \X (1 .. IF nested /\ Entries[r] # 0 THEN Entries[r] ELSE 1) : r \in page}

(* They are kept in the order of the list, and the entries in theirs.      *)
RowPlace(X, row) ==
    Cardinality({x \in X : x[1] > row[1] \/ (x[1] = row[1] /\ x[2] =< row[2])})
InOrder(X) == [n \in 1 .. Cardinality(X) |-> CHOOSE row \in X : RowPlace(X, row) = n]
AsRows(page, nested) == InOrder(RowsOf(page, nested))

(* The census asks every endpoint once: five that list, the three about    *)
(* orders if it was given any, and one about the products the fourth       *)
(* listed.                                                                 *)
CensusOf(keys) ==
    [i \in 1 .. 5 + (IF keys # {} THEN 3 ELSE 0) + (IF list # {} THEN 1 ELSE 0) |-> <<i, 1>>]

(* Sending more identifiers than the documented number is not a larger     *)
(* request, so a batch is BatchSize of them; the census takes all at once. *)
Batch == IF dataset.style = "census" THEN MaxIds ELSE BatchSize

(* ------------------------------- The walk ------------------------------ *)

Still == [change \in {"added", "removed"} |-> 0]

FetchInit ==
    /\ dataset = Dataset("fixed", FALSE, FALSE) /\ status = "none"
    /\ list = {} /\ stubborn = FALSE
    /\ ids = {} /\ cursor = 0 /\ pages = 0 /\ token = "unasked" /\ rows = <<>>
    /\ asked = {} /\ steady = {} /\ moved = Still

(* POST /{id}/datasets: something the provider offers; its first fetch     *)
(* meets whatever the provider holds by then.                              *)
AddDataset(offered) ==
    /\ status = "none" /\ status' = "idle"
    /\ dataset' \in offered
    /\ list' \in InitialLists
    /\ stubborn' \in IF dataset'.style \in Paged THEN BOOLEAN ELSE {FALSE}
    /\ UNCHANGED <<ids, cursor, pages, token, rows, asked, steady, moved>>

End(outcome) == status' = outcome

Start(outcome) ==
    /\ status = "idle" /\ End(outcome)
    /\ steady' = list /\ moved' = Still
    /\ UNCHANGED <<dataset, list, stubborn, cursor, pages, token>>

(* Rows defined in code; `list` is then what the code holds.               *)
CopyFixed ==
    /\ dataset.style = "fixed" /\ Start("done")
    /\ rows' = AsRows(list, FALSE) /\ UNCHANGED <<ids, asked>>

(* A query of the reporting database, of which `list` is the result: cut   *)
(* short at the limit it is refused, or totals would look complete.        *)
RunQuery ==
    /\ dataset.style = "query"
    /\ \/ /\ Cardinality(list) =< MaxRows /\ Start("done")
          /\ rows' = AsRows(list, FALSE)
       \/ /\ Cardinality(list) > MaxRows /\ Start("failed") /\ UNCHANGED rows
    /\ UNCHANGED <<ids, asked>>

(* The identifiers, distinct and up to the limit, from wherever they were  *)
(* recorded; without any there is nothing to ask about.                    *)
ReadIdentifiers ==
    /\ dataset.style \in Keyed
    /\ \E recorded \in Recorded : \E found \in SUBSET recorded :
          /\ Cardinality(found) = Min({MaxIds, Cardinality(recorded)})
          /\ ids' = found /\ asked' = found
          /\ Start(IF found = {} THEN "failed" ELSE "asking")
    /\ UNCHANGED rows

AskProvider ==
    /\ dataset.style \in Paged \cup {"whole"} /\ Start("asking")
    /\ UNCHANGED <<rows, ids, asked>>

(* A Page's endpoints want the Page's own token, which is asked for once   *)
(* per client; without one the dataset cannot be read.                     *)
PageToken ==
    /\ status = "asking" /\ dataset.asPage /\ token = "unasked"
    /\ \/ token' = "own" /\ UNCHANGED status
       \/ token' = "none" /\ End("failed")
    /\ UNCHANGED <<dataset, list, stubborn, ids, cursor, pages, rows, asked, steady, moved>>

Ready == status = "asking" /\ (dataset.asPage => token = "own")

(* What happens to the rows of an answer: they are kept up to the limit,   *)
(* and reaching it ends the walk.                                          *)
Take(new, more) ==
    /\ \E all \in {rows \o new} :
          /\ rows' = IF Len(all) > MaxRows THEN SubSeq(all, 1, MaxRows) ELSE all
          /\ End(IF Len(all) >= MaxRows THEN "limited"
                 ELSE IF more THEN "asking" ELSE "done")

RequestPage_WaitsForLast ==
    /\ Ready /\ dataset.style \in Paged
    /\ \E page \in {Answer(dataset.style, cursor)} :
          /\ cursor' = NextCursor(dataset.style, cursor, page)
          /\ Take(AsRows(page, dataset.nested), cursor' # 0)
    /\ pages' = IF pages < MaxPages THEN pages + 1 ELSE 1
    /\ UNCHANGED <<dataset, list, stubborn, ids, token, asked, steady, moved>>
RequestPage ==
    /\ Ready /\ dataset.style \in Paged
    /\ \E page \in {Answer(dataset.style, cursor)} :
          /\ cursor' = NextCursor(dataset.style, cursor, page)
          /\ Take(AsRows(page, dataset.nested), cursor' # 0 /\ pages + 1 < MaxPages)
    /\ pages' = pages + 1
    /\ UNCHANGED <<dataset, list, stubborn, ids, token, asked, steady, moved>>

RequestWhole ==
    /\ Ready /\ dataset.style = "whole"
    /\ Take(AsRows(list, dataset.nested), FALSE)
    /\ pages' = pages + 1
    /\ UNCHANGED <<dataset, list, stubborn, ids, cursor, token, asked, steady, moved>>

RequestBatch ==
    /\ Ready /\ dataset.style \in Keyed
    /\ LET keys == Newest(ids, Batch)
       IN /\ ids' = ids \ keys
          /\ Take(IF dataset.style = "census" THEN CensusOf(keys)
                  ELSE AsRows(KeyedAnswer(keys), dataset.nested), ids' # {})
    /\ UNCHANGED <<dataset, list, stubborn, cursor, pages, token, asked, steady, moved>>

(* A request is refused, times out or is answered with something else:     *)
(* ConnectorError leaves the walk, and what was fetched is dropped.        *)
RequestFails ==
    /\ Ready
    /\ End("failed") /\ rows' = <<>>
    /\ UNCHANGED <<dataset, list, stubborn, ids, cursor, pages, token, asked, steady, moved>>

(* The provider's records come and go while they are read.                 *)
Changes == status = "asking" /\ moved["added"] + moved["removed"] < MaxChanges

Added ==
    /\ Changes
    /\ \E r \in Records \ list : list' = list \cup {r}
    /\ moved' = [moved EXCEPT !["added"] = @ + 1]
    /\ UNCHANGED <<dataset, status, stubborn, ids, cursor, pages, token, rows, asked, steady>>

Removed ==
    /\ Changes
    /\ \E r \in list : list' = list \ {r} /\ steady' = steady \ {r}
    /\ moved' = [moved EXCEPT !["removed"] = @ + 1]
    /\ UNCHANGED <<dataset, status, stubborn, ids, cursor, pages, token, rows, asked>>

FetchStep ==
    \/ CopyFixed \/ RunQuery \/ ReadIdentifiers \/ AskProvider
    \/ PageToken \/ RequestPage \/ RequestWhole \/ RequestBatch \/ RequestFails

(* ------------------------------ Properties ----------------------------- *)

(* The walk came to the end of what the provider had to say.               *)
Exhausted == status = "done" /\ cursor = 0

Expected ==
    CASE dataset.style = "keyed"  -> AsRows(asked \cap list, dataset.nested)
      [] dataset.style = "census" -> CensusOf(asked)
      [] OTHER                    -> AsRows(list, dataset.nested)

(* "Every row of one dataset" (_fetch_all): unless the list moved while it *)
(* was read or a limit cut the walk, what the sync stores is what the      *)
(* provider holds, each record once and in its order, whichever way the    *)
(* client pages, also when the list ends exactly with a full page; for a   *)
(* keyed dataset, about every identifier, with a row also for a record     *)
(* that has no entries.                                                    *)
WholeUnlessCut ==
    Exhausted /\ moved = Still /\ ~stubborn => rows = Expected

Fetched == {row[1] : row \in Range(rows)}
Doubled == \E i, j \in DOMAIN rows : i # j /\ rows[i] = rows[j]

(* A list that moves under the walk costs a record that was there all the  *)
(* time only if pages are counted from the start and something was removed *)
(* before it, and brings a record twice only if something was added there; *)
(* a walk that follows cursors does neither.                               *)
ShiftNeedsCause ==
    Exhausted /\ dataset.style \in Paged /\ ~stubborn =>
        /\ ~(steady \subseteq Fetched) => dataset.style \in Shifting /\ moved["removed"] > 0
        /\ Doubled => dataset.style \in Shifting /\ moved["added"] > 0

(* A provider that returns pages for ever, or keeps adding to its list, is *)
(* left after MAX_PAGES: every fetch ends.                                 *)
FetchEnds == status = "asking" ~> status \in {"done", "limited", "failed"}

=============================================================================
