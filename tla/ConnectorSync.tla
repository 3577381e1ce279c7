--------------------------- MODULE ConnectorSync ---------------------------
(***************************************************************************)
(* Refreshing the tables that hold API data: connector_service.py, its     *)
(* background loop connector_scheduler.py and the dataset routes of        *)
(* api/v1/connectors.py.                                                   *)
(*                                                                         *)
(* A dataset is two things in two transactions: its catalogue row          *)
(* (connector_datasets, written through an ORM session) and the physical   *)
(* table with its rows (dropped and recreated on a connection of its own). *)
(* Everything below is about the two of them drifting apart.               *)
(*                                                                         *)
(* An ORM session keeps the object it loaded; a flush writes only the      *)
(* attributes that differ from what was loaded, and fails (StaleDataError) *)
(* when the row is gone.  base[j] is what job j loaded, mine[j] its object. *)
(***************************************************************************)
EXTENDS Naturals

CONSTANTS
    Datasets,     \* dataset ids; an id is never reused
    Schedulers,   \* worker processes running the refresh loop
    Requests,     \* worker threads running a Refresh request's sync
    Deleters,     \* worker threads running a delete request
    Shapes,       \* column lists a provider may answer with
    NoShape,      \* the empty column list of a row never written
    NoTable,      \* no physical table
    Nobody,       \* a lock held by no process
    Offered,      \* datasets whose kind this release still offers
    Batches,      \* INSERT statements one write takes
    MaxCrashes    \* bound: worker processes that die in one behaviour

ASSUME ConstantsAssumption ==
    /\ Batches \in Nat \ {0}
    /\ MaxCrashes \in Nat
    /\ Offered \subseteq Datasets
    /\ NoShape \notin Shapes
    /\ NoTable \notin [shape : Shapes \cup {NoShape}, batches : 0 .. Batches]
    /\ Datasets # {}
    /\ Nobody \notin Schedulers \cup Requests \cup Deleters
    /\ Schedulers \cap Requests = {}
    /\ Deleters \cap (Schedulers \cup Requests) = {}

Jobs == Schedulers \cup Requests

VARIABLES
    connector,   \* the ApiConnector row: active, inactive or gone
    life,        \* does the catalogue row exist: unborn, live, deleted
    row,         \* the committed catalogue row
    rowLock,     \* job holding the row's lock since its flush
    tables,      \* the committed physical table
    tableLock,   \* process holding the table's lock
    pc,          \* where each sync job is
    ds,          \* the dataset a job works on
    base,        \* the row as the job's session loaded it
    mine,        \* the job's object, with its unsaved changes
    fetched,     \* the columns of the rows the job fetched
    sawTable,    \* what the process's checkfirst found
    batch,       \* batches inserted in the job's open transaction
    todo,        \* datasets a scheduler has still to sync in this tick
    advisory,    \* holder of the PostgreSQL advisory lock
    dpc,         \* where each delete request is
    dtodo,       \* datasets it has still to drop
    dnamed,      \* those that had a physical_table when it listed them
    dcur,        \* the dataset it is dropping
    whole,       \* the request deletes the connector too
    crashes,     \* worker processes that have died
    blame,       \* history: what has disturbed a dataset since its last clean sync
    alone        \* history: nobody else has been at the dataset during this sync

connVars   == << connector >>
rowVars    == << life, row, rowLock >>
tableVars  == << tables, tableLock >>
histVars   == << blame, alone >>
sessVars   == << ds, base, mine, fetched, sawTable, batch >>
tickVars   == << todo, advisory >>
deleteVars == << dpc, dtodo, dnamed, dcur, whole >>
vars == << connVars, rowVars, tableVars, pc, sessVars, tickVars, deleteVars,
           crashes, histVars >>

-----------------------------------------------------------------------------
Statuses == {"pending", "syncing", "ready", "error"}
Ages     == {"never", "old", "fresh"}     \* last_synced_at against the interval
Row      == [status : Statuses, physical : BOOLEAN,
             columns : Shapes \cup {NoShape}, synced : Ages]
Content  == [shape : Shapes \cup {NoShape}, batches : 0 .. Batches]
Steps    == {"idle", "asked", "queued", "loaded", "fetch", "empty", "failed",
             "flush", "check", "wait", "write", "tabled"}
Causes   == {"overlap", "interrupted", "undropped"}

NewRow == [status |-> "pending", physical |-> FALSE,
           columns |-> NoShape, synced |-> "never"]
Home   == CHOOSE d \in Datasets : TRUE    \* what an idle process is parked on

(* Past session.get: the job's object mirrors a row it has read.           *)
Working == {"loaded", "fetch", "empty", "failed", "flush", "check", "wait",
            "write", "tabled"}

JobsOn(d)   == {j \in Jobs : pc[j] \in Working /\ ds[j] = d}
Deleting(d) == \E k \in Deleters : d \in dtodo[k] \/ (dpc[k] \in {"drop", "forget"} /\ dcur[k] = d)

LiveDatasets == {d \in Datasets : life[d] = "live"}

(* load_datasets: what the report builder is offered.                      *)
Visible_WhileSyncing(d) ==
    life[d] = "live" /\ row[d].status \in {"ready", "syncing"} /\ connector = "active"
Visible(d) == life[d] = "live" /\ row[d].status = "ready" /\ connector = "active"

(* due_for_sync: the interval has elapsed, or there was never a sync.      *)
Due_NoRetry ==
    {d \in LiveDatasets : /\ connector = "active"
                          /\ row[d].synced # "fresh"
                          /\ row[d].status # "error"}
Due == {d \in LiveDatasets : connector = "active" /\ row[d].synced # "fresh"}

(* The UPDATE a flush emits: only attributes that differ from the loaded   *)
(* ones are written over whatever the row holds now.                       *)
Net(old, new, now) == IF new = old THEN now ELSE new
Merge(now, b, m) ==
    [now EXCEPT !.status   = Net(b.status, m.status, now.status),
                !.physical = Net(b.physical, m.physical, now.physical),
                !.columns  = Net(b.columns, m.columns, now.columns)]

RowFree(j, d)   == rowLock[d] \in {Nobody, j}
TableFree(p, d) == tableLock[d] \in {Nobody, p}

TypeOK ==
    /\ connector \in {"active", "inactive", "gone"}
    /\ life      \in [Datasets -> {"unborn", "live", "deleted"}]
    /\ row       \in [Datasets -> Row]
    /\ rowLock   \in [Datasets -> Jobs \cup {Nobody}]
    /\ tables    \in [Datasets -> Content \cup {NoTable}]
    /\ tableLock \in [Datasets -> Jobs \cup {Nobody}]
    /\ pc        \in [Jobs -> Steps]
    /\ ds        \in [Jobs -> Datasets]
    /\ base      \in [Jobs -> Row]
    /\ mine      \in [Jobs -> Row]
    /\ fetched   \in [Jobs -> Shapes \cup {NoShape}]
    /\ sawTable  \in [Jobs \cup Deleters -> BOOLEAN]
    /\ batch     \in [Jobs -> 0 .. Batches]
    /\ todo      \in [Schedulers -> SUBSET Datasets]
    /\ advisory  \in Schedulers \cup {Nobody}
    /\ dpc       \in [Deleters -> {"idle", "next", "drop", "forget"}]
    /\ dtodo     \in [Deleters -> SUBSET Datasets]
    /\ dnamed    \in [Deleters -> SUBSET Datasets]
    /\ dcur      \in [Deleters -> Datasets]
    /\ whole     \in [Deleters -> BOOLEAN]
    /\ crashes   \in 0 .. MaxCrashes
    /\ blame     \in [Datasets -> SUBSET Causes]
    /\ alone     \in [Jobs -> BOOLEAN]

(* Some datasets were added before this process started: their first sync  *)
(* is still owed.  One whose kind is no longer offered is always of them.  *)
Init ==
    /\ connector = "active"
    /\ life \in [Datasets -> {"unborn", "live"}]
    /\ \A d \in Datasets \ Offered : life[d] = "live"
    /\ row = [d \in Datasets |-> NewRow]
    /\ rowLock = [d \in Datasets |-> Nobody]
    /\ tables = [d \in Datasets |-> NoTable]
    /\ tableLock = [d \in Datasets |-> Nobody]
    /\ pc = [j \in Jobs |-> "idle"]
    /\ ds = [j \in Jobs |-> Home]
    /\ base = [j \in Jobs |-> NewRow]
    /\ mine = [j \in Jobs |-> NewRow]
    /\ fetched = [j \in Jobs |-> NoShape]
    /\ sawTable = [p \in Jobs \cup Deleters |-> FALSE]
    /\ batch = [j \in Jobs |-> 0]
    /\ todo = [s \in Schedulers |-> {}]
    /\ advisory = Nobody
    /\ dpc = [k \in Deleters |-> "idle"]
    /\ dtodo = [k \in Deleters |-> {}]
    /\ dnamed = [k \in Deleters |-> {}]
    /\ dcur = [k \in Deleters |-> Home]
    /\ whole = [k \in Deleters |-> FALSE]
    /\ crashes = 0
    /\ blame = [d \in Datasets |-> {}]
    /\ alone = [j \in Jobs |-> FALSE]

-----------------------------------------------------------------------------
(***************************************************************************)
(* The parts of a job's step.                                              *)
(***************************************************************************)
Goto(j, step) == pc' = [pc EXCEPT ![j] = step]

(* The locks p holds are freed.                                            *)
Released(lock, p) == [d \in Datasets |-> IF lock[d] = p THEN Nobody ELSE lock[d]]

(* The session is closed: what was not committed is rolled back, the locks *)
(* of its transactions are freed, its objects are gone.                    *)
CloseSession_NoRollback(j) ==
    /\ Goto(j, "idle")
    /\ ds' = [ds EXCEPT ![j] = Home]
    /\ base' = [base EXCEPT ![j] = NewRow]
    /\ mine' = [mine EXCEPT ![j] = NewRow]
    /\ fetched' = [fetched EXCEPT ![j] = NoShape]
    /\ sawTable' = [sawTable EXCEPT ![j] = FALSE]
    /\ batch' = [batch EXCEPT ![j] = 0]
    /\ alone' = [alone EXCEPT ![j] = FALSE]
    /\ UNCHANGED << rowLock, tableLock >>
CloseSession(j) ==
    /\ Goto(j, "idle")
    /\ ds' = [ds EXCEPT ![j] = Home]
    /\ base' = [base EXCEPT ![j] = NewRow]
    /\ mine' = [mine EXCEPT ![j] = NewRow]
    /\ fetched' = [fetched EXCEPT ![j] = NoShape]
    /\ sawTable' = [sawTable EXCEPT ![j] = FALSE]
    /\ batch' = [batch EXCEPT ![j] = 0]
    /\ alone' = [alone EXCEPT ![j] = FALSE]
    /\ rowLock' = Released(rowLock, j)
    /\ tableLock' = Released(tableLock, j)

Blamed(d, why) == blame' = [blame EXCEPT ![d] = @ \cup {why}]

(* A step at which the session ends without having committed anything.     *)
Abandon(j) ==
    /\ CloseSession(j)
    /\ UNCHANGED << connVars, life, row, tables, tickVars, deleteVars, crashes, blame >>

-----------------------------------------------------------------------------
(***************************************************************************)
(* The routes of api/v1/connectors.py.                                     *)
(***************************************************************************)
(* add_dataset: insert the row, answer, then sync in the background.       *)
AddDataset(r, d) ==
    /\ pc[r] = "idle"
    /\ life[d] = "unborn"
    /\ connector # "gone"
    /\ d \in Offered
    /\ life' = [life EXCEPT ![d] = "live"]
    /\ Goto(r, "queued")
    /\ ds' = [ds EXCEPT ![r] = d]
    /\ UNCHANGED << connVars, row, rowLock, tableVars, base, mine, fetched, sawTable,
                    batch, tickVars, deleteVars, crashes, histVars >>

(* sync_now, first half: the row is read and the button refused while the  *)
(* status says a sync is running.                                          *)
SyncNowRead(r, d) ==
    /\ pc[r] = "idle"
    /\ life[d] = "live"
    /\ row[d].status # "syncing"
    /\ Goto(r, "asked")
    /\ ds' = [ds EXCEPT ![r] = d]
    /\ UNCHANGED << connVars, rowVars, tableVars, base, mine, fetched, sawTable,
                    batch, tickVars, deleteVars, crashes, histVars >>

(* sync_now, second half: the status is committed and the task queued; the *)
(* commit fails when the row has been deleted since.                       *)
SyncNowCommit(r) ==
    /\ pc[r] = "asked"
    /\ RowFree(r, ds[r])
    /\ \/ /\ life[ds[r]] = "live"
          /\ row' = [row EXCEPT ![ds[r]].status = "syncing"]
          /\ Goto(r, "queued")
          /\ UNCHANGED << connVars, life, rowLock, tableVars, sessVars, tickVars,
                          deleteVars, crashes, histVars >>
       \/ /\ life[ds[r]] = "deleted"
          /\ Abandon(r)

(* update_connector: the Active switch.                                    *)
SetActive ==
    /\ connector' \in {"active", "inactive"} \ {connector}
    /\ connector # "gone"
    /\ UNCHANGED << rowVars, tableVars, pc, sessVars, tickVars, deleteVars, crashes,
                    histVars >>

-----------------------------------------------------------------------------
(***************************************************************************)
(* connector_scheduler._tick and _sync_due.                                *)
(***************************************************************************)
(* What pg_try_advisory_lock answers.                                      *)
LockGranted_Ignored == TRUE
LockGranted == advisory = Nobody

(* The lock is asked for, then the list of what is due is made.            *)
TickStart(s) ==
    /\ pc[s] = "idle"
    /\ LockGranted
    /\ Due # {}
    /\ advisory' = s
    /\ todo' = [todo EXCEPT ![s] = Due]
    /\ UNCHANGED << connVars, rowVars, tableVars, pc, sessVars, deleteVars, crashes,
                    histVars >>

TickNext(s) ==
    /\ pc[s] = "idle"
    /\ \E d \in todo[s] :
          /\ todo' = [todo EXCEPT ![s] = @ \ {d}]
          /\ ds' = [ds EXCEPT ![s] = d]
    /\ Goto(s, "queued")
    /\ UNCHANGED << connVars, rowVars, tableVars, base, mine, fetched, sawTable, batch,
                    advisory, deleteVars, crashes, histVars >>

(* The finally clause: the lock goes back whatever the syncs did.          *)
TickEnd(s) ==
    /\ advisory = s
    /\ pc[s] = "idle"
    /\ todo[s] = {}
    /\ advisory' = Nobody
    /\ UNCHANGED << connVars, rowVars, tableVars, pc, sessVars, todo, deleteVars,
                    crashes, histVars >>

(* Time passes: sync_interval_minutes have gone by since the last sync.    *)
IntervalElapses(d) ==
    /\ row[d].synced = "fresh"
    /\ row' = [row EXCEPT ![d].synced = "old"]
    /\ UNCHANGED << connVars, life, rowLock, tableVars, pc, sessVars, tickVars,
                    deleteVars, crashes, histVars >>

-----------------------------------------------------------------------------
(***************************************************************************)
(* connector_service.sync_dataset, for the loop and for a background task. *)
(***************************************************************************)
(* session.get: nothing to do when the row is gone.                        *)
Load(j) ==
    /\ pc[j] = "queued"
    /\ \/ /\ life[ds[j]] = "deleted"
          /\ Abandon(j)
       \/ /\ life[ds[j]] = "live"
          /\ Goto(j, "loaded")
          /\ base' = [base EXCEPT ![j] = row[ds[j]]]
          /\ mine' = [mine EXCEPT ![j] = row[ds[j]]]
          /\ LET others == JobsOn(ds[j]) IN
             IF others = {} /\ ~Deleting(ds[j])
             THEN /\ alone' = [alone EXCEPT ![j] = TRUE]
                  /\ UNCHANGED blame
             ELSE /\ alone' = [i \in Jobs |-> alone[i] /\ i \notin others /\ i # j]
                  /\ Blamed(ds[j], "overlap")
          /\ UNCHANGED << connVars, rowVars, tableVars, ds, fetched, sawTable, batch,
                          tickVars, deleteVars, crashes >>

(* The UPDATE of a flush or commit waits for the row's lock, and raises    *)
(* StaleDataError when it matches no row.                                  *)
Stale(j) ==
    /\ RowFree(j, ds[j])
    /\ life[ds[j]] = "deleted"
    /\ Abandon(j)

(* The connector is gone or no longer offers this kind: ConnectorError,    *)
(* raised before anything is recorded on the dataset.                      *)
Unsyncable(d) == connector = "gone" \/ d \notin Offered

(* status = "syncing"; commit.  No UPDATE is sent when it already said so. *)
MarkSyncing(j) ==
    /\ pc[j] = "loaded"
    /\ IF Unsyncable(ds[j]) THEN Abandon(j)
       ELSE IF base[j].status = "syncing"
       THEN /\ Goto(j, "fetch")
            /\ UNCHANGED << connVars, rowVars, tableVars, sessVars, tickVars,
                            deleteVars, crashes, histVars >>
       ELSE \/ Stale(j)
            \/ /\ RowFree(j, ds[j])
               /\ life[ds[j]] = "live"
               /\ row' = [row EXCEPT ![ds[j]].status = "syncing"]
               /\ mine' = [mine EXCEPT ![j].status = "syncing"]
               /\ base' = [base EXCEPT ![j].status = "syncing"]
               /\ Goto(j, "fetch")
               /\ UNCHANGED << connVars, life, rowLock, tableVars, ds, fetched,
                               sawTable, batch, tickVars, deleteVars, crashes,
                               histVars >>

(* build_connector and _fetch_all: rows, no rows, a ConnectorError (caught *)
(* and recorded) or any other exception (it leaves sync_dataset at once).  *)
Fetch(j) ==
    /\ pc[j] = "fetch"
    /\ \/ \E shape \in Shapes : /\ fetched' = [fetched EXCEPT ![j] = shape]
                                /\ Goto(j, "flush")
       \/ Goto(j, "empty")  /\ UNCHANGED fetched
       \/ Goto(j, "failed") /\ UNCHANGED fetched
    /\ UNCHANGED << connVars, rowVars, tableVars, ds, base, mine, sawTable, batch,
                    tickVars, deleteVars, crashes, histVars >>

Raise(j) ==
    /\ pc[j] \in {"fetch", "flush", "wait", "write"}
    /\ Abandon(j)

(* The except branch: status = "error", committed; the table is untouched. *)
RecordFailure(j) ==
    /\ pc[j] = "failed"
    /\ \/ Stale(j)
       \/ /\ RowFree(j, ds[j])
          /\ life[ds[j]] = "live"
          /\ row' = [row EXCEPT ![ds[j]].status = "error"]
          /\ CloseSession(j)
          /\ UNCHANGED << connVars, life, tables, tickVars, deleteVars, crashes, blame >>

(* "Nothing came back": the table is left alone, the status is ready.      *)
RecordEmpty(j) ==
    /\ pc[j] = "empty"
    /\ \/ Stale(j)
       \/ /\ RowFree(j, ds[j])
          /\ life[ds[j]] = "live"
          /\ row' = [row EXCEPT ![ds[j]].status = "ready", ![ds[j]].synced = "fresh"]
          /\ CloseSession(j)
          /\ UNCHANGED << connVars, life, tables, tickVars, deleteVars, crashes, blame >>

(* _write_rows, before its transaction: the first sync names the table and *)
(* flushes, which leaves the row locked until the session commits.         *)
Flush(j) ==
    /\ pc[j] = "flush"
    /\ \/ ~base[j].physical /\ Stale(j)
       \/ /\ IF base[j].physical THEN UNCHANGED rowLock
             ELSE /\ RowFree(j, ds[j])
                  /\ life[ds[j]] = "live"
                  /\ rowLock' = [rowLock EXCEPT ![ds[j]] = j]
          /\ mine' = [mine EXCEPT ![j].physical = TRUE, ![j].columns = fetched[j]]
          /\ Goto(j, "check")
          /\ UNCHANGED << connVars, life, row, tableVars, ds, base, fetched, sawTable,
                          batch, tickVars, deleteVars, crashes, histVars >>

(* table.drop(checkfirst=True) looks before it locks.                      *)
CheckTable(j) ==
    /\ pc[j] = "check"
    /\ sawTable' = [sawTable EXCEPT ![j] = tables[ds[j]] # NoTable]
    /\ Goto(j, "wait")
    /\ UNCHANGED << connVars, rowVars, tableVars, ds, base, mine, fetched, batch,
                    tickVars, deleteVars, crashes, histVars >>

(* DROP TABLE waits for the table, CREATE TABLE for the name.  A table     *)
(* that vanished or appeared since the look is an error of the database.   *)
Recreate(j) ==
    /\ pc[j] = "wait"
    /\ TableFree(j, ds[j])
    /\ \/ /\ sawTable[j] # (tables[ds[j]] # NoTable)
          /\ Abandon(j)
       \/ /\ sawTable[j] = (tables[ds[j]] # NoTable)
          /\ tableLock' = [tableLock EXCEPT ![ds[j]] = j]
          /\ batch' = [batch EXCEPT ![j] = 0]
          /\ Goto(j, "write")
          /\ UNCHANGED << connVars, rowVars, tables, ds, base, mine, fetched, sawTable,
                          tickVars, deleteVars, crashes, histVars >>

WriteBatch(j) ==
    /\ pc[j] = "write"
    /\ batch[j] < Batches
    /\ batch' = [batch EXCEPT ![j] = @ + 1]
    /\ UNCHANGED << connVars, rowVars, tableVars, pc, ds, base, mine, fetched, sawTable,
                    tickVars, deleteVars, crashes, histVars >>

(* The INSERT loop has run out of batches.                                 *)
AllWritten_AnyBatch(j) == batch[j] > 0
AllWritten(j) == batch[j] = Batches

(* The end of engine.begin(): the new contents replace the old.            *)
CommitTable(j) ==
    /\ pc[j] = "write"
    /\ AllWritten(j)
    /\ tables' = [tables EXCEPT ![ds[j]] = [shape |-> mine[j].columns, batches |-> batch[j]]]
    /\ tableLock' = [tableLock EXCEPT ![ds[j]] = Nobody]
    /\ Goto(j, "tabled")
    /\ UNCHANGED << connVars, rowVars, sessVars, tickVars, deleteVars, crashes, histVars >>

(* session.commit(): the catalogue catches up with the table.              *)
FinalCommit_Refreshed(j) ==
    /\ pc[j] = "tabled"
    /\ \/ Stale(j)
       \/ /\ RowFree(j, ds[j])
          /\ life[ds[j]] = "live"
          /\ row' = [row EXCEPT ![ds[j]] =
                        [@ EXCEPT !.status = "ready", !.synced = "fresh"]]
          /\ CloseSession(j)
          /\ blame' = [blame EXCEPT ![ds[j]] = IF alone[j] THEN {} ELSE @]
          /\ UNCHANGED << connVars, life, tables, tickVars, deleteVars, crashes >>
FinalCommit(j) ==
    /\ pc[j] = "tabled"
    /\ \/ Stale(j)
       \/ /\ RowFree(j, ds[j])
          /\ life[ds[j]] = "live"
          /\ row' = [row EXCEPT ![ds[j]] =
                        [Merge(@, base[j], [mine[j] EXCEPT !.status = "ready"])
                            EXCEPT !.synced = "fresh"]]
          /\ CloseSession(j)
          /\ blame' = [blame EXCEPT ![ds[j]] = IF alone[j] THEN {} ELSE @]
          /\ UNCHANGED << connVars, life, tables, tickVars, deleteVars, crashes >>

-----------------------------------------------------------------------------
(***************************************************************************)
(* delete_dataset and delete_connector, over drop_dataset.                 *)
(***************************************************************************)
(* The datasets of D whose row names a table.                              *)
Named_ReadyOnly(D) == {d \in D : row[d].status = "ready"}
Named(D) == {d \in D : row[d].physical}

(* The rows are read once: a table named after this is not dropped.        *)
DeleteStart(k) ==
    /\ dpc[k] = "idle"
    /\ connector # "gone"
    /\ \E D \in {LiveDatasets} \cup {{d} : d \in LiveDatasets}, w \in BOOLEAN :
          /\ w => D = LiveDatasets
          /\ ~w => \E d \in LiveDatasets : D = {d}
          /\ whole' = [whole EXCEPT ![k] = w]
          /\ dtodo' = [dtodo EXCEPT ![k] = D]
          /\ dnamed' = [dnamed EXCEPT ![k] = Named(D)]
          /\ blame' = [d \in Datasets |->
                IF d \in D /\ JobsOn(d) # {} THEN blame[d] \cup {"overlap"} ELSE blame[d]]
          /\ alone' = [j \in Jobs |-> alone[j] /\ ~(pc[j] \in Working /\ ds[j] \in D)]
    /\ dpc' = [dpc EXCEPT ![k] = "next"]
    /\ UNCHANGED << connVars, rowVars, tableVars, pc, sessVars, tickVars, dcur, crashes >>

(* drop_dataset looks for the table, when the row it read named one.       *)
DeleteCheck(k) ==
    /\ dpc[k] = "next"
    /\ \E d \in dtodo[k] :
          /\ dtodo' = [dtodo EXCEPT ![k] = @ \ {d}]
          /\ dcur' = [dcur EXCEPT ![k] = d]
          /\ sawTable' = [sawTable EXCEPT ![k] = d \in dnamed[k] /\ tables[d] # NoTable]
          /\ dpc' = [dpc EXCEPT ![k] = IF d \in dnamed[k] THEN "drop" ELSE "forget"]
    /\ UNCHANGED << connVars, rowVars, tableVars, pc, ds, base, mine, fetched, batch,
                    tickVars, dnamed, whole, crashes, histVars >>

(* The DROP itself: a table found missing is skipped, and a failure of the *)
(* database is logged and forgotten.                                       *)
DeleteDrop(k) ==
    /\ dpc[k] = "drop"
    /\ \/ /\ sawTable[k]
          /\ TableFree(k, dcur[k])
          /\ tables' = [tables EXCEPT ![dcur[k]] = NoTable]
          /\ UNCHANGED blame
       \/ /\ sawTable[k]
          /\ Blamed(dcur[k], "undropped")
          /\ UNCHANGED tables
       \/ /\ ~sawTable[k]
          /\ UNCHANGED << tables, blame >>
    /\ dpc' = [dpc EXCEPT ![k] = "forget"]
    /\ sawTable' = [sawTable EXCEPT ![k] = FALSE]
    /\ UNCHANGED << connVars, rowVars, tableLock, pc, ds, base, mine, fetched, batch,
                    tickVars, dtodo, dnamed, dcur, whole, crashes, alone >>

(* session.delete and commit; a row somebody else deleted is only a warning. *)
DeleteForget(k) ==
    /\ dpc[k] = "forget"
    /\ rowLock[dcur[k]] = Nobody
    /\ life' = [life EXCEPT ![dcur[k]] = "deleted"]
    /\ dcur' = [dcur EXCEPT ![k] = Home]
    /\ dpc' = [dpc EXCEPT ![k] = "next"]
    /\ UNCHANGED << connVars, row, rowLock, tableVars, pc, sessVars, tickVars, dtodo,
                    dnamed, whole, crashes, histVars >>

(* The last of the request: the connector's own row, which the foreign key *)
(* protects while a dataset added meanwhile still refers to it.            *)
DeleteEnd(k) ==
    /\ dpc[k] = "next"
    /\ dtodo[k] = {}
    /\ connector' = IF whole[k] /\ LiveDatasets = {}
                    THEN "gone" ELSE connector
    /\ dpc' = [dpc EXCEPT ![k] = "idle"]
    /\ dnamed' = [dnamed EXCEPT ![k] = {}]
    /\ whole' = [whole EXCEPT ![k] = FALSE]
    /\ UNCHANGED << rowVars, tableVars, pc, sessVars, tickVars, dtodo, dcur, crashes,
                    histVars >>

-----------------------------------------------------------------------------
(***************************************************************************)
(* A worker process dies.  PostgreSQL rolls its transactions back and      *)
(* frees its locks, the advisory one included; nobody resumes its work.    *)
(***************************************************************************)
CrashJob(j) ==
    /\ crashes < MaxCrashes
    /\ pc[j] # "idle" \/ advisory = j
    /\ crashes' = crashes + 1
    /\ CloseSession(j)
    /\ IF pc[j] = "tabled" THEN Blamed(ds[j], "interrupted") ELSE UNCHANGED blame
    /\ todo' = [s \in Schedulers |-> IF s = j THEN {} ELSE todo[s]]
    /\ advisory' = IF advisory = j THEN Nobody ELSE advisory
    /\ UNCHANGED << connVars, life, row, tables, deleteVars >>

CrashDeleter(k) ==
    /\ crashes < MaxCrashes
    /\ dpc[k] # "idle"
    /\ crashes' = crashes + 1
    /\ dpc' = [dpc EXCEPT ![k] = "idle"]
    /\ dtodo' = [dtodo EXCEPT ![k] = {}]
    /\ dnamed' = [dnamed EXCEPT ![k] = {}]
    /\ dcur' = [dcur EXCEPT ![k] = Home]
    /\ whole' = [whole EXCEPT ![k] = FALSE]
    /\ sawTable' = [sawTable EXCEPT ![k] = FALSE]
    /\ IF dpc[k] = "forget" THEN Blamed(dcur[k], "interrupted") ELSE UNCHANGED blame
    /\ UNCHANGED << connVars, rowVars, tableVars, pc, ds, base, mine, fetched, batch,
                    tickVars, alone >>

-----------------------------------------------------------------------------
JobStep(j) ==
    \/ Load(j) \/ MarkSyncing(j) \/ Fetch(j) \/ Raise(j) \/ RecordFailure(j)
    \/ RecordEmpty(j) \/ Flush(j) \/ CheckTable(j) \/ Recreate(j) \/ WriteBatch(j)
    \/ CommitTable(j) \/ FinalCommit(j)

TickStep(s) == TickStart(s) \/ TickNext(s) \/ TickEnd(s)

DeleteStep(k) ==
    \/ DeleteStart(k) \/ DeleteCheck(k) \/ DeleteDrop(k) \/ DeleteForget(k)
    \/ DeleteEnd(k)

RequestStep(r) ==
    \/ \E d \in Datasets : AddDataset(r, d) \/ SyncNowRead(r, d)
    \/ SyncNowCommit(r)

Next ==
    \/ \E j \in Jobs : JobStep(j) \/ CrashJob(j)
    \/ \E s \in Schedulers : TickStep(s)
    \/ \E r \in Requests : RequestStep(r)
    \/ \E k \in Deleters : DeleteStep(k) \/ CrashDeleter(k)
    \/ \E d \in Datasets : IntervalElapses(d)
    \/ SetActive

Spec == Init /\ [][Next]_vars

(* The database answers and no thread is starved: a sync that was started   *)
(* runs on, a tick goes through its list, a delete request finishes.        *)
(* Strong, because PostgreSQL queues those who wait for a lock: whoever     *)
(* waits gets it, however often others take it in between.  The loop comes  *)
(* round by itself every TICK_SECONDS; nothing obliges a user to click.     *)
Fairness ==
    /\ \A s \in Schedulers : SF_vars(JobStep(s)) /\ WF_vars(TickStep(s))
    /\ \A r \in Requests : SF_vars(SyncNowCommit(r) \/ JobStep(r))
    /\ \A k \in Deleters : SF_vars(DeleteCheck(k) \/ DeleteDrop(k) \/ DeleteForget(k)
                                   \/ DeleteEnd(k))

FairSpec == Spec /\ Fairness

-----------------------------------------------------------------------------
(***************************************************************************)
(* What the builder is offered.  as_table_meta takes the columns from the  *)
(* catalogue row and the report runs against the physical table: as long   *)
(* as no two syncs (or a sync and a delete) overlapped and no process died *)
(* between the two commits, the table exists and has exactly the columns   *)
(* the row describes.  Marking the row "syncing" before the fetch is what  *)
(* hides the window between the two commits.  (A delete has such a window  *)
(* of its own, after the drop, which nothing hides.)                       *)
(***************************************************************************)
Described(d) == tables[d] # NoTable /\ tables[d].shape = row[d].columns

ServedIsBacked ==
    \A d \in Datasets :
        /\ Visible(d) /\ ~Deleting(d)
        /\ blame[d] = {}
        /\ row[d].columns # NoShape
        => Described(d)

(* delete_connector promises "every table it produced" is removed: once    *)
(* the row is gone and nobody is at work on the dataset, its table is gone *)
(* too, unless a sync overlapped the delete, a DROP failed and was only    *)
(* logged, or a process died.                                              *)
OrphanNeedsCause ==
    \A d \in Datasets :
        /\ life[d] = "deleted"
        /\ JobsOn(d) = {}
        /\ ~Deleting(d)
        /\ tables[d] # NoTable
        => blame[d] # {}

(* The module comment of connector_scheduler: without the lock each worker *)
(* would sync on its own schedule, "multiplying the calls made against     *)
(* somebody's API quota".  A dataset a loop has still to ask about is one  *)
(* whose interval had elapsed when the list was made; it has been brought  *)
(* up to date since only if somebody pressed Refresh, never by the loop of *)
(* another worker.                                                         *)
Asking(s) == todo[s] \cup (IF pc[s] \in {"queued", "loaded", "fetch"} THEN {ds[s]} ELSE {})
Refreshed(r, d) == ds[r] = d /\ pc[r] \in {"empty", "tabled"} /\ pc'[r] = "idle"

QuotaRespected ==
    [][\A s \in Schedulers : \A d \in Asking(s)' :
          row'[d].synced = "fresh"
          => /\ d \in Asking(s)
             /\ row[d].synced = "fresh" \/ \E r \in Requests : Refreshed(r, d)]_vars

(* A sync that found the dataset free and met no other leaves no trace of  *)
(* earlier trouble: whatever drifted apart before, a clean sync repairs.   *)
CleanSyncRepairs ==
    [][\A j \in Jobs, d \in Datasets :
          /\ pc[j] = "tabled" /\ ds[j] = d /\ alone[j]
          /\ row'[d].status = "ready" /\ row[d].status # "ready"
          => tables'[d] # NoTable /\ tables'[d].shape = row'[d].columns
             /\ row'[d].synced = "fresh"]_vars

(* Seen from the store alone (see DatasetStore): a table is replaced whole  *)
(* or dropped, whatever fails or dies in between; a reader never meets a   *)
(* half-written one and a failed sync changes none.                        *)
Store == INSTANCE DatasetStore WITH store <- tables, record <- life
StoreSpec == Store!Spec

(* Every sync ends, scheduled or asked for: the row that a first sync has  *)
(* locked and the table on its other connection never make two syncs of a  *)
(* dataset wait for each other, and whoever dies gives his locks back.     *)
SyncsEnd == \A j \in Jobs : pc[j] # "idle" ~> pc[j] = "idle"

(* A dataset that stays live under an active connector is asked about      *)
(* again and again: an expired token on another one does not stop the loop.*)
DueIsAttempted ==
    \A d \in Datasets :
        <>[](life[d] = "live" /\ connector = "active" /\ row[d].synced # "fresh")
        => []<>(\E s \in Schedulers : pc[s] = "loaded" /\ ds[s] = d)

-----------------------------------------------------------------------------
(***************************************************************************)
(* What the comments say and the code does not do.                         *)
(***************************************************************************)
(* "a sync that fails leaves the previous data in place.  A report showing *)
(* yesterday's figures is a report someone can still use": a failed sync   *)
(* must not take a dataset away from the builder for good.                 *)
FailedSyncStillServes ==
    \A d \in Datasets :
        /\ life[d] = "live" /\ connector = "active"
        /\ JobsOn(d) = {} /\ tables[d] # NoTable
        /\ row[d].status = "error"
        => Visible(d)

=============================================================================
