------------------------- MODULE ConnectorSyncProofs -------------------------
(***************************************************************************)
(* Proofs about ConnectorSync, for any number of datasets, workers,        *)
(* requests, column lists, batches and crashes.                            *)
(***************************************************************************)
EXTENDS ConnectorSync, TLAPS

LEMMA HomeIsDataset == Home \in Datasets
BY ConstantsAssumption DEF Home

LEMMA NewRowType == NewRow \in Row
BY DEF NewRow, Row, Statuses, Ages

(* What the end of a session leaves behind is well typed.                  *)
LEMMA CloseSessionType ==
    ASSUME TypeOK, NEW j \in Jobs, CloseSession(j)
    PROVE  /\ pc' \in [Jobs -> Steps]
           /\ ds' \in [Jobs -> Datasets]
           /\ base' \in [Jobs -> Row]
           /\ mine' \in [Jobs -> Row]
           /\ fetched' \in [Jobs -> Shapes \cup {NoShape}]
           /\ sawTable' \in [Jobs \cup Deleters -> BOOLEAN]
           /\ batch' \in [Jobs -> 0 .. Batches]
           /\ alone' \in [Jobs -> BOOLEAN]
           /\ rowLock' \in [Datasets -> Jobs \cup {Nobody}]
           /\ tableLock' \in [Datasets -> Jobs \cup {Nobody}]
<1> USE DEF CloseSession, TypeOK, Goto, Steps
<1>1. 0 \in 0 .. Batches
  BY ConstantsAssumption
<1>2. rowLock' \in [Datasets -> Jobs \cup {Nobody}] /\ tableLock' \in [Datasets -> Jobs \cup {Nobody}]
  BY DEF Released
<1> QED
  BY <1>1, <1>2, HomeIsDataset, NewRowType

LEMMA AbandonType ==
    ASSUME TypeOK, NEW j \in Jobs, Abandon(j)
    PROVE  TypeOK'
BY CloseSessionType DEF Abandon, TypeOK, connVars, tickVars, deleteVars

-----------------------------------------------------------------------------
(* The row an UPDATE leaves has the fields of a row.                       *)
LEMMA MergeType ==
    ASSUME NEW now \in Row, NEW b \in Row, NEW m \in Row
    PROVE  Merge(now, b, m) \in Row
BY DEF Merge, Net, Row

LEMMA RowExcept ==
    ASSUME NEW r \in Row
    PROVE  /\ \A st \in Statuses : [r EXCEPT !.status = st] \in Row
           /\ \A a \in Ages : [r EXCEPT !.synced = a] \in Row
           /\ \A c \in Shapes \cup {NoShape} :
                 [r EXCEPT !.physical = TRUE, !.columns = c] \in Row
BY DEF Row

LEMMA StatusValues ==
    /\ {"syncing", "ready", "error"} \subseteq Statuses
    /\ {"old", "fresh"} \subseteq Ages
BY DEF Statuses, Ages

(* Adding a cause to a dataset's blame keeps the type of the history.        *)
LEMMA BlameType ==
    ASSUME blame \in [Datasets -> SUBSET Causes], NEW d \in Datasets, NEW why \in Causes
    PROVE  [blame EXCEPT ![d] = @ \cup {why}] \in [Datasets -> SUBSET Causes]
OBVIOUS

(***************************************************************************)
(* Type correctness: one step per action.                                  *)
(***************************************************************************)
LEMMA TypeInit == Init => TypeOK
<1> SUFFICES ASSUME Init PROVE TypeOK
  OBVIOUS
<1>1. 0 \in 0 .. Batches /\ 0 \in 0 .. MaxCrashes
  BY ConstantsAssumption
<1> QED
  BY <1>1, HomeIsDataset, NewRowType DEF Init, TypeOK, Steps

LEMMA TypeJobStep ==
    ASSUME TypeOK, NEW j \in Jobs, JobStep(j)
    PROVE  TypeOK'
<1> USE DEF connVars, rowVars, tableVars, sessVars, tickVars, deleteVars, histVars, Goto
<1>a. Stale(j) => TypeOK'
  BY AbandonType DEF Stale
<1>b. ds[j] \in Datasets /\ row[ds[j]] \in Row /\ mine[j] \in Row /\ base[j] \in Row
  BY DEF TypeOK
<1>1. CASE Load(j)
  <2>1. CASE life[ds[j]] = "deleted"
    BY <1>1, <2>1, AbandonType DEF Load
  <2>2. CASE life[ds[j]] = "live"
    <3>0. \/ alone' = [alone EXCEPT ![j] = TRUE] /\ UNCHANGED blame
          \/ /\ alone' = [i \in Jobs |-> alone[i] /\ i \notin JobsOn(ds[j]) /\ i # j]
             /\ blame' = [blame EXCEPT ![ds[j]] = @ \cup {"overlap"}]
      BY <1>1, <2>2 DEF Load, Blamed
    <3>1a. blame' \in [Datasets -> SUBSET Causes]
      <4>1. blame \in [Datasets -> SUBSET Causes]
        BY DEF TypeOK
      <4>2. [blame EXCEPT ![ds[j]] = @ \cup {"overlap"}] \in [Datasets -> SUBSET Causes]
        BY <4>1, <1>b, BlameType DEF Causes
      <4> QED
        BY <3>0, <4>1, <4>2
    <3>1. alone' \in [Jobs -> BOOLEAN]
      BY <3>0, Zenon DEF TypeOK
    <3>2. /\ pc' = [pc EXCEPT ![j] = "loaded"]
          /\ base' = [base EXCEPT ![j] = row[ds[j]]]
          /\ mine' = [mine EXCEPT ![j] = row[ds[j]]]
          /\ UNCHANGED << connVars, rowVars, tableVars, ds, fetched, sawTable, batch,
                          tickVars, deleteVars, crashes >>
      BY <1>1, <2>2 DEF Load
    <3>3. /\ pc' \in [Jobs -> Steps]
          /\ base' \in [Jobs -> Row]
          /\ mine' \in [Jobs -> Row]
      BY <3>2, <1>b DEF TypeOK, Steps
    <3> QED
      BY <3>1, <3>1a, <3>2, <3>3 DEF TypeOK
  <2> QED
    BY <1>1, <2>1, <2>2 DEF Load
<1>2. CASE MarkSyncing(j)
  <2>1. CASE Unsyncable(ds[j]) \/ Stale(j)
    BY <1>2, <2>1, <1>a, AbandonType DEF MarkSyncing
  <2>2. CASE ~Unsyncable(ds[j]) /\ base[j].status = "syncing"
    BY <1>2, <2>2 DEF MarkSyncing, TypeOK, Steps
  <2>3. CASE ~Unsyncable(ds[j]) /\ base[j].status # "syncing" /\ ~Stale(j)
    <3>1. /\ row' = [row EXCEPT ![ds[j]] = [row[ds[j]] EXCEPT !.status = "syncing"]]
          /\ mine' = [mine EXCEPT ![j] = [mine[j] EXCEPT !.status = "syncing"]]
          /\ base' = [base EXCEPT ![j] = [base[j] EXCEPT !.status = "syncing"]]
          /\ pc' = [pc EXCEPT ![j] = "fetch"]
          /\ UNCHANGED << connVars, life, rowLock, tableVars, ds, fetched, sawTable, batch,
                          tickVars, deleteVars, crashes, histVars >>
      BY <1>2, <2>3 DEF MarkSyncing
    <3>2. /\ [row[ds[j]] EXCEPT !.status = "syncing"] \in Row
          /\ [mine[j] EXCEPT !.status = "syncing"] \in Row
          /\ [base[j] EXCEPT !.status = "syncing"] \in Row
      BY <1>b, RowExcept, StatusValues
    <3> QED
      BY <3>1, <3>2 DEF TypeOK, Steps
  <2> QED
    BY <1>2, <2>1, <2>2, <2>3 DEF MarkSyncing
<1>3. CASE Fetch(j)
  BY <1>3 DEF Fetch, TypeOK, Steps
<1>4. CASE Raise(j)
  BY <1>4, AbandonType DEF Raise
<1>5. CASE RecordFailure(j)
  <2>1. SUFFICES ASSUME ~Stale(j) PROVE TypeOK'
    BY <1>a
  <2>2. /\ row' = [row EXCEPT ![ds[j]] = [row[ds[j]] EXCEPT !.status = "error"]]
        /\ CloseSession(j)
        /\ UNCHANGED << connVars, life, tables, tickVars, deleteVars, crashes, blame >>
    BY <1>5, <2>1 DEF RecordFailure
  <2>3. [row[ds[j]] EXCEPT !.status = "error"] \in Row
    BY <1>b, RowExcept, StatusValues
  <2> QED
    BY <2>2, <2>3, CloseSessionType DEF TypeOK
<1>6. CASE RecordEmpty(j)
  <2>1. SUFFICES ASSUME ~Stale(j) PROVE TypeOK'
    BY <1>a
  <2> DEFINE r == [row[ds[j]] EXCEPT !.status = "ready", !.synced = "fresh"]
  <2>2. /\ row' = [row EXCEPT ![ds[j]] = r]
        /\ CloseSession(j)
        /\ UNCHANGED << connVars, life, tables, tickVars, deleteVars, crashes, blame >>
    BY <1>6, <2>1 DEF RecordEmpty
  <2>3. r \in Row
    BY <1>b, RowExcept, StatusValues
  <2> HIDE DEF r
  <2> QED
    BY <2>2, <2>3, CloseSessionType DEF TypeOK
<1>7. CASE Flush(j)
  <2>1. SUFFICES ASSUME ~Stale(j) PROVE TypeOK'
    BY <1>a
  <2> DEFINE m == [mine[j] EXCEPT !.physical = TRUE, !.columns = fetched[j]]
  <2>2. /\ rowLock' \in {rowLock, [rowLock EXCEPT ![ds[j]] = j]}
        /\ mine' = [mine EXCEPT ![j] = m]
        /\ pc' = [pc EXCEPT ![j] = "check"]
        /\ UNCHANGED << connVars, life, row, tableVars, ds, base, fetched, sawTable, batch,
                        tickVars, deleteVars, crashes, histVars >>
    BY <1>7, <2>1 DEF Flush
  <2>3. m \in Row
    BY <1>b, RowExcept DEF TypeOK
  <2> HIDE DEF m
  <2> QED
    BY <2>2, <2>3 DEF TypeOK, Steps
<1>8. CASE CheckTable(j)
  BY <1>8 DEF CheckTable, TypeOK, Steps
<1>9. CASE Recreate(j)
  <2>1. SUFFICES ASSUME ~Abandon(j) PROVE TypeOK'
    BY AbandonType
  <2>2. 0 \in 0 .. Batches
    BY ConstantsAssumption
  <2>3. /\ tableLock' = [tableLock EXCEPT ![ds[j]] = j]
        /\ batch' = [batch EXCEPT ![j] = 0]
        /\ pc' = [pc EXCEPT ![j] = "write"]
        /\ UNCHANGED << connVars, rowVars, tables, ds, base, mine, fetched, sawTable,
                        tickVars, deleteVars, crashes, histVars >>
    BY <1>9, <2>1 DEF Recreate
  <2> QED
    BY <2>2, <2>3 DEF TypeOK, Steps
<1>10. CASE WriteBatch(j)
  BY <1>10, ConstantsAssumption DEF WriteBatch, TypeOK
<1>11. CASE CommitTable(j)
  <2> DEFINE c == [shape |-> mine[j].columns, batches |-> batch[j]]
  <2>1. c \in Content
    <3>1. mine[j].columns \in Shapes \cup {NoShape} /\ batch[j] \in 0 .. Batches
      BY <1>b DEF TypeOK, Row
    <3> QED
      BY <3>1 DEF Content
  <2>2. tables' = [tables EXCEPT ![ds[j]] = c]
    BY <1>11 DEF CommitTable
  <2> HIDE DEF c
  <2> QED
    BY <1>11, <2>1, <2>2 DEF CommitTable, TypeOK, Steps
<1>12. CASE FinalCommit(j)
  <2>1. SUFFICES ASSUME ~Stale(j) PROVE TypeOK'
    BY <1>a
  <2> DEFINE m == [mine[j] EXCEPT !.status = "ready"]
             r == [Merge(row[ds[j]], base[j], m) EXCEPT !.synced = "fresh"]
  <2>2. /\ row' = [row EXCEPT ![ds[j]] = r]
        /\ CloseSession(j)
        /\ blame' = [blame EXCEPT ![ds[j]] = IF alone[j] THEN {} ELSE @]
        /\ UNCHANGED << connVars, life, tables, tickVars, deleteVars, crashes >>
    BY <1>12, <2>1 DEF FinalCommit
  <2>3. m \in Row
    BY <1>b, RowExcept, StatusValues
  <2>4. r \in Row
    <3> HIDE DEF m
    <3> QED
      BY <1>b, <2>3, MergeType, RowExcept, StatusValues
  <2> HIDE DEF m, r
  <2> QED
    BY <2>2, <2>4, CloseSessionType DEF TypeOK
<1> QED
  BY <1>1, <1>2, <1>3, <1>4, <1>5, <1>6, <1>7, <1>8, <1>9, <1>10, <1>11, <1>12 DEF JobStep

LEMMA TypeTickStep ==
    ASSUME TypeOK, NEW s \in Schedulers, TickStep(s)
    PROVE  TypeOK'
<1> USE DEF connVars, rowVars, tableVars, sessVars, deleteVars, histVars, TypeOK, Goto
<1>1. s \in Jobs
  BY DEF Jobs
<1>2. CASE TickStart(s)
  BY <1>2 DEF TickStart, Due, LiveDatasets
<1>3. CASE TickNext(s)
  BY <1>1, <1>3 DEF TickNext, Steps
<1>4. CASE TickEnd(s)
  BY <1>4 DEF TickEnd
<1> QED
  BY <1>2, <1>3, <1>4 DEF TickStep

LEMMA TypeRequestStep ==
    ASSUME TypeOK, NEW r \in Requests, RequestStep(r)
    PROVE  TypeOK'
<1> USE DEF connVars, rowVars, tableVars, sessVars, tickVars, deleteVars, histVars, Goto
<1>1. r \in Jobs
  BY DEF Jobs
<1>2. CASE \E d \in Datasets : AddDataset(r, d)
  BY <1>1, <1>2 DEF AddDataset, TypeOK, Steps
<1>3. CASE \E d \in Datasets : SyncNowRead(r, d)
  BY <1>1, <1>3 DEF SyncNowRead, TypeOK, Steps
<1>4. CASE SyncNowCommit(r)
  <2>1. SUFFICES ASSUME ~Abandon(r) PROVE TypeOK'
    BY <1>1, AbandonType
  <2>2. /\ row' = [row EXCEPT ![ds[r]] = [row[ds[r]] EXCEPT !.status = "syncing"]]
        /\ pc' = [pc EXCEPT ![r] = "queued"]
        /\ UNCHANGED << connVars, life, rowLock, tableVars, sessVars, tickVars,
                        deleteVars, crashes, histVars >>
    BY <1>4, <2>1 DEF SyncNowCommit
  <2>3. [row[ds[r]] EXCEPT !.status = "syncing"] \in Row
    BY <1>1, RowExcept, StatusValues DEF TypeOK
  <2> QED
    BY <1>1, <2>2, <2>3 DEF TypeOK, Steps
<1> QED
  BY <1>2, <1>3, <1>4 DEF RequestStep

LEMMA TypeDeleteStep ==
    ASSUME TypeOK, NEW k \in Deleters, DeleteStep(k)
    PROVE  TypeOK'
<1> USE DEF connVars, rowVars, tableVars, sessVars, tickVars, histVars
<1>1. CASE DeleteStart(k)
  <2>1. PICK D \in {LiveDatasets} \cup {{d} : d \in LiveDatasets}, w \in BOOLEAN :
           /\ whole' = [whole EXCEPT ![k] = w]
           /\ dtodo' = [dtodo EXCEPT ![k] = D]
           /\ dnamed' = [dnamed EXCEPT ![k] = Named(D)]
           /\ blame' = [d \in Datasets |->
                 IF d \in D /\ JobsOn(d) # {} THEN blame[d] \cup {"overlap"} ELSE blame[d]]
           /\ alone' = [j \in Jobs |-> alone[j] /\ ~(pc[j] \in Working /\ ds[j] \in D)]
    BY <1>1 DEF DeleteStart
  <2>2. D \subseteq Datasets /\ Named(D) \subseteq Datasets
    BY DEF LiveDatasets, Named
  <2>3. blame' \in [Datasets -> SUBSET Causes]
    BY <2>1 DEF TypeOK, Causes
  <2>4. alone' \in [Jobs -> BOOLEAN]
    BY <2>1, Zenon
  <2> QED
    BY <1>1, <2>1, <2>2, <2>3, <2>4 DEF DeleteStart, TypeOK
<1>2. CASE DeleteCheck(k)
  <2>1. PICK d \in dtodo[k] :
           /\ dtodo' = [dtodo EXCEPT ![k] = @ \ {d}]
           /\ dcur' = [dcur EXCEPT ![k] = d]
           /\ sawTable' = [sawTable EXCEPT ![k] = d \in dnamed[k] /\ tables[d] # NoTable]
           /\ dpc' = [dpc EXCEPT ![k] = IF d \in dnamed[k] THEN "drop" ELSE "forget"]
    BY <1>2 DEF DeleteCheck
  <2>2. sawTable' \in [Jobs \cup Deleters -> BOOLEAN]
    BY <2>1 DEF TypeOK
  <2> QED
    BY <1>2, <2>1, <2>2 DEF DeleteCheck, TypeOK
<1>3. CASE DeleteDrop(k)
  <2>1. /\ tables' \in {tables, [tables EXCEPT ![dcur[k]] = NoTable]}
        /\ blame' \in {blame, [blame EXCEPT ![dcur[k]] = @ \cup {"undropped"}]}
        /\ dpc' = [dpc EXCEPT ![k] = "forget"]
        /\ sawTable' = [sawTable EXCEPT ![k] = FALSE]
        /\ UNCHANGED << connVars, rowVars, tableLock, pc, ds, base, mine, fetched, batch,
                        tickVars, dtodo, dnamed, dcur, whole, crashes, alone >>
    BY <1>3 DEF DeleteDrop, Blamed
  <2>2. blame' \in [Datasets -> SUBSET Causes]
    BY <2>1 DEF TypeOK, Causes
  <2> QED
    BY <2>1, <2>2 DEF TypeOK
<1>4. CASE DeleteForget(k)
  BY <1>4, HomeIsDataset DEF DeleteForget, TypeOK
<1>5. CASE DeleteEnd(k)
  BY <1>5 DEF DeleteEnd, TypeOK
<1> QED
  BY <1>1, <1>2, <1>3, <1>4, <1>5 DEF DeleteStep

LEMMA TypeCrashJob ==
    ASSUME TypeOK, NEW j \in Jobs, CrashJob(j)
    PROVE  TypeOK'
<1>1. CloseSession(j) /\ UNCHANGED << connVars, life, row, tables, deleteVars >>
  BY DEF CrashJob
<1>2. crashes' \in 0 .. MaxCrashes
  BY ConstantsAssumption DEF CrashJob, TypeOK
<1>3. blame' \in [Datasets -> SUBSET Causes]
  <2>1. blame' \in {blame, [blame EXCEPT ![ds[j]] = @ \cup {"interrupted"}]}
    BY DEF CrashJob, Blamed
  <2> QED
    BY <2>1 DEF TypeOK, Causes
<1>4. todo' \in [Schedulers -> SUBSET Datasets] /\ advisory' \in Schedulers \cup {Nobody}
  BY DEF CrashJob, TypeOK
<1> QED
  BY <1>1, <1>2, <1>3, <1>4, CloseSessionType DEF TypeOK, connVars, deleteVars

LEMMA TypeCrashDeleter ==
    ASSUME TypeOK, NEW k \in Deleters, CrashDeleter(k)
    PROVE  TypeOK'
<1>1. crashes' \in 0 .. MaxCrashes
  BY ConstantsAssumption DEF CrashDeleter, TypeOK
<1>2. blame' \in [Datasets -> SUBSET Causes]
  <2>1. blame' \in {blame, [blame EXCEPT ![dcur[k]] = @ \cup {"interrupted"}]}
    BY DEF CrashDeleter, Blamed
  <2> QED
    BY <2>1 DEF TypeOK, Causes
<1> QED
  BY <1>1, <1>2, HomeIsDataset DEF CrashDeleter, TypeOK, connVars, rowVars, tableVars,
                                   tickVars

(* The rest of Next, and stuttering.                                       *)
LEMMA TypeOtherStep ==
    ASSUME TypeOK,
           (\E d \in Datasets : IntervalElapses(d)) \/ SetActive \/ UNCHANGED vars
    PROVE  TypeOK'
<1> USE DEF connVars, rowVars, tableVars, sessVars, tickVars, deleteVars, histVars
<1>1. ASSUME NEW d \in Datasets, IntervalElapses(d) PROVE TypeOK'
  <2>1. row' = [row EXCEPT ![d] = [row[d] EXCEPT !.synced = "old"]]
    BY <1>1 DEF IntervalElapses
  <2>2. [row[d] EXCEPT !.synced = "old"] \in Row
    BY RowExcept, StatusValues DEF TypeOK
  <2> QED
    BY <1>1, <2>1, <2>2 DEF IntervalElapses, TypeOK
<1>2. CASE SetActive
  BY <1>2 DEF SetActive, TypeOK
<1>3. CASE UNCHANGED vars
  BY <1>3 DEF vars, TypeOK
<1> QED
  BY <1>1, <1>2, <1>3

LEMMA TypeNext == TypeOK /\ [Next]_vars => TypeOK'
BY TypeJobStep, TypeTickStep, TypeRequestStep, TypeDeleteStep, TypeCrashJob,
   TypeCrashDeleter, TypeOtherStep DEF Next

(* Every variable of the model keeps its type, whatever crashes, overlaps  *)
(* or fails: connector_service, connector_scheduler and the dataset routes.*)
THEOREM TypeCorrect == Spec => []TypeOK
BY TypeInit, TypeNext, PTL DEF Spec

-----------------------------------------------------------------------------
(***************************************************************************)
(* The inductive invariant of the store.                                   *)
(***************************************************************************)
(* Whoever is at work on a dataset found its row in the catalogue: no job, *)
(* tick or delete request is ever about a dataset nobody has added.        *)
Recorded ==
    /\ \A j \in Jobs : pc[j] # "idle" => life[ds[j]] # "unborn"
    /\ \A s \in Schedulers : \A d \in todo[s] : life[d] # "unborn"
    /\ \A k \in Deleters : \A d \in dtodo[k] : life[d] # "unborn"
    /\ \A k \in Deleters : dpc[k] \in {"drop", "forget"} => life[dcur[k]] # "unborn"

(* A job that writes a table has the columns of rows a provider sent.      *)
Columned ==
    \A j \in Jobs :
        /\ pc[j] = "flush" => fetched[j] \in Shapes
        /\ pc[j] \in {"check", "wait", "write", "tabled"} => mine[j].columns \in Shapes

(* A dataset nobody has added has neither a table nor columns.              *)
Untouched ==
    \A d \in Datasets : life[d] = "unborn" => tables[d] = NoTable /\ row[d].columns = NoShape

(* The job's session still knows its row: what it loaded is what the row   *)
(* holds, and past the commit of the table its object describes the table.  *)
Mirrored(j) ==
    /\ row[ds[j]].physical = base[j].physical
    /\ row[ds[j]].columns = base[j].columns
    /\ base[j].status = "syncing" => row[ds[j]].status = "syncing"
    /\ pc[j] # "loaded" => base[j].status = "syncing"
    /\ pc[j] \in {"check", "wait", "write", "tabled"} => mine[j].physical
    /\ pc[j] = "tabled" => tables[ds[j]] # NoTable /\ tables[ds[j]].shape = mine[j].columns
(* A job that has met nobody since it loaded its row is the only one at    *)
(* work on the dataset, and its session mirrors it.                        *)
Undisturbed ==
    \A j \in Jobs : alone[j] =>
        /\ pc[j] \in Working
        /\ life[ds[j]] = "live" /\ JobsOn(ds[j]) = {j} /\ ~Deleting(ds[j])
        /\ Mirrored(j)
(* A dataset on which jobs met is blamed.                                   *)
Accounted == \A j \in Jobs : pc[j] \in Working /\ blame[ds[j]] = {} => alone[j]

(* Between the two commits of a sync, and between the two of a delete.      *)
Tabled(d)  == \E j \in JobsOn(d) : pc[j] = "tabled"
Dropped(d) == \E k \in Deleters : dpc[k] = "forget" /\ dcur[k] = d
(* A dataset with nothing to its blame: the catalogue and the store agree, *)
(* except between the two commits, and what a delete request believes      *)
(* about its table is true.                                                *)
Blameless(d) ==
    /\ life[d] = "live" /\ ~Dropped(d) /\ row[d].columns # NoShape => Described(d) \/ Tabled(d)
    /\ life[d] = "live" /\ tables[d] # NoTable => row[d].physical \/ Tabled(d)
    /\ life[d] = "deleted" => tables[d] = NoTable
    /\ \A k \in Deleters :
          /\ dcur[k] = d /\ (dpc[k] = "forget" \/ (dpc[k] = "drop" /\ ~sawTable[k])) => tables[d] = NoTable
          /\ d \in dtodo[k] /\ d \notin dnamed[k] => tables[d] = NoTable
Kept == \A d \in Datasets : blame[d] = {} => Blameless(d)

(* The scheduler's process has nothing under way.                          *)
Quiet(s) == pc[s] = "idle" /\ todo[s] = {}
(* Only the process that holds the advisory lock has something to ask, and *)
(* the dataset it is at is off its list.                                   *)
Quota ==
   \A s \in Schedulers :
       /\ ~Quiet(s) => advisory = s
       /\ pc[s] # "idle" => ds[s] \notin todo[s]

(* What a step of one job leaves alone.                                    *)
JobFrame(j) ==
    /\ UNCHANGED << connector, life, deleteVars >>
    /\ \A i \in Jobs \ {j} :
          /\ pc'[i] = pc[i] /\ ds'[i] = ds[i] /\ base'[i] = base[i] /\ mine'[i] = mine[i]
          /\ fetched'[i] = fetched[i] /\ batch'[i] = batch[i]
    /\ \A k \in Deleters : sawTable'[k] = sawTable[k]
    /\ \A d \in Datasets \ {ds[j]} :
          row'[d] = row[d] /\ tables'[d] = tables[d] /\ blame'[d] = blame[d]
    /\ \/ pc'[j] = "idle" /\ ds'[j] = Home /\ ~alone'[j]
       \/ pc'[j] # "idle" /\ pc[j] # "idle" /\ ds'[j] = ds[j]

(* The end of a session touches no other job's state.                       *)
LEMMA CloseSessionFrame ==
    ASSUME TypeOK, NEW j \in Jobs, CloseSession(j)
    PROVE  /\ \A i \in Jobs \ {j} :
                 /\ pc'[i] = pc[i] /\ ds'[i] = ds[i] /\ base'[i] = base[i] /\ mine'[i] = mine[i]
                 /\ fetched'[i] = fetched[i] /\ batch'[i] = batch[i] /\ alone'[i] = alone[i]
           /\ \A k \in Deleters : sawTable'[k] = sawTable[k]
           /\ pc'[j] = "idle" /\ ds'[j] = Home /\ ~alone'[j]
BY ConstantsAssumption DEF CloseSession, TypeOK, Goto, Jobs

LEMMA AbandonFrame ==
    ASSUME TypeOK, NEW j \in Jobs, Abandon(j)
    PROVE  JobFrame(j) /\ UNCHANGED tickVars
BY CloseSessionFrame DEF Abandon, JobFrame, connVars, deleteVars

(* A step of a job stays within its dataset and its own session.            *)
LEMMA JobStepFrame ==
    ASSUME TypeOK, NEW j \in Jobs, JobStep(j)
    PROVE  JobFrame(j) /\ UNCHANGED tickVars
<1> USE DEF connVars, rowVars, tableVars, sessVars, tickVars, deleteVars, histVars, Goto
<1>a. Stale(j) => JobFrame(j) /\ UNCHANGED tickVars
  BY AbandonFrame DEF Stale
<1>b. \A k \in Deleters : k \notin Jobs /\ k # j
  BY ConstantsAssumption DEF Jobs
<1>c. j \in Jobs \cup Deleters
  OBVIOUS
<1>1. CASE Load(j)
  <2>1. CASE Abandon(j)
    BY <2>1, AbandonFrame
  <2>2. CASE ~Abandon(j)
    BY <1>1, <2>2 DEF Load, JobFrame, TypeOK, Blamed
  <2> QED
    BY <2>1, <2>2
<1>2. CASE MarkSyncing(j)
  <2>1. CASE Abandon(j) \/ Stale(j)
    BY <2>1, <1>a, AbandonFrame
  <2>2. CASE ~Abandon(j) /\ ~Stale(j)
    BY <1>2, <2>2 DEF MarkSyncing, JobFrame, TypeOK
  <2> QED
    BY <2>1, <2>2
<1>3. CASE Fetch(j)
  BY <1>3 DEF Fetch, JobFrame, TypeOK
<1>4. CASE Raise(j)
  BY <1>4, AbandonFrame DEF Raise
<1>5. CASE RecordFailure(j)
  BY <1>5, <1>a, CloseSessionFrame DEF RecordFailure, JobFrame, TypeOK
<1>6. CASE RecordEmpty(j)
  BY <1>6, <1>a, CloseSessionFrame DEF RecordEmpty, JobFrame, TypeOK
<1>7. CASE Flush(j)
  BY <1>7, <1>a DEF Flush, JobFrame, TypeOK
<1>8. CASE CheckTable(j)
  BY <1>8, <1>b, <1>c DEF CheckTable, JobFrame, TypeOK
<1>9. CASE Recreate(j)
  <2>1. CASE Abandon(j)
    BY <2>1, AbandonFrame
  <2>2. CASE ~Abandon(j)
    BY <1>9, <2>2 DEF Recreate, JobFrame, TypeOK
  <2> QED
    BY <2>1, <2>2
<1>10. CASE WriteBatch(j)
  BY <1>10 DEF WriteBatch, JobFrame, TypeOK
<1>11. CASE CommitTable(j)
  BY <1>11 DEF CommitTable, JobFrame, TypeOK
<1>12. CASE FinalCommit(j)
  BY <1>12, <1>a, CloseSessionFrame DEF FinalCommit, JobFrame, TypeOK
<1> QED
  BY <1>1, <1>2, <1>3, <1>4, <1>5, <1>6, <1>7, <1>8, <1>9, <1>10, <1>11, <1>12 DEF JobStep

(* The columns a job has fetched, and then has in its object.              *)
LEMMA JobStepColumns ==
    ASSUME TypeOK, NEW j \in Jobs, JobStep(j)
    PROVE  /\ pc'[j] = "flush" => fetched'[j] \in Shapes
           /\ pc'[j] = "check" => pc[j] = "flush" /\ mine'[j].columns = fetched[j]
           /\ pc'[j] \in {"wait", "write", "tabled"} =>
                  pc[j] \in {"check", "wait", "write"} /\ mine'[j] = mine[j]
<1> USE DEF sessVars, Goto
<1>1. CASE pc'[j] = "idle"
  BY <1>1
<1>2. CASE pc'[j] # "idle"
  <2>1. ~Abandon(j) /\ ~Stale(j) /\ ~CloseSession(j)
    BY <1>2 DEF Abandon, Stale, CloseSession, TypeOK
  <2> QED
    BY <2>1 DEF JobStep, TypeOK, Row, Load, MarkSyncing, Fetch, Raise, RecordFailure,
       RecordEmpty, Flush, CheckTable, Recreate, WriteBatch, CommitTable, FinalCommit
<1> QED
  BY <1>1, <1>2

(* Recorded and Columned are inductive.                                    *)
LEMMA RecordedInit == Init => Recorded /\ Columned
BY ConstantsAssumption DEF Init, Recorded, Columned

LEMMA RecordedJobStep ==
    ASSUME TypeOK, Recorded, Columned, NEW j \in Jobs, JobStep(j)
    PROVE  Recorded' /\ Columned'
<1>1. Recorded'
  BY JobStepFrame DEF Recorded, JobFrame, deleteVars, tickVars
<1>2. Columned'
  BY JobStepFrame, JobStepColumns DEF Columned, JobFrame
<1> QED
  BY <1>1, <1>2

(* So does its death, which commits nothing.                               *)
LEMMA CrashJobFrame ==
    ASSUME TypeOK, NEW j \in Jobs, CrashJob(j)
    PROVE  /\ JobFrame(j) /\ UNCHANGED << row, tables >> /\ pc'[j] = "idle"
           /\ blame' = IF pc[j] = "tabled" THEN [blame EXCEPT ![ds[j]] = @ \cup {"interrupted"}]
                       ELSE blame
           /\ \A s \in Schedulers : todo'[s] = (IF s = j THEN {} ELSE todo[s])
           /\ advisory' = IF advisory = j THEN Nobody ELSE advisory
<1>1. /\ CloseSession(j)
      /\ UNCHANGED << connector, life, row, tables, deleteVars >>
      /\ blame' = IF pc[j] = "tabled" THEN [blame EXCEPT ![ds[j]] = @ \cup {"interrupted"}]
                  ELSE blame
      /\ todo' = [s \in Schedulers |-> IF s = j THEN {} ELSE todo[s]]
      /\ advisory' = IF advisory = j THEN Nobody ELSE advisory
  BY DEF CrashJob, Blamed, connVars
<1>2. \A d \in Datasets \ {ds[j]} : blame'[d] = blame[d]
  BY <1>1 DEF TypeOK
<1> QED
  BY <1>1, <1>2, CloseSessionFrame DEF JobFrame

LEMMA RecordedOtherStep ==
    ASSUME TypeOK, Recorded, Columned,
           \/ \E j \in Jobs : CrashJob(j)
           \/ \E s \in Schedulers : TickStep(s)
           \/ \E r \in Requests : RequestStep(r)
           \/ \E k \in Deleters : DeleteStep(k) \/ CrashDeleter(k)
           \/ \E d \in Datasets : IntervalElapses(d)
           \/ SetActive
           \/ UNCHANGED vars
    PROVE  Recorded' /\ Columned'
<1> USE DEF Recorded, Columned, connVars, rowVars, tableVars, sessVars, tickVars,
            deleteVars, histVars, Goto
<1>1. ASSUME NEW j \in Jobs, CrashJob(j) PROVE Recorded' /\ Columned'
  BY <1>1, CrashJobFrame DEF JobFrame
<1>2. ASSUME NEW s \in Schedulers, TickStep(s) PROVE Recorded' /\ Columned'
  <2>1. s \in Jobs
    BY DEF Jobs
  <2>2. CASE TickStart(s)
    <3>1. \A d \in Due : life[d] # "unborn"
      BY DEF Due, LiveDatasets
    <3> QED
      BY <2>2, <3>1 DEF TickStart, TypeOK
  <2>3. CASE TickNext(s)
    BY <2>1, <2>3 DEF TickNext, TypeOK
  <2>4. CASE TickEnd(s)
    BY <2>4 DEF TickEnd
  <2> QED
    BY <1>2, <2>2, <2>3, <2>4 DEF TickStep
<1>3. ASSUME NEW r \in Requests, RequestStep(r) PROVE Recorded' /\ Columned'
  <2>1. r \in Jobs
    BY DEF Jobs
  <2>2. CASE \E d \in Datasets : AddDataset(r, d)
    BY <2>1, <2>2 DEF AddDataset, TypeOK
  <2>3. CASE \E d \in Datasets : SyncNowRead(r, d)
    BY <2>1, <2>3 DEF SyncNowRead, TypeOK
  <2>4. CASE SyncNowCommit(r) /\ Abandon(r)
    BY <2>1, <2>4, AbandonFrame, CloseSessionFrame DEF Abandon, JobFrame
  <2>5. CASE SyncNowCommit(r) /\ ~Abandon(r)
    BY <2>1, <2>5 DEF SyncNowCommit, TypeOK
  <2> QED
    BY <1>3, <2>2, <2>3, <2>4, <2>5 DEF RequestStep
<1>4. ASSUME NEW k \in Deleters, DeleteStep(k) PROVE Recorded' /\ Columned'
  <2>1. CASE DeleteStart(k)
    <3>1. PICK D \in {LiveDatasets} \cup {{d} : d \in LiveDatasets} :
             dtodo' = [dtodo EXCEPT ![k] = D]
      BY <2>1 DEF DeleteStart
    <3>2. \A d \in D : life[d] # "unborn"
      BY DEF LiveDatasets
    <3> QED
      BY <2>1, <3>1, <3>2 DEF DeleteStart, TypeOK
  <2>2. CASE DeleteCheck(k)
    BY <2>2 DEF DeleteCheck, TypeOK
  <2>3. CASE DeleteDrop(k)
    BY <2>3 DEF DeleteDrop, TypeOK
  <2>4. CASE DeleteForget(k)
    BY <2>4 DEF DeleteForget, TypeOK
  <2>5. CASE DeleteEnd(k)
    BY <2>5 DEF DeleteEnd, TypeOK
  <2> QED
    BY <1>4, <2>1, <2>2, <2>3, <2>4, <2>5 DEF DeleteStep
<1>5. ASSUME NEW k \in Deleters, CrashDeleter(k) PROVE Recorded' /\ Columned'
  BY <1>5 DEF CrashDeleter, TypeOK
<1>6. CASE (\E d \in Datasets : IntervalElapses(d)) \/ SetActive \/ UNCHANGED vars
  BY <1>6 DEF IntervalElapses, SetActive, vars
<1> QED
  BY <1>1, <1>2, <1>3, <1>4, <1>5, <1>6

LEMMA RecordedNext == TypeOK /\ Recorded /\ Columned /\ [Next]_vars => Recorded' /\ Columned'
BY RecordedJobStep, RecordedOtherStep DEF Next

(***************************************************************************)
(* ConnectorSync implements DatasetStore.                                  *)
(***************************************************************************)
LEMMA StoreInit == Init => Store!Init
BY DEF Init, Store!Init

(* The one step of a job the store sees is the commit of a whole table.    *)
LEMMA StoreJobStep ==
    ASSUME TypeOK, Recorded, Columned, NEW j \in Jobs, JobStep(j)
    PROVE  [Store!Next]_(Store!storeVars)
<1>0. life' = life
  BY JobStepFrame DEF JobFrame
<1>1. CASE CommitTable(j)
  <2>1. ds[j] \in Datasets /\ life[ds[j]] # "unborn" /\ mine[j].columns \in Shapes
    BY <1>1 DEF CommitTable, Recorded, Columned, TypeOK
  <2>2. Store!Replace(ds[j], mine[j].columns)
    BY <1>0, <1>1, <2>1 DEF CommitTable, AllWritten, Store!Replace, Store!Complete
  <2> QED
    BY <2>1, <2>2 DEF Store!Next
<1>2. CASE ~CommitTable(j)
  <2>1. tables' = tables
    BY <1>2 DEF JobStep, Load, MarkSyncing, Fetch, Raise, RecordFailure, RecordEmpty, Flush,
       CheckTable, Recreate, WriteBatch, FinalCommit, Abandon, Stale, tableVars
  <2> QED
    BY <1>0, <2>1 DEF Store!storeVars
<1> QED
  BY <1>1, <1>2

(* A delete request drops tables and forgets rows.                         *)
LEMMA StoreDeleteStep ==
    ASSUME TypeOK, Recorded, NEW k \in Deleters, DeleteStep(k)
    PROVE  [Store!Next]_(Store!storeVars)
<1>1. CASE DeleteDrop(k)
  <2>1. dcur[k] \in Datasets /\ life[dcur[k]] # "unborn"
    BY <1>1 DEF DeleteDrop, Recorded, TypeOK
  <2>2. tables' = tables \/ Store!Drop(dcur[k])
    BY <1>1, <2>1 DEF DeleteDrop, Store!Drop, rowVars
  <2> QED
    BY <1>1, <2>1, <2>2 DEF DeleteDrop, Store!Next, Store!storeVars, rowVars
<1>2. CASE DeleteForget(k)
  <2>1. dcur[k] \in Datasets /\ life[dcur[k]] \in {"live", "deleted"}
    BY <1>2 DEF DeleteForget, Recorded, TypeOK
  <2>2. life' = life \/ Store!Forget(dcur[k])
    BY <1>2, <2>1 DEF DeleteForget, Store!Forget, tableVars, TypeOK
  <2> QED
    BY <1>2, <2>1, <2>2 DEF DeleteForget, Store!Next, Store!storeVars, tableVars
<1>3. CASE DeleteStart(k) \/ DeleteCheck(k) \/ DeleteEnd(k)
  BY <1>3 DEF DeleteStart, DeleteCheck, DeleteEnd, Store!storeVars, rowVars, tableVars
<1> QED
  BY <1>1, <1>2, <1>3 DEF DeleteStep

LEMMA StoreStep ==
    ASSUME TypeOK, Recorded, Columned, [Next]_vars
    PROVE  [Store!Next]_(Store!storeVars)
<1> USE DEF rowVars, tableVars, Store!storeVars
<1>1. ASSUME NEW r \in Requests, NEW d \in Datasets, AddDataset(r, d)
      PROVE  Store!Next
  BY <1>1 DEF AddDataset, Store!Next, Store!Add
<1>2. ASSUME NEW r \in Requests,
             (\E d \in Datasets : SyncNowRead(r, d)) \/ SyncNowCommit(r)
      PROVE  UNCHANGED Store!storeVars
  BY <1>2 DEF SyncNowRead, SyncNowCommit, Abandon
<1>3. ASSUME \/ \E j \in Jobs : CrashJob(j)
             \/ \E s \in Schedulers : TickStep(s)
             \/ \E k \in Deleters : CrashDeleter(k)
             \/ \E d \in Datasets : IntervalElapses(d)
             \/ SetActive
             \/ UNCHANGED vars
      PROVE  UNCHANGED Store!storeVars
  BY <1>3 DEF CrashJob, TickStep, TickStart, TickNext, TickEnd, CrashDeleter,
              IntervalElapses, SetActive, vars
<1> QED
  BY <1>1, <1>2, <1>3, StoreJobStep, StoreDeleteStep DEF Next, RequestStep

(* ConnectorSync implements DatasetStore: whatever syncs, deletes, crashes *)
(* and failures do in between, _write_rows replaces a table whole, or      *)
(* drop_dataset drops it, or it does not change at all.                    *)
THEOREM TablesChangeWhole == Spec => StoreSpec
<1>1. Spec => [](TypeOK /\ Recorded /\ Columned)
  BY TypeInit, TypeNext, RecordedInit, RecordedNext, PTL DEF Spec
<1> QED
  BY <1>1, StoreInit, StoreStep, PTL DEF Spec, StoreSpec, Store!Spec

(* Writing a row's status leaves its age.                                  *)
LEMMA StatusOnly ==
    ASSUME TypeOK, NEW x \in Datasets, NEW v, row' = [row EXCEPT ![x].status = v],
           NEW e \in Datasets
    PROVE  row'[e].synced = row[e].synced
<1>1. row[x] \in Row
  BY DEF TypeOK
<1>2. [row[x] EXCEPT !.status = v].synced = row[x].synced
  BY <1>1 DEF Row
<1>3. row'[e] = IF e = x THEN [row[x] EXCEPT !.status = v] ELSE row[e]
  BY DEF TypeOK
<1> QED
  BY <1>2, <1>3

(* When a step of a job makes a dataset fresh, it was the job's own and it is over. *)
LEMMA JobStepAsks ==
    ASSUME TypeOK, NEW j \in Jobs, JobStep(j)
    PROVE  /\ pc[j] # "idle"
           /\ \A d \in Datasets : row'[d].synced # row[d].synced =>
                 d = ds[j] /\ pc[j] \in {"empty", "tabled"} /\ pc'[j] = "idle"
           /\ pc'[j] \in {"queued", "loaded", "fetch"} =>
                 pc[j] \in {"queued", "loaded", "fetch"} /\ ds'[j] = ds[j]
<1> USE DEF connVars, rowVars, tableVars, sessVars, tickVars, deleteVars, histVars, Goto
<1>a. Stale(j) \/ Abandon(j) => pc'[j] = "idle" /\ row' = row
  BY DEF Stale, Abandon, CloseSession, TypeOK
<1>b. ds[j] \in Datasets
  BY DEF TypeOK
<1>1. CASE Load(j)
  BY <1>1, <1>a DEF Load, TypeOK
<1>2. CASE MarkSyncing(j)
  <2>a. row' = row \/ row' = [row EXCEPT ![ds[j]].status = "syncing"]
    BY <1>2, <1>a DEF MarkSyncing
  <2>1. \A d \in Datasets : row'[d].synced = row[d].synced
    BY <2>a, <1>b, StatusOnly
  <2>2. pc[j] = "loaded" /\ pc'[j] \in {"idle", "fetch"} /\ (pc'[j] = "fetch" => ds'[j] = ds[j])
    BY <1>2, <1>a DEF MarkSyncing, TypeOK
  <2> QED
    BY <2>1, <2>2
<1>3. CASE Fetch(j) \/ Raise(j)
  BY <1>3, <1>a DEF Fetch, Raise, TypeOK
<1>4. CASE RecordFailure(j)
  <2>a. row' = row \/ row' = [row EXCEPT ![ds[j]].status = "error"]
    BY <1>4, <1>a DEF RecordFailure
  <2>1. \A d \in Datasets : row'[d].synced = row[d].synced
    BY <2>a, <1>b, StatusOnly
  <2>2. pc[j] = "failed" /\ pc'[j] = "idle"
    BY <1>4, <1>a DEF RecordFailure, CloseSession, TypeOK
  <2> QED
    BY <2>1, <2>2
<1>5. CASE RecordEmpty(j) \/ FinalCommit(j)
  <2>1. pc[j] \in {"empty", "tabled"} /\ pc'[j] = "idle"
    BY <1>5, <1>a DEF RecordEmpty, FinalCommit, CloseSession, TypeOK
  <2>2. \A d \in Datasets \ {ds[j]} : row'[d] = row[d]
    BY JobStepFrame DEF JobFrame
  <2> QED
    BY <2>1, <2>2
<1>6. CASE Flush(j) \/ CheckTable(j) \/ Recreate(j) \/ WriteBatch(j) \/ CommitTable(j)
  BY <1>6, <1>a DEF Flush, CheckTable, Recreate, WriteBatch, CommitTable, TypeOK
<1> QED
  BY <1>1, <1>2, <1>3, <1>4, <1>5, <1>6 DEF JobStep

(* Quota is inductive.                                                     *)
LEMMA QuotaInit == Init => Quota
BY ConstantsAssumption DEF Init, Quota, Quiet, Asking, Jobs

LEMMA QuotaNext ==
    ASSUME TypeOK, Quota, [Next]_vars
    PROVE  Quota'
<1> USE DEF connVars, rowVars, tableVars, sessVars, tickVars, deleteVars, histVars, Goto
<1>a. Schedulers \subseteq Jobs /\ Requests \subseteq Jobs /\ Schedulers \cap Requests = {}
  BY ConstantsAssumption DEF Jobs
<1>1. ASSUME NEW j \in Jobs, JobStep(j) PROVE Quota'
  <2>1. UNCHANGED << todo, advisory >> /\ JobFrame(j)
    BY <1>1, JobStepFrame
  <2>2. \A s \in Schedulers \ {j} : pc'[s] = pc[s] /\ ds'[s] = ds[s]
    BY <1>a, <2>1 DEF JobFrame
  <2>3. pc[j] # "idle" /\ (pc'[j] # "idle" => ds'[j] = ds[j])
    BY <1>1, <2>1, JobStepAsks DEF JobFrame
  <2> QED
    BY <2>1, <2>2, <2>3 DEF Quota, Quiet
<1>2. ASSUME NEW j \in Jobs, CrashJob(j) PROVE Quota'
  <2>1. JobFrame(j) /\ pc'[j] = "idle"
        /\ \A s \in Schedulers : todo'[s] = (IF s = j THEN {} ELSE todo[s])
        /\ advisory' = IF advisory = j THEN Nobody ELSE advisory
    BY <1>2, CrashJobFrame
  <2>2. \A s \in Schedulers \ {j} : pc'[s] = pc[s] /\ ds'[s] = ds[s] /\ todo'[s] = todo[s]
    BY <1>a, <2>1 DEF JobFrame
  <2> QED
    BY <2>1, <2>2 DEF Quota, Quiet
<1>3. ASSUME NEW s \in Schedulers, TickStart(s) PROVE Quota'
  <2>1. \A i \in Schedulers : Quiet(i)
    BY <1>3, ConstantsAssumption DEF Quota, TickStart, LockGranted
  <2>2. pc' = pc /\ ds' = ds /\ advisory' = s /\ \A i \in Schedulers \ {s} : todo'[i] = todo[i]
    BY <1>3 DEF TickStart, TypeOK
  <2> QED
    BY <2>1, <2>2 DEF Quota, Quiet
<1>4. ASSUME NEW s \in Schedulers, TickNext(s) PROVE Quota'
  <2>1. PICK d \in todo[s] : todo' = [todo EXCEPT ![s] = @ \ {d}] /\ ds' = [ds EXCEPT ![s] = d]
    BY <1>4 DEF TickNext
  <2>2. advisory = s /\ UNCHANGED advisory /\ pc' = [pc EXCEPT ![s] = "queued"]
    BY <1>4, <2>1 DEF TickNext, Quota, Quiet
  <2>3. ds'[s] = d /\ todo'[s] = todo[s] \ {d}
        /\ \A i \in Schedulers \ {s} : pc'[i] = pc[i] /\ ds'[i] = ds[i] /\ todo'[i] = todo[i]
    BY <1>a, <2>1, <2>2 DEF TypeOK
  <2> QED
    BY <2>2, <2>3 DEF Quota, Quiet
<1>5. ASSUME NEW s \in Schedulers, TickEnd(s) PROVE Quota'
  BY <1>5 DEF TickEnd, Quota, Quiet
<1>6. ASSUME NEW r \in Requests, RequestStep(r) PROVE Quota'
  <2>1. UNCHANGED << todo, advisory >> /\ \A s \in Schedulers : pc'[s] = pc[s] /\ ds'[s] = ds[s]
    BY <1>6, <1>a DEF RequestStep, AddDataset, SyncNowRead, SyncNowCommit, Abandon, CloseSession, TypeOK
  <2> QED
    BY <2>1 DEF Quota, Quiet
<1>7. ASSUME NEW k \in Deleters, DeleteStep(k) \/ CrashDeleter(k) PROVE Quota'
  <2>1. UNCHANGED << pc, ds, todo, advisory >>
    BY <1>7 DEF DeleteStep, DeleteStart, DeleteCheck, DeleteDrop, DeleteForget, DeleteEnd,
                CrashDeleter
  <2> QED
    BY <2>1 DEF Quota, Quiet
<1>8. CASE (\E d \in Datasets : IntervalElapses(d)) \/ SetActive \/ UNCHANGED vars
  BY <1>8 DEF IntervalElapses, SetActive, vars, Quota, Quiet
<1> QED
  BY <1>1, <1>2, <1>3, <1>4, <1>5, <1>6, <1>7, <1>8 DEF Next, TickStep

(* What a step does to a dataset a loop has still to ask about.            *)
LEMMA QuotaStep ==
    ASSUME TypeOK, Quota, [Next]_vars, NEW s \in Schedulers, NEW d \in Asking(s)',
           row'[d].synced = "fresh"
    PROVE  /\ d \in Asking(s)
           /\ row[d].synced = "fresh" \/ \E r \in Requests : Refreshed(r, d)
<1> USE DEF connVars, rowVars, tableVars, sessVars, tickVars, deleteVars, histVars, Goto
<1> DEFINE Same  == pc'[s] = pc[s] /\ ds'[s] = ds[s] /\ todo'[s] = todo[s]
           Fresh == row[d].synced = "fresh"
<1>a. /\ Schedulers \subseteq Jobs /\ Requests \subseteq Jobs /\ Schedulers \cap Requests = {}
      /\ Jobs = Schedulers \cup Requests
  BY ConstantsAssumption DEF Jobs
<1>b. Quiet(s) => Asking(s) = {}
  BY DEF Quiet, Asking
<1>c. Same => d \in Asking(s)
  BY DEF Asking
<1>d. Asking(s) \subseteq Datasets
  BY <1>a DEF Asking, TypeOK
<1>1. ASSUME NEW j \in Jobs, JobStep(j), j # s
      PROVE  d \in Asking(s) /\ (Fresh \/ \E r \in Requests : Refreshed(r, d))
  <2>1. Same
    BY <1>1, <1>a, JobStepFrame DEF JobFrame
  <2>2. d \in Asking(s) /\ d \in Datasets
    BY <2>1, <1>c, <1>d
  <2>3. CASE j \in Requests
    BY <1>1, <2>2, <2>3, JobStepAsks DEF Refreshed
  <2>4. CASE j \in Schedulers
    <3>1. pc[j] # "idle"
      BY <1>1, JobStepAsks
    <3>2. Quiet(s)
      BY <1>1, <2>4, <3>1 DEF Quota, Quiet
    <3> QED
      BY <2>2, <3>2, <1>b
  <2> QED
    BY <2>3, <2>4, <1>a
<1>2. ASSUME JobStep(s) PROVE d \in Asking(s) /\ Fresh
  <2>1. UNCHANGED todo /\ JobFrame(s) /\ s \in Jobs
    BY <1>2, <1>a, JobStepFrame
  <2>2. Asking(s)' \subseteq Asking(s) /\ (pc'[s] = "idle" => Asking(s)' = todo[s])
    BY <1>2, <2>1, JobStepAsks DEF Asking
  <2>3. d \in Asking(s) /\ d \in Datasets
    BY <2>2, <1>d
  <2>4. ds[s] \notin todo[s]
    BY <1>2, <2>1, JobStepAsks DEF Quota
  <2> QED
    BY <1>2, <2>1, <2>2, <2>3, <2>4, JobStepAsks
<1>3. ASSUME NEW j \in Jobs, CrashJob(j) PROVE d \in Asking(s) /\ Fresh
  <2>1. JobFrame(j) /\ row' = row /\ pc'[j] = "idle"
        /\ todo'[s] = (IF s = j THEN {} ELSE todo[s])
    BY <1>3, CrashJobFrame
  <2>2. s = j => Asking(s)' = {}
    BY <2>1 DEF Asking
  <2>3. s # j => Same
    BY <2>1, <1>a DEF JobFrame
  <2> QED
    BY <2>1, <2>2, <2>3, <1>c
<1>4. ASSUME NEW i \in Schedulers, TickStart(i) PROVE d \in Asking(s) /\ Fresh
  <2>1. row' = row /\ pc' = pc /\ ds' = ds /\ todo' = [todo EXCEPT ![i] = Due] /\ pc[i] = "idle"
    BY <1>4 DEF TickStart
  <2>2. i = s => Asking(s)' = Due
    BY <2>1 DEF TypeOK, Asking
  <2>3. i # s
    BY <2>1, <2>2 DEF Due
  <2>4. Same
    BY <2>1, <2>3 DEF TypeOK
  <2> QED
    BY <2>1, <2>4, <1>c
<1>5. ASSUME NEW i \in Schedulers, TickNext(i) PROVE d \in Asking(s) /\ Fresh
  <2>1. PICK e \in todo[i] : todo' = [todo EXCEPT ![i] = @ \ {e}] /\ ds' = [ds EXCEPT ![i] = e]
    BY <1>5 DEF TickNext
  <2>2. row' = row /\ pc' = [pc EXCEPT ![i] = "queued"]
    BY <1>5 DEF TickNext
  <2>3. CASE i = s
    <3>1. Asking(s)' \subseteq todo[s]
      BY <1>a, <2>1, <2>2, <2>3 DEF TypeOK, Asking
    <3> QED
      BY <2>2, <3>1 DEF Asking
  <2>4. CASE i # s
    <3>1. Same
      BY <1>a, <2>1, <2>2, <2>4 DEF TypeOK
    <3> QED
      BY <2>2, <3>1, <1>c
  <2> QED
    BY <2>3, <2>4
<1>6. ASSUME NEW i \in Schedulers, TickEnd(i) PROVE d \in Asking(s) /\ Fresh
  BY <1>6, <1>c DEF TickEnd
<1>7. ASSUME NEW r \in Requests, RequestStep(r) PROVE d \in Asking(s) /\ Fresh
  <2>1. UNCHANGED todo /\ pc'[s] = pc[s] /\ ds'[s] = ds[s]
    BY <1>7, <1>a DEF RequestStep, AddDataset, SyncNowRead, SyncNowCommit, Abandon, CloseSession, TypeOK
  <2>2. row' = row \/ row' = [row EXCEPT ![ds[r]].status = "syncing"]
    BY <1>7 DEF RequestStep, AddDataset, SyncNowRead, SyncNowCommit, Abandon
  <2>3. \A e \in Datasets : row'[e].synced = row[e].synced
    <3>1. ds[r] \in Datasets
      BY <1>a DEF TypeOK
    <3> QED
      BY <2>2, <3>1, StatusOnly
  <2> QED
    BY <2>1, <2>3, <1>c, <1>d
<1>8. ASSUME NEW k \in Deleters, DeleteStep(k) \/ CrashDeleter(k) PROVE d \in Asking(s) /\ Fresh
  <2>1. UNCHANGED << row, pc, ds, todo >>
    BY <1>8 DEF DeleteStep, DeleteStart, DeleteCheck, DeleteDrop, DeleteForget, DeleteEnd,
                CrashDeleter
  <2> QED
    BY <2>1, <1>c
<1>9. ASSUME NEW e \in Datasets, IntervalElapses(e) PROVE d \in Asking(s) /\ Fresh
  <2>1. UNCHANGED << pc, ds, todo >>
        /\ \A c \in Datasets : row'[c].synced = "fresh" => row[c].synced = "fresh"
    BY <1>9 DEF IntervalElapses, TypeOK, Row
  <2> QED
    BY <2>1, <1>c, <1>d
<1>10. CASE SetActive \/ UNCHANGED vars
  BY <1>10, <1>c DEF SetActive, vars
<1> QED
  BY <1>1, <1>2, <1>3, <1>4, <1>5, <1>6, <1>7, <1>8, <1>9, <1>10 DEF Next, TickStep

(* With pg_try_advisory_lock around the tick, a dataset the loop has still *)
(* to ask a provider about is brought up to date by a Refresh request and  *)
(* by nobody else, however many workers run connector_scheduler and        *)
(* whichever of them die.                                                  *)
THEOREM QuotaIsRespected == Spec => QuotaRespected
<1>1. TypeOK /\ Quota /\ [Next]_vars =>
        [\A s \in Schedulers : \A d \in Asking(s)' :
            row'[d].synced = "fresh"
            => /\ d \in Asking(s)
               /\ row[d].synced = "fresh" \/ \E r \in Requests : Refreshed(r, d)]_vars
  BY QuotaStep
<1> QED
  BY <1>1, TypeInit, TypeNext, QuotaInit, QuotaNext, PTL DEF Spec, QuotaRespected

(* Who is alone after a step of job j, and what the step does to blame.    *)
LEMMA JobStepAlone ==
    ASSUME TypeOK, NEW j \in Jobs, JobStep(j)
    PROVE  /\ pc[j] # "queued" => pc[j] \in Working /\ \A i \in Jobs \ {j} : alone'[i] = alone[i]
           /\ pc[j] # "queued" /\ pc'[j] # "idle" =>
                 alone'[j] = alone[j] /\ pc'[j] \in Working \ {"loaded"} /\ blame' = blame
           /\ pc[j] = "queued" /\ pc'[j] # "idle" =>
                 /\ pc'[j] = "loaded" /\ life[ds[j]] = "live" /\ base'[j] = row[ds[j]]
                 /\ UNCHANGED << row, tables >>
                 /\ alone'[j] = (JobsOn(ds[j]) = {} /\ ~Deleting(ds[j]))
                 /\ IF alone'[j] THEN blame' = blame
                    ELSE blame' = [blame EXCEPT ![ds[j]] = @ \cup {"overlap"}]
                 /\ \A i \in Jobs \ {j} :
                       alone'[i] = (alone[i] /\ i \notin JobsOn(ds[j]))
           /\ pc'[j] = "idle" =>
                 /\ \A i \in Jobs \ {j} : alone'[i] = alone[i]
                 /\ pc[j] = "queued" => UNCHANGED << row, tables >>
                 /\ blame' = blame \/ (pc[j] = "tabled" /\ alone[j] /\ life[ds[j]] = "live")
<1> USE DEF connVars, rowVars, tableVars, sessVars, tickVars, deleteVars, histVars, Goto
<1>a. Stale(j) \/ Abandon(j) => /\ pc'[j] = "idle" /\ UNCHANGED << row, tables, blame >>
                                /\ \A i \in Jobs \ {j} : alone'[i] = alone[i]
  BY DEF Stale, Abandon, CloseSession, TypeOK
<1>1. CASE Load(j)
  <2>1. CASE Abandon(j)
    BY <1>1, <1>a, <2>1 DEF Load
  <2>2. CASE ~Abandon(j)
    <3>1. /\ pc[j] = "queued" /\ life[ds[j]] = "live" /\ pc'[j] = "loaded"
          /\ base'[j] = row[ds[j]] /\ UNCHANGED << row, tables >>
      BY <1>1, <2>2 DEF Load, TypeOK
    <3>2. CASE JobsOn(ds[j]) = {} /\ ~Deleting(ds[j])
      <4>1. alone' = [alone EXCEPT ![j] = TRUE] /\ blame' = blame
        BY <1>1, <2>2, <3>2 DEF Load
      <4> QED
        BY <3>1, <3>2, <4>1 DEF TypeOK
    <3>3. CASE ~(JobsOn(ds[j]) = {} /\ ~Deleting(ds[j]))
      <4>1. /\ alone' = [i \in Jobs |-> alone[i] /\ i \notin JobsOn(ds[j]) /\ i # j]
            /\ blame' = [blame EXCEPT ![ds[j]] = @ \cup {"overlap"}]
        BY <1>1, <2>2, <3>3 DEF Load, Blamed
      <4>2. ~alone'[j] /\ \A i \in Jobs \ {j} : alone'[i] = (alone[i] /\ i \notin JobsOn(ds[j]))
        BY <4>1, Zenon
      <4> QED
        BY <3>1, <3>3, <4>1, <4>2
    <3> QED
      BY <3>2, <3>3
  <2> QED
    BY <2>1, <2>2
<1>2. CASE MarkSyncing(j)
  BY <1>2, <1>a DEF MarkSyncing, TypeOK, Working
<1>3. CASE Fetch(j) \/ Raise(j)
  BY <1>3, <1>a DEF Fetch, Raise, TypeOK, Working
<1>4. CASE RecordFailure(j) \/ RecordEmpty(j)
  BY <1>4, <1>a DEF RecordFailure, RecordEmpty, CloseSession, TypeOK, Working
<1>5. CASE FinalCommit(j)
  <2>1. CASE Stale(j)
    BY <1>5, <1>a, <2>1 DEF FinalCommit, Working
  <2>2. CASE ~Stale(j)
    <3>1. /\ pc[j] = "tabled" /\ life[ds[j]] = "live" /\ CloseSession(j)
          /\ blame' = [blame EXCEPT ![ds[j]] = IF alone[j] THEN {} ELSE @]
      BY <1>5, <2>2 DEF FinalCommit
    <3>2. ~alone[j] => blame' = blame
      BY <3>1 DEF TypeOK
    <3> QED
      BY <3>1, <3>2, CloseSessionFrame DEF Working
  <2> QED
    BY <2>1, <2>2
<1>6. CASE Flush(j) \/ CheckTable(j) \/ Recreate(j) \/ WriteBatch(j) \/ CommitTable(j)
  BY <1>6, <1>a DEF Flush, CheckTable, Recreate, WriteBatch, CommitTable, TypeOK, Working
<1> QED
  BY <1>1, <1>2, <1>3, <1>4, <1>5, <1>6 DEF JobStep

(* A step of another job spares the dataset of a job that stays alone.     *)
LEMMA JobStepSpares ==
    ASSUME TypeOK, Undisturbed, NEW j \in Jobs, JobStep(j), NEW i \in Jobs \ {j}, alone'[i]
    PROVE  /\ alone[i] /\ ds'[i] = ds[i]
           /\ row'[ds[i]] = row[ds[i]] /\ tables'[ds[i]] = tables[ds[i]]
           /\ pc'[j] \in Working => ds'[j] # ds[i]
<1>1. alone[i] /\ pc[i] \in Working /\ JobsOn(ds[i]) = {i} /\ ds[i] \in Datasets
  BY JobStepAlone DEF Undisturbed, TypeOK
<1>2. i \in JobsOn(ds[i]) /\ ~(pc[j] \in Working /\ ds[j] = ds[i])
  BY <1>1 DEF JobsOn
<1>3. JobFrame(j)
  BY JobStepFrame
<1>4. CASE ds[j] # ds[i]
  BY <1>1, <1>3, <1>4 DEF JobFrame, Working
<1>5. CASE ds[j] = ds[i]
  <2>1. pc[j] = "queued" /\ pc'[j] = "idle"
    BY <1>1, <1>2, <1>5, JobStepAlone
  <2> QED
    BY <1>1, <1>3, <1>5, <2>1, JobStepAlone DEF JobFrame, Working
<1> QED
  BY <1>4, <1>5

(* What a job knows about its row while nobody else is at its dataset.     *)
LEMMA JobStepMirrors ==
    ASSUME TypeOK, Undisturbed, NEW j \in Jobs, JobStep(j), alone'[j]
    PROVE  Mirrored(j)'
<1> USE DEF connVars, rowVars, tableVars, sessVars, tickVars, deleteVars, histVars, Goto
<1>a. pc'[j] # "idle" /\ ~Abandon(j) /\ ~Stale(j) /\ ~CloseSession(j)
  BY DEF JobStep, Load, MarkSyncing, Fetch, Raise, RecordFailure, RecordEmpty, Flush, CheckTable,
         Recreate, WriteBatch, CommitTable, FinalCommit, Abandon, Stale, CloseSession, TypeOK
<1>b. pc[j] # "queued" => alone[j] /\ Mirrored(j)
  BY <1>a, JobStepAlone DEF Undisturbed
<1>1. CASE Load(j)
  BY <1>1, <1>a DEF Load, TypeOK, Mirrored, Row
<1>2. CASE MarkSyncing(j)
  <2>1. CASE base[j].status = "syncing"
    BY <1>2, <1>a, <1>b, <2>1 DEF MarkSyncing, TypeOK, Mirrored
  <2>2. CASE base[j].status # "syncing"
    <3>1. /\ pc[j] = "loaded"
          /\ row' = [row EXCEPT ![ds[j]] = [row[ds[j]] EXCEPT !.status = "syncing"]]
          /\ base' = [base EXCEPT ![j] = [base[j] EXCEPT !.status = "syncing"]]
          /\ pc' = [pc EXCEPT ![j] = "fetch"] /\ ds' = ds
      BY <1>2, <1>a, <2>2 DEF MarkSyncing
    <3>2. row[ds[j]] \in Row /\ base[j] \in Row /\ ds[j] \in Datasets
      BY DEF TypeOK
    <3>3. /\ row'[ds[j]] = [row[ds[j]] EXCEPT !.status = "syncing"]
          /\ base'[j] = [base[j] EXCEPT !.status = "syncing"]
          /\ pc'[j] = "fetch" /\ ds'[j] = ds[j]
      BY <3>1, <3>2 DEF TypeOK
    <3> QED
      BY <1>b, <3>1, <3>2, <3>3 DEF Mirrored, Row
  <2> QED
    BY <2>1, <2>2
<1>3. CASE Fetch(j) \/ Raise(j) \/ RecordFailure(j) \/ RecordEmpty(j) \/ FinalCommit(j)
  BY <1>3, <1>a, <1>b DEF Fetch, Raise, RecordFailure, RecordEmpty, FinalCommit, TypeOK, Mirrored
<1>4. CASE Flush(j)
  BY <1>4, <1>a, <1>b DEF Flush, TypeOK, Mirrored, Row
<1>5. CASE CheckTable(j) \/ Recreate(j) \/ WriteBatch(j)
  BY <1>5, <1>a, <1>b DEF CheckTable, Recreate, WriteBatch, TypeOK, Mirrored
<1>6. CASE CommitTable(j)
  <2>1. [shape |-> mine[j].columns, batches |-> batch[j]] # NoTable
    <3>1. mine[j].columns \in Shapes \cup {NoShape} /\ batch[j] \in 0 .. Batches
      BY DEF TypeOK, Row
    <3> QED
      BY <3>1, ConstantsAssumption
  <2> QED
    BY <1>6, <1>b, <2>1 DEF CommitTable, TypeOK, Mirrored
<1> QED
  BY <1>1, <1>2, <1>3, <1>4, <1>5, <1>6 DEF JobStep

(* The parts of the invariant, through a step of a job.                    *)
LEMMA UndisturbedJobStep ==
    ASSUME TypeOK, Undisturbed, NEW j \in Jobs, JobStep(j)
    PROVE  Undisturbed'
<1>1. JobFrame(j)
  BY JobStepFrame
<1>2. \A d : Deleting(d)' = Deleting(d)
  BY <1>1 DEF JobFrame, Deleting, deleteVars
<1>3. ASSUME NEW i \in Jobs \ {j}, alone'[i]
      PROVE  /\ pc'[i] \in Working /\ life'[ds'[i]] = "live"
             /\ JobsOn(ds[i])' = {i} /\ ~Deleting(ds[i])'
             /\ Mirrored(i)' /\ ds'[i] = ds[i]
  <2>1. /\ alone[i] /\ ds'[i] = ds[i]
        /\ row'[ds[i]] = row[ds[i]] /\ tables'[ds[i]] = tables[ds[i]]
        /\ pc'[j] \in Working => ds'[j] # ds[i]
    BY <1>3, JobStepSpares
  <2>2. /\ pc[i] \in Working /\ life[ds[i]] = "live" /\ JobsOn(ds[i]) = {i} /\ ~Deleting(ds[i])
        /\ Mirrored(i)
    BY <2>1 DEF Undisturbed
  <2>3. JobsOn(ds[i])' = {i}
    BY <1>1, <2>1, <2>2 DEF JobFrame, JobsOn
  <2> QED
    BY <1>1, <1>2, <2>1, <2>2, <2>3 DEF JobFrame, Mirrored
<1>4. ASSUME alone'[j]
      PROVE  /\ pc'[j] \in Working /\ life'[ds'[j]] = "live"
             /\ JobsOn(ds[j])' = {j} /\ ~Deleting(ds[j])'
             /\ Mirrored(j)' /\ ds'[j] = ds[j]
  <2>1. Mirrored(j)' /\ pc'[j] # "idle" /\ ds'[j] = ds[j]
    BY <1>1, <1>4, JobStepMirrors, JobStepAlone DEF JobFrame
  <2>2. CASE pc[j] = "queued"
    <3>1. pc'[j] = "loaded" /\ life[ds[j]] = "live" /\ JobsOn(ds[j]) = {} /\ ~Deleting(ds[j])
      BY <1>4, <2>1, <2>2, JobStepAlone
    <3>2. JobsOn(ds[j])' = {j}
      BY <1>1, <2>1, <3>1 DEF JobsOn, JobFrame, Working
    <3> QED
      BY <1>1, <1>2, <2>1, <3>1, <3>2 DEF JobFrame, Working
  <2>3. CASE pc[j] # "queued"
    <3>1. alone[j] /\ pc'[j] \in Working
      BY <1>4, <2>1, <2>3, JobStepAlone
    <3>2. life[ds[j]] = "live" /\ JobsOn(ds[j]) = {j} /\ ~Deleting(ds[j])
      BY <3>1 DEF Undisturbed
    <3>3. JobsOn(ds[j])' = {j}
      BY <1>1, <2>1, <3>1, <3>2 DEF JobsOn, JobFrame
    <3> QED
      BY <1>1, <1>2, <2>1, <3>1, <3>2, <3>3 DEF JobFrame
  <2> QED
    BY <2>2, <2>3
<1> QED
  BY <1>3, <1>4 DEF Undisturbed

LEMMA AccountedJobStep ==
    ASSUME TypeOK, Undisturbed, Accounted, NEW j \in Jobs, JobStep(j)
    PROVE  Accounted'
<1>1. JobFrame(j) /\ ds[j] \in Datasets
  BY JobStepFrame DEF TypeOK
<1>2. ASSUME NEW i \in Jobs \ {j}, pc'[i] \in Working, blame'[ds'[i]] = {} PROVE alone'[i]
  <2>1. pc[i] \in Working /\ ds'[i] = ds[i] /\ i \in JobsOn(ds[i]) /\ ds[i] \in Datasets
    BY <1>1, <1>2 DEF JobFrame, JobsOn, TypeOK
  <2>2. CASE ds[i] # ds[j]
    <3>1. blame'[ds[i]] = blame[ds[i]] /\ i \notin JobsOn(ds[j])
      BY <1>1, <2>1, <2>2 DEF JobFrame, JobsOn
    <3>2. alone[i]
      BY <1>2, <2>1, <3>1 DEF Accounted
    <3> QED
      BY <3>1, <3>2, JobStepAlone
  <2>3. CASE ds[i] = ds[j] /\ pc'[j] = "idle"
    <3>1. ~(pc[j] = "tabled" /\ alone[j])
      BY <2>1, <2>3 DEF Undisturbed
    <3> QED
      BY <1>2, <2>1, <2>3, <3>1, JobStepAlone DEF Accounted
  <2>4. CASE ds[i] = ds[j] /\ pc'[j] # "idle" /\ pc[j] # "queued"
    BY <1>2, <2>1, <2>4, JobStepAlone DEF Accounted
  <2>5. CASE ds[i] = ds[j] /\ pc'[j] # "idle" /\ pc[j] = "queued"
    <3>1. blame' = [blame EXCEPT ![ds[j]] = @ \cup {"overlap"}]
      BY <2>1, <2>5, JobStepAlone
    <3>2. blame'[ds[j]] # {}
      BY <1>1, <3>1 DEF TypeOK
    <3> QED
      BY <1>2, <2>1, <2>5, <3>2
  <2> QED
    BY <2>2, <2>3, <2>4, <2>5
<1>3. ASSUME pc'[j] \in Working, blame'[ds'[j]] = {} PROVE alone'[j]
  <2>1. pc'[j] # "idle" /\ ds'[j] = ds[j]
    BY <1>1, <1>3 DEF JobFrame, Working
  <2>2. CASE pc[j] = "queued"
    <3>1. alone'[j] \/ blame' = [blame EXCEPT ![ds[j]] = @ \cup {"overlap"}]
      BY <2>1, <2>2, JobStepAlone
    <3> QED
      <4>1. blame' = [blame EXCEPT ![ds[j]] = @ \cup {"overlap"}] => "overlap" \in blame'[ds[j]]
        BY <1>1 DEF TypeOK
      <4> QED
        BY <1>3, <2>1, <3>1, <4>1
  <2>3. CASE pc[j] # "queued"
    BY <1>3, <2>1, <2>3, JobStepAlone DEF Accounted
  <2> QED
    BY <2>2, <2>3
<1> QED
  BY <1>2, <1>3 DEF Accounted

(* What one step of a job writes on its own dataset when it is alone.      *)
LEMMA JobStepWrites ==
    ASSUME TypeOK, Undisturbed, NEW j \in Jobs, JobStep(j), alone[j]
    PROVE  \/ /\ tables'[ds[j]] = tables[ds[j]]
              /\ row'[ds[j]].columns = row[ds[j]].columns
              /\ row'[ds[j]].physical = row[ds[j]].physical
              /\ pc[j] # "tabled"
           \/ pc'[j] = "tabled" /\ ds'[j] = ds[j]
           \/ /\ pc[j] = "tabled" /\ tables'[ds[j]] # NoTable
              /\ tables'[ds[j]].shape = row'[ds[j]].columns
              /\ row'[ds[j]].physical
              /\ row'[ds[j]].synced = "fresh" /\ row'[ds[j]].status = "ready"
<1> USE DEF connVars, rowVars, tableVars, sessVars, tickVars, deleteVars, histVars, Goto
<1>a. /\ pc[j] \in Working /\ life[ds[j]] = "live" /\ Mirrored(j)
  BY DEF Undisturbed
<1>b. ~Stale(j)
  BY <1>a DEF Stale
<1>c. ds[j] \in Datasets /\ row[ds[j]] \in Row /\ base[j] \in Row /\ mine[j] \in Row
  BY DEF TypeOK
<1>d. Abandon(j) => UNCHANGED << row, tables >>
  BY DEF Abandon
<1>1. CASE Load(j)
  BY <1>1, <1>a DEF Load, Working
<1>2. CASE MarkSyncing(j)
  <2>1. UNCHANGED tables /\ (row' = row \/ row' = [row EXCEPT ![ds[j]] = [row[ds[j]] EXCEPT !.status = "syncing"]])
    BY <1>2, <1>b, <1>d DEF MarkSyncing
  <2> QED
    BY <1>2, <1>c, <2>1 DEF MarkSyncing, TypeOK, Row
<1>3. CASE Fetch(j) \/ Raise(j)
  BY <1>3, <1>d DEF Fetch, Raise
<1>4. CASE RecordFailure(j) \/ RecordEmpty(j)
  <2>1. UNCHANGED tables
        /\ \/ row' = [row EXCEPT ![ds[j]] = [row[ds[j]] EXCEPT !.status = "error"]]
           \/ row' = [row EXCEPT ![ds[j]] = [row[ds[j]] EXCEPT !.status = "ready", !.synced = "fresh"]]
    BY <1>4, <1>b DEF RecordFailure, RecordEmpty
  <2>2. \/ row'[ds[j]] = [row[ds[j]] EXCEPT !.status = "error"]
        \/ row'[ds[j]] = [row[ds[j]] EXCEPT !.status = "ready", !.synced = "fresh"]
    BY <1>c, <2>1 DEF TypeOK
  <2> QED
    BY <1>4, <1>c, <2>1, <2>2 DEF RecordFailure, RecordEmpty, Row
<1>5. CASE Flush(j) \/ CheckTable(j) \/ Recreate(j) \/ WriteBatch(j)
  BY <1>5, <1>b, <1>d DEF Flush, CheckTable, Recreate, WriteBatch
<1>6. CASE CommitTable(j)
  BY <1>6 DEF CommitTable, TypeOK
<1>7. CASE FinalCommit(j)
  <2> DEFINE m == [mine[j] EXCEPT !.status = "ready"]
             r == [Merge(row[ds[j]], base[j], m) EXCEPT !.synced = "fresh"]
  <2>1. pc[j] = "tabled" /\ row' = [row EXCEPT ![ds[j]] = r] /\ tables' = tables
    BY <1>7, <1>b DEF FinalCommit
  <2>2. m.status = "ready" /\ m.physical = mine[j].physical /\ m.columns = mine[j].columns
    BY <1>c DEF Row
  <2>3. /\ mine[j].physical /\ row[ds[j]].physical = base[j].physical
        /\ row[ds[j]].columns = base[j].columns /\ base[j].status = "syncing"
        /\ tables[ds[j]] # NoTable /\ tables[ds[j]].shape = mine[j].columns
    BY <1>a, <2>1 DEF Mirrored
  <2>4. r.columns = mine[j].columns /\ r.physical /\ r.synced = "fresh" /\ r.status = "ready"
    <3> HIDE DEF m
    <3>1. /\ r.columns = Net(base[j].columns, m.columns, row[ds[j]].columns)
          /\ r.physical = Net(base[j].physical, m.physical, row[ds[j]].physical)
          /\ r.status = Net(base[j].status, m.status, row[ds[j]].status)
          /\ r.synced = "fresh"
      BY <1>c DEF Merge, Row
    <3> QED
      BY <2>2, <2>3, <3>1 DEF Net
  <2> HIDE DEF r
  <2>5. row'[ds[j]] = r
    BY <1>c, <2>1 DEF TypeOK
  <2> QED
    BY <2>1, <2>3, <2>4, <2>5
<1> QED
  BY <1>1, <1>2, <1>3, <1>4, <1>5, <1>6, <1>7 DEF JobStep

LEMMA KeptJobStep ==
    ASSUME TypeOK, Recorded, Undisturbed, Accounted, Kept, NEW j \in Jobs, JobStep(j)
    PROVE  Kept'
<1> SUFFICES ASSUME NEW d \in Datasets, blame'[d] = {} PROVE Blameless(d)'
  BY DEF Kept
<1>1. JobFrame(j) /\ ds[j] \in Datasets
  BY JobStepFrame DEF TypeOK
<1>2. Dropped(d)' = Dropped(d)
  BY <1>1 DEF JobFrame, Dropped, deleteVars
<1>3. CASE d # ds[j]
  <2>1. blame[d] = {} /\ row'[d] = row[d] /\ tables'[d] = tables[d]
    BY <1>1, <1>3 DEF JobFrame
  <2>2. Tabled(d)' = Tabled(d)
    BY <1>1, <1>3 DEF JobFrame, Tabled, JobsOn, Working
  <2>3. Blameless(d)
    BY <2>1 DEF Kept
  <2> QED
    BY <1>1, <1>2, <2>1, <2>2, <2>3 DEF Blameless, Described, JobFrame, deleteVars
<1>4. CASE d = ds[j] /\ ~alone[j] /\ pc[j] \in Working
  <2>1. blame[d] # {}
    BY <1>4 DEF Accounted
  <2>2. blame' = blame
    BY <1>4, JobStepAlone DEF Working
  <2> QED
    BY <2>1, <2>2
<1>5. CASE d = ds[j] /\ pc[j] \notin Working
  <2>1. pc[j] = "queued" /\ UNCHANGED << row, tables >>
    BY <1>5, JobStepAlone
  <2>2. blame'[d] = blame[d]
    <3>1. \/ blame' = blame 
          \/ blame' = [blame EXCEPT ![ds[j]] = @ \cup {"overlap"}]
      BY <2>1, JobStepAlone
    <3>2. blame' = [blame EXCEPT ![ds[j]] = @ \cup {"overlap"}] => "overlap" \in blame'[d]
      BY <1>1, <1>5 DEF TypeOK
    <3> QED
      BY <3>1, <3>2
  <2>3. Blameless(d)
    BY <2>2 DEF Kept
  <2>4. Tabled(d) => Tabled(d)'
    BY <1>1, <2>1 DEF JobFrame, Tabled, JobsOn, Working
  <2> QED
    BY <1>1, <1>2, <2>1, <2>3, <2>4 DEF Blameless, Described, JobFrame, deleteVars
<1>6. CASE d = ds[j] /\ alone[j]
  <2>1. life[d] = "live" /\ JobsOn(d) = {j} /\ ~Deleting(d)
    BY <1>6 DEF Undisturbed
  <2>2. life'[d] = "live" /\ ~Deleting(d)'
    BY <1>1, <2>1 DEF JobFrame, Deleting, deleteVars
  <2>3. ~Dropped(d)' /\ \A k \in Deleters : d \notin dtodo'[k] /\
             ~(dcur'[k] = d /\ dpc'[k] \in {"drop", "forget"})
    BY <2>2 DEF Deleting, Dropped
  <2>4. CASE /\ tables'[ds[j]] = tables[ds[j]]
             /\ row'[ds[j]].columns = row[ds[j]].columns
             /\ row'[ds[j]].physical = row[ds[j]].physical
             /\ pc[j] # "tabled"
    <3>1. ~Tabled(d)
      BY <2>1, <2>4 DEF Tabled
    <3>2. blame' = blame
      BY <1>6, <2>4, JobStepAlone DEF Undisturbed, Working
    <3>3. Blameless(d) /\ ~Dropped(d)
      BY <1>2, <2>3, <3>2 DEF Kept
    <3> QED
      BY <1>6, <2>1, <2>2, <2>3, <2>4, <3>1, <3>3 DEF Blameless, Described
  <2>5. CASE pc'[j] = "tabled" /\ ds'[j] = ds[j]
    <3>1. Tabled(d)'
      BY <1>6, <2>5 DEF Tabled, JobsOn, Working
    <3> QED
      BY <2>2, <2>3, <3>1 DEF Blameless
  <2>6. CASE /\ tables'[ds[j]] # NoTable
             /\ tables'[ds[j]].shape = row'[ds[j]].columns
             /\ row'[ds[j]].physical
    BY <1>6, <2>2, <2>3, <2>6 DEF Blameless, Described
  <2> QED
    BY <1>6, <2>4, <2>5, <2>6, JobStepWrites
<1> QED
  BY <1>3, <1>4, <1>5, <1>6

LEMMA UntouchedJobStep ==
    ASSUME TypeOK, Recorded, Untouched, NEW j \in Jobs, JobStep(j)
    PROVE  Untouched'
<1>1. JobFrame(j) /\ life[ds[j]] # "unborn"
  BY JobStepFrame, JobStepAsks DEF Recorded
<1> QED
  BY <1>1 DEF Untouched, JobFrame

(* The steps of the rest of the system.                                    *)
LEMMA UndisturbedDeleteStep ==
    ASSUME TypeOK, Undisturbed, NEW k \in Deleters, DeleteStep(k)
    PROVE  Undisturbed'
<1> USE DEF connVars, rowVars, tableVars, sessVars, tickVars, histVars
<1>1. /\ UNCHANGED << row, pc, ds, base, mine >>
      /\ \A j \in Jobs : alone'[j] => alone[j]
  BY DEF DeleteStep, DeleteStart, DeleteCheck, DeleteDrop, DeleteForget, DeleteEnd
<1>2. ASSUME NEW j \in Jobs, alone'[j]
      PROVE  life'[ds[j]] = "live" /\ tables'[ds[j]] = tables[ds[j]] /\ ~Deleting(ds[j])'
  <2>1. pc[j] \in Working /\ life[ds[j]] = "live" /\ ~Deleting(ds[j]) /\ ds[j] \in Datasets
    BY <1>1, <1>2 DEF Undisturbed, TypeOK
  <2>2. \A i \in Deleters : ds[j] \notin dtodo[i] /\ (dpc[i] \in {"drop", "forget"} => dcur[i] # ds[j])
    BY <2>1 DEF Deleting
  <2>3. \A i \in Deleters \ {k} : dtodo'[i] = dtodo[i] /\ dpc'[i] = dpc[i] /\ dcur'[i] = dcur[i]
    BY DEF DeleteStep, DeleteStart, DeleteCheck, DeleteDrop, DeleteForget, DeleteEnd, TypeOK
  <2>4. /\ life'[ds[j]] = "live" /\ tables'[ds[j]] = tables[ds[j]]
        /\ ds[j] \notin dtodo'[k] /\ (dpc'[k] \in {"drop", "forget"} => dcur'[k] # ds[j])
    <3>0. ds[j] \notin dtodo[k] /\ (dpc[k] = "drop" \/ dpc[k] = "forget" => dcur[k] # ds[j])
      BY <2>2
    <3>1. CASE DeleteStart(k)
      <4>1. PICK D \in {LiveDatasets} \cup {{d} : d \in LiveDatasets} :
               /\ dtodo' = [dtodo EXCEPT ![k] = D]
               /\ alone' = [i \in Jobs |-> alone[i] /\ ~(pc[i] \in Working /\ ds[i] \in D)]
        BY <3>1 DEF DeleteStart
      <4>2. ds[j] \notin D
        BY <1>2, <2>1, <4>1
      <4> QED
        BY <2>1, <3>1, <4>1, <4>2 DEF DeleteStart, TypeOK
    <3>2. CASE DeleteCheck(k)
      BY <2>1, <3>0, <3>2 DEF DeleteCheck, TypeOK
    <3>3. CASE DeleteDrop(k)
      BY <2>1, <3>0, <3>3 DEF DeleteDrop, TypeOK
    <3>4. CASE DeleteForget(k)
      BY <2>1, <3>0, <3>4 DEF DeleteForget, TypeOK
    <3>5. CASE DeleteEnd(k)
      BY <2>1, <3>0, <3>5 DEF DeleteEnd, TypeOK
    <3> QED
      BY <3>1, <3>2, <3>3, <3>4, <3>5 DEF DeleteStep
  <2> QED
    <3>1. ds'[j] = ds[j] /\ \A i \in Deleters : ds[j] \notin dtodo'[i] /\ (dpc'[i] \in {"drop", "forget"} => dcur'[i] # ds[j])
      BY <1>1, <2>2, <2>3, <2>4
    <3> QED
      BY <2>4, <3>1 DEF Deleting
<1>3. \A d : JobsOn(d)' = JobsOn(d)
  BY <1>1 DEF JobsOn
<1> QED
  BY <1>1, <1>2, <1>3 DEF Undisturbed, Mirrored

LEMMA AccountedDeleteStep ==
    ASSUME TypeOK, Accounted, NEW k \in Deleters, DeleteStep(k)
    PROVE  Accounted'
<1> USE DEF connVars, rowVars, tableVars, sessVars, tickVars, histVars
<1> SUFFICES ASSUME NEW j \in Jobs, pc'[j] \in Working, blame'[ds'[j]] = {} PROVE alone'[j]
  BY DEF Accounted
<1>1. pc[j] \in Working /\ ds'[j] = ds[j] /\ ds[j] \in Datasets /\ j \in JobsOn(ds[j])
  BY DEF DeleteStep, DeleteStart, DeleteCheck, DeleteDrop, DeleteForget, DeleteEnd, JobsOn, TypeOK
<1>2. CASE DeleteStart(k)
  <2>1. PICK D \in {LiveDatasets} \cup {{d} : d \in LiveDatasets} :
           /\ blame' = [d \in Datasets |->
                 IF d \in D /\ JobsOn(d) # {} THEN blame[d] \cup {"overlap"} ELSE blame[d]]
           /\ alone' = [i \in Jobs |-> alone[i] /\ ~(pc[i] \in Working /\ ds[i] \in D)]
    BY <1>2 DEF DeleteStart
  <2>2. ds[j] \notin D
    <3>1. ds[j] \in D => "overlap" \in blame'[ds[j]]
      BY <1>1, <2>1
    <3> QED
      BY <1>1, <3>1
  <2>3. blame[ds[j]] = {}
    BY <1>1, <2>1, <2>2
  <2>4. alone[j]
    BY <1>1, <2>3 DEF Accounted
  <2> QED
    BY <2>1, <2>2, <2>4, Zenon
<1>3. CASE DeleteCheck(k) \/ DeleteForget(k) \/ DeleteEnd(k)
  BY <1>1, <1>3 DEF DeleteCheck, DeleteForget, DeleteEnd, Accounted
<1>4. CASE DeleteDrop(k)
  <2>1. alone' = alone /\ (blame' = blame \/ blame' = [blame EXCEPT ![dcur[k]] = @ \cup {"undropped"}])
    BY <1>4 DEF DeleteDrop, Blamed
  <2>2. blame[ds[j]] \subseteq blame'[ds[j]]
    BY <1>1, <2>1 DEF TypeOK
  <2> QED
    BY <1>1, <2>1, <2>2 DEF Accounted
<1> QED
  BY <1>2, <1>3, <1>4 DEF DeleteStep

LEMMA KeptDeleteStep ==
    ASSUME TypeOK, Recorded, Kept, NEW k \in Deleters, DeleteStep(k)
    PROVE  Kept'
<1> USE DEF connVars, rowVars, tableVars, sessVars, tickVars, histVars
<1> SUFFICES ASSUME NEW d \in Datasets, blame'[d] = {} PROVE Blameless(d)'
  BY DEF Kept
<1>1. UNCHANGED << row, pc, ds >> /\ Tabled(d)' = Tabled(d)
  BY DEF DeleteStep, DeleteStart, DeleteCheck, DeleteDrop, DeleteForget, DeleteEnd, Tabled, JobsOn
<1>2. blame[d] \subseteq blame'[d]
  <2>1. CASE DeleteStart(k)
    BY <2>1 DEF DeleteStart, TypeOK
  <2>2. CASE DeleteDrop(k)
    BY <2>2 DEF DeleteDrop, Blamed, TypeOK
  <2>3. CASE DeleteCheck(k) \/ DeleteForget(k) \/ DeleteEnd(k)
    BY <2>3 DEF DeleteCheck, DeleteForget, DeleteEnd
  <2> QED
    BY <2>1, <2>2, <2>3 DEF DeleteStep
<1>3. Blameless(d)
  BY <1>2 DEF Kept
<1>4. CASE DeleteStart(k)
  <2>1. PICK D \in {LiveDatasets} \cup {{e} : e \in LiveDatasets} :
           /\ dtodo' = [dtodo EXCEPT ![k] = D]
           /\ dnamed' = [dnamed EXCEPT ![k] = Named(D)]
           /\ blame' = [e \in Datasets |->
                 IF e \in D /\ JobsOn(e) # {} THEN blame[e] \cup {"overlap"} ELSE blame[e]]
    BY <1>4 DEF DeleteStart
  <2>2. d \in D => life[d] = "live" /\ ~Tabled(d)
    <3>1. d \in D /\ JobsOn(d) # {} => "overlap" \in blame'[d]
      BY <2>1
    <3> QED
      BY <2>1, <3>1 DEF LiveDatasets, Tabled
  <2>3. d \in D /\ d \notin Named(D) => tables[d] = NoTable
    BY <1>3, <2>2 DEF Blameless, Named
  <2>4. dpc' = [dpc EXCEPT ![k] = "next"] /\ UNCHANGED << life, tables, dcur, sawTable >>
        /\ dpc[k] = "idle"
    BY <1>4 DEF DeleteStart
  <2>5. Dropped(d)' = Dropped(d)
    BY <2>4 DEF Dropped, TypeOK
  <2>6. \A i \in Deleters \ {k} : dtodo'[i] = dtodo[i] /\ dnamed'[i] = dnamed[i] /\ dpc'[i] = dpc[i]
    BY <2>1, <2>4 DEF TypeOK
  <2>7. dtodo'[k] = D /\ dnamed'[k] = Named(D) /\ dpc'[k] = "next"
    BY <2>1, <2>4 DEF TypeOK
  <2> QED
    BY <1>1, <1>3, <2>3, <2>4, <2>5, <2>6, <2>7 DEF Blameless, Described
<1>5. CASE DeleteCheck(k)
  <2>1. PICK e \in dtodo[k] :
           /\ dtodo' = [dtodo EXCEPT ![k] = @ \ {e}]
           /\ dcur' = [dcur EXCEPT ![k] = e]
           /\ sawTable' = [sawTable EXCEPT ![k] = e \in dnamed[k] /\ tables[e] # NoTable]
           /\ dpc' = [dpc EXCEPT ![k] = IF e \in dnamed[k] THEN "drop" ELSE "forget"]
    BY <1>5 DEF DeleteCheck
  <2>2. UNCHANGED << life, tables, dnamed >> /\ dpc[k] = "next"
    BY <1>5 DEF DeleteCheck
  <2>3. \A i \in Deleters \ {k} : dtodo'[i] = dtodo[i] /\ dpc'[i] = dpc[i] /\ dcur'[i] = dcur[i]
                                   /\ sawTable'[i] = sawTable[i]
    BY <2>1 DEF TypeOK
  <2>4. /\ dtodo'[k] = dtodo[k] \ {e} /\ dcur'[k] = e
        /\ sawTable'[k] = (e \in dnamed[k] /\ tables[e] # NoTable)
        /\ dpc'[k] = IF e \in dnamed[k] THEN "drop" ELSE "forget"
    BY <2>1 DEF TypeOK
  <2>5. Dropped(d) => Dropped(d)'
    BY <2>2, <2>3 DEF Dropped
  <2> QED
    BY <1>1, <1>3, <2>2, <2>3, <2>4, <2>5 DEF Blameless, Described
<1>6. CASE DeleteDrop(k)
  <2>1. UNCHANGED << life, dtodo, dnamed, dcur >> /\ dpc[k] = "drop"
        /\ dpc' = [dpc EXCEPT ![k] = "forget"] /\ sawTable' = [sawTable EXCEPT ![k] = FALSE]
    BY <1>6 DEF DeleteDrop
  <2>2. \A i \in Deleters \ {k} : dpc'[i] = dpc[i] /\ sawTable'[i] = sawTable[i]
    BY <2>1 DEF TypeOK
  <2>3. dpc'[k] = "forget"
    BY <2>1 DEF TypeOK
  <2>4. CASE d = dcur[k]
    <3>1. tables'[d] = NoTable
      <4>1. CASE sawTable[k] /\ tables' = [tables EXCEPT ![dcur[k]] = NoTable]
        BY <2>4, <4>1 DEF TypeOK
      <4>2. CASE blame' = [blame EXCEPT ![dcur[k]] = @ \cup {"undropped"}]
        <5>1. "undropped" \in blame'[d]
          BY <2>4, <4>2 DEF TypeOK
        <5> QED
          BY <5>1
      <4>3. CASE ~sawTable[k] /\ tables' = tables
        BY <1>3, <2>1, <2>4, <4>3 DEF Blameless
      <4> QED
        BY <1>6, <4>1, <4>2, <4>3 DEF DeleteDrop, Blamed
    <3>2. Dropped(d)'
      BY <2>1, <2>3, <2>4 DEF Dropped
    <3> QED
      BY <3>1, <3>2 DEF Blameless
  <2>5. CASE d # dcur[k]
    <3>1. tables'[d] = tables[d]
      BY <1>6, <2>5 DEF DeleteDrop, TypeOK
    <3>2. Dropped(d)' = Dropped(d)
      BY <2>1, <2>2, <2>5 DEF Dropped
    <3> QED
      BY <1>1, <1>3, <2>1, <2>2, <2>5, <3>1, <3>2 DEF Blameless, Described
  <2> QED
    BY <2>4, <2>5
<1>7. CASE DeleteForget(k)
  <2>1. UNCHANGED << tables, dtodo, dnamed, sawTable >> /\ dpc[k] = "forget"
        /\ life' = [life EXCEPT ![dcur[k]] = "deleted"] /\ dcur' = [dcur EXCEPT ![k] = Home]
        /\ dpc' = [dpc EXCEPT ![k] = "next"]
    BY <1>7 DEF DeleteForget
  <2>2. \A i \in Deleters \ {k} : dpc'[i] = dpc[i] /\ dcur'[i] = dcur[i]
    BY <2>1 DEF TypeOK
  <2>3. dpc'[k] = "next"
    BY <2>1 DEF TypeOK
  <2>4. CASE d = dcur[k]
    <3>1. life'[d] = "deleted" /\ tables[d] = NoTable
      BY <1>3, <2>1, <2>4 DEF Blameless, TypeOK
    <3> QED
      BY <2>1, <3>1 DEF Blameless
  <2>5. CASE d # dcur[k]
    <3>1. life'[d] = life[d]
      BY <2>1, <2>5 DEF TypeOK
    <3>2. Dropped(d)' = Dropped(d)
      BY <2>1, <2>2, <2>3, <2>5 DEF Dropped
    <3> QED
      BY <1>1, <1>3, <2>1, <2>2, <2>3, <3>1, <3>2 DEF Blameless, Described
  <2> QED
    BY <2>4, <2>5
<1>8. CASE DeleteEnd(k)
  <2>1. UNCHANGED << life, tables, dtodo, dcur, sawTable >> /\ dpc[k] = "next" /\ dtodo[k] = {}
        /\ dpc' = [dpc EXCEPT ![k] = "idle"] /\ dnamed' = [dnamed EXCEPT ![k] = {}]
    BY <1>8 DEF DeleteEnd
  <2>2. \A i \in Deleters \ {k} : dpc'[i] = dpc[i] /\ dnamed'[i] = dnamed[i]
    BY <2>1 DEF TypeOK
  <2>3. dpc'[k] = "idle"
    BY <2>1 DEF TypeOK
  <2>4. Dropped(d)' = Dropped(d)
    BY <2>1, <2>2, <2>3 DEF Dropped
  <2> QED
    BY <1>1, <1>3, <2>1, <2>2, <2>3, <2>4 DEF Blameless, Described
<1> QED
  BY <1>4, <1>5, <1>6, <1>7, <1>8 DEF DeleteStep

(* All of it: what Next preserves.                                         *)
SyncInv ==
    TypeOK /\ Recorded /\ Columned /\ Untouched /\ Undisturbed /\ Accounted /\ Kept

(* And through a delete request's death, a job's, and the other requests.  *)
LEMMA UntouchedDeleteStep ==
    ASSUME TypeOK, Recorded, Untouched, NEW k \in Deleters, DeleteStep(k) \/ CrashDeleter(k)
    PROVE  Untouched'
<1>1. row' = row /\ \A d \in Datasets : life'[d] = "unborn" => life[d] = "unborn"
  BY DEF DeleteStep, DeleteStart, DeleteCheck, DeleteDrop, DeleteForget, DeleteEnd, CrashDeleter,
         rowVars, TypeOK
<1>2. \A d \in Datasets : tables'[d] = tables[d] \/ tables'[d] = NoTable
  BY DEF DeleteStep, DeleteStart, DeleteCheck, DeleteDrop, DeleteForget, DeleteEnd, CrashDeleter,
         tableVars, TypeOK
<1> QED
  BY <1>1, <1>2 DEF Untouched

LEMMA SyncInvCrashDeleter ==
    ASSUME SyncInv, NEW k \in Deleters, CrashDeleter(k)
    PROVE  Undisturbed' /\ Accounted' /\ Kept'
<1> USE DEF SyncInv, connVars, rowVars, tableVars, tickVars
<1>1. /\ UNCHANGED << life, row, tables, pc, ds, base, mine, alone >>
      /\ dpc' = [dpc EXCEPT ![k] = "idle"] /\ dtodo' = [dtodo EXCEPT ![k] = {}]
      /\ dnamed' = [dnamed EXCEPT ![k] = {}] /\ dcur' = [dcur EXCEPT ![k] = Home]
      /\ sawTable' = [sawTable EXCEPT ![k] = FALSE]
      /\ blame' = IF dpc[k] = "forget" THEN [blame EXCEPT ![dcur[k]] = @ \cup {"interrupted"}]
                  ELSE blame
  BY DEF CrashDeleter, Blamed
<1>2. /\ \A i \in Deleters \ {k} : /\ dpc'[i] = dpc[i] /\ dtodo'[i] = dtodo[i]
                                   /\ dnamed'[i] = dnamed[i] /\ dcur'[i] = dcur[i]
                                   /\ sawTable'[i] = sawTable[i]
      /\ dpc'[k] = "idle" /\ dtodo'[k] = {}
  BY <1>1 DEF TypeOK
<1>3. \A d \in Datasets : blame[d] \subseteq blame'[d]
  BY <1>1 DEF TypeOK
<1>4. \A d \in Datasets : /\ Deleting(d)' => Deleting(d)
                          /\ JobsOn(d)' = JobsOn(d) /\ Tabled(d)' = Tabled(d)
  BY <1>1, <1>2 DEF Deleting, JobsOn, Tabled
<1>5. Undisturbed'
  BY <1>1, <1>4 DEF Undisturbed, Mirrored, TypeOK
<1>6. Accounted'
  BY <1>1, <1>3 DEF Accounted, TypeOK
<1>7. ASSUME NEW d \in Datasets, blame'[d] = {} PROVE Blameless(d)'
  <2>1. blame[d] = {} /\ ~(dpc[k] = "forget" /\ dcur[k] = d)
    <3>1. dpc[k] = "forget" /\ dcur[k] = d => "interrupted" \in blame'[d]
      BY <1>1 DEF TypeOK
    <3> QED
      BY <1>3, <1>7, <3>1
  <2>2. Blameless(d)
    BY <2>1 DEF Kept
  <2>3. Dropped(d) => Dropped(d)'
    BY <1>2, <2>1 DEF Dropped
  <2> QED
    BY <1>1, <1>2, <1>4, <2>2, <2>3 DEF Blameless, Described
<1> QED
  BY <1>5, <1>6, <1>7 DEF Kept

LEMMA SyncInvCrashJob ==
    ASSUME SyncInv, NEW j \in Jobs, CrashJob(j)
    PROVE  Untouched' /\ Undisturbed' /\ Accounted' /\ Kept'
<1> USE DEF SyncInv
<1>1. /\ JobFrame(j) /\ UNCHANGED << row, tables >> /\ pc'[j] = "idle"
      /\ blame' = IF pc[j] = "tabled" THEN [blame EXCEPT ![ds[j]] = @ \cup {"interrupted"}]
                  ELSE blame
  BY CrashJobFrame
<1>2. ~alone'[j] /\ \A i \in Jobs \ {j} : alone'[i] = alone[i]
  BY CloseSessionFrame DEF CrashJob
<1>3. \A d : JobsOn(d)' = JobsOn(d) \ {j}
  BY <1>1 DEF JobFrame, JobsOn, Working
<1>4. \A d : Deleting(d)' = Deleting(d) /\ Dropped(d)' = Dropped(d)
  BY <1>1 DEF JobFrame, Deleting, Dropped, deleteVars
<1>5. \A d \in Datasets : blame[d] \subseteq blame'[d]
  BY <1>1 DEF TypeOK
<1>6. Untouched'
  BY <1>1 DEF Untouched, JobFrame
<1>7. Undisturbed'
  <2> SUFFICES ASSUME NEW i \in Jobs, alone'[i]
               PROVE  /\ pc'[i] \in Working /\ life'[ds'[i]] = "live"
                      /\ JobsOn(ds[i])' = {i} /\ ~Deleting(ds[i])' /\ Mirrored(i)'
    BY DEF Undisturbed
  <2>1. i # j /\ alone[i]
    BY <1>2
  <2>2. /\ pc[i] \in Working /\ life[ds[i]] = "live" /\ JobsOn(ds[i]) = {i} /\ ~Deleting(ds[i])
        /\ Mirrored(i) /\ ds'[i] = ds[i] /\ pc'[i] = pc[i]
    BY <1>1, <2>1 DEF Undisturbed, JobFrame
  <2>3. JobsOn(ds[i])' = {i} /\ ~Deleting(ds[i])'
    BY <1>3, <1>4, <2>1, <2>2 DEF JobsOn, Deleting
  <2> QED
    BY <1>1, <2>1, <2>2, <2>3 DEF JobFrame, Mirrored
<1>8. Accounted'
  BY <1>1, <1>2, <1>5 DEF Accounted, JobFrame, TypeOK, Working
<1>9. ASSUME NEW d \in Datasets, blame'[d] = {} PROVE Blameless(d)'
  <2>1. blame[d] = {} /\ ~(pc[j] = "tabled" /\ ds[j] = d)
    <3>1. pc[j] = "tabled" /\ ds[j] = d => "interrupted" \in blame'[d]
      BY <1>1 DEF TypeOK
    <3> QED
      BY <1>5, <1>9, <3>1
  <2>2. Blameless(d)
    BY <2>1 DEF Kept
  <2>3. Tabled(d) => Tabled(d)'
    BY <1>1, <2>1 DEF Tabled, JobsOn, JobFrame
  <2> QED
    BY <1>1, <1>4, <2>2, <2>3 DEF Blameless, Described, JobFrame, deleteVars
<1> QED
  BY <1>6, <1>7, <1>8, <1>9 DEF Kept

(* A request to add a dataset: nobody is at work on one that is unborn.    *)
LEMMA SyncInvAdd ==
    ASSUME SyncInv, NEW r \in Requests, NEW d \in Datasets, AddDataset(r, d)
    PROVE  Untouched' /\ Undisturbed' /\ Accounted' /\ Kept'
<1> USE DEF SyncInv
<1>0. r \in Jobs
  BY DEF Jobs
<1>1. /\ life[d] = "unborn" /\ pc[r] = "idle"
      /\ life' = [life EXCEPT ![d] = "live"] /\ pc' = [pc EXCEPT ![r] = "queued"]
      /\ ds' = [ds EXCEPT ![r] = d]
      /\ UNCHANGED << row, tables, base, mine, sawTable, deleteVars, blame, alone >>
  BY DEF AddDataset, Goto, rowVars, tableVars, histVars
<1>2. /\ \A i \in Jobs \ {r} : pc'[i] = pc[i] /\ ds'[i] = ds[i]
      /\ pc'[r] = "queued" /\ ~alone[r]
      /\ \A e \in Datasets \ {d} : life'[e] = life[e]
      /\ life'[d] = "live"
  BY <1>0, <1>1 DEF TypeOK, Undisturbed, Working
<1>3. \A e : JobsOn(e)' = JobsOn(e) /\ Deleting(e)' = Deleting(e)
             /\ Dropped(e)' = Dropped(e) /\ Tabled(e)' = Tabled(e)
  BY <1>0, <1>1, <1>2 DEF JobsOn, Deleting, Dropped, Tabled, Working, deleteVars
<1>4. Untouched'
  BY <1>1, <1>2 DEF Untouched
<1>5. Undisturbed'
  <2> SUFFICES ASSUME NEW i \in Jobs, alone'[i]
               PROVE  /\ pc'[i] \in Working /\ life'[ds'[i]] = "live"
                      /\ JobsOn(ds[i])' = {i} /\ ~Deleting(ds[i])' /\ Mirrored(i)'
    BY DEF Undisturbed
  <2>1. i # r /\ alone[i] /\ ds'[i] = ds[i] /\ pc'[i] = pc[i] /\ ds[i] \in Datasets
    BY <1>1, <1>2 DEF TypeOK
  <2>2. /\ pc[i] \in Working /\ life[ds[i]] = "live" /\ JobsOn(ds[i]) = {i} /\ ~Deleting(ds[i])
        /\ Mirrored(i)
    BY <2>1 DEF Undisturbed
  <2>3. JobsOn(ds[i])' = {i} /\ ~Deleting(ds[i])'
    BY <1>1, <1>2, <2>1, <2>2 DEF JobsOn, Deleting, deleteVars, Working
  <2> QED
    BY <1>1, <1>2, <2>1, <2>2, <2>3 DEF Mirrored
<1>6. Accounted'
  BY <1>1, <1>2 DEF Accounted, Working
<1>7. ASSUME NEW e \in Datasets, blame'[e] = {} PROVE Blameless(e)'
  <2>1. Blameless(e)
    BY <1>1, <1>7 DEF Kept
  <2>2. CASE e = d
    <3>1. tables[d] = NoTable /\ row[d].columns = NoShape
      BY <1>1 DEF Untouched
    <3> QED
      BY <1>1, <2>2, <3>1 DEF Blameless
  <2>3. CASE e # d
    BY <1>1, <1>2, <1>3, <2>1, <2>3 DEF Blameless, Described, deleteVars
  <2> QED
    BY <2>2, <2>3
<1> QED
  BY <1>4, <1>5, <1>6, <1>7 DEF Kept

(* Steps that touch neither a table nor the columns a row describes.       *)
Bystander ==
    /\ UNCHANGED << life, tables, deleteVars, blame >>
    /\ \A d \in Datasets : /\ row'[d].columns = row[d].columns /\ row'[d].physical = row[d].physical
                           /\ row'[d].status \in {row[d].status, "syncing"}
    /\ \A k \in Deleters : sawTable'[k] = sawTable[k]
    /\ \A j \in Jobs : \/ /\ pc'[j] = pc[j] /\ ds'[j] = ds[j] /\ alone'[j] = alone[j]
                          /\ base'[j] = base[j] /\ mine'[j] = mine[j]
                       \/ pc[j] \notin Working /\ pc'[j] \notin Working /\ alone'[j] = alone[j]

LEMMA SyncInvBystander ==
    ASSUME SyncInv, Bystander
    PROVE  Untouched' /\ Undisturbed' /\ Accounted' /\ Kept'
<1> USE DEF SyncInv, Bystander
<1>1. \A d : JobsOn(d)' = JobsOn(d) /\ Deleting(d)' = Deleting(d)
             /\ Dropped(d)' = Dropped(d) /\ Tabled(d)' = Tabled(d)
  BY DEF JobsOn, Deleting, Dropped, Tabled, deleteVars, Working
<1>2. Untouched'
  BY DEF Untouched
<1>3. Undisturbed'
  <2> SUFFICES ASSUME NEW i \in Jobs, alone'[i]
               PROVE  /\ pc'[i] \in Working /\ life'[ds'[i]] = "live"
                      /\ JobsOn(ds[i])' = {i} /\ ~Deleting(ds[i])' /\ Mirrored(i)'
    BY DEF Undisturbed
  <2>1. /\ alone[i] /\ ds'[i] = ds[i] /\ pc'[i] = pc[i] /\ ds[i] \in Datasets
        /\ base'[i] = base[i] /\ mine'[i] = mine[i]
    BY DEF Undisturbed, TypeOK
  <2>2. /\ pc[i] \in Working /\ life[ds[i]] = "live" /\ JobsOn(ds[i]) = {i} /\ ~Deleting(ds[i])
        /\ Mirrored(i)
    BY <2>1 DEF Undisturbed
  <2>3. JobsOn(ds[i])' = {i} /\ ~Deleting(ds[i])'
    BY <2>1, <2>2 DEF JobsOn, Deleting, deleteVars
  <2> QED
    BY <2>1, <2>2, <2>3 DEF Mirrored
<1>4. Accounted'
  BY DEF Accounted
<1>5. ASSUME NEW d \in Datasets, blame'[d] = {} PROVE Blameless(d)'
  <2>1. Blameless(d)
    BY <1>5 DEF Kept
  <2> QED
    BY <1>1, <2>1 DEF Blameless, Described, deleteVars
<1> QED
  BY <1>2, <1>3, <1>4, <1>5 DEF Kept

LEMMA BystanderSteps ==
    ASSUME SyncInv,
           \/ \E s \in Schedulers : TickStep(s)
           \/ \E r \in Requests : (\E d \in Datasets : SyncNowRead(r, d)) \/ SyncNowCommit(r)
           \/ \E d \in Datasets : IntervalElapses(d)
           \/ SetActive
           \/ UNCHANGED vars
    PROVE  Bystander
<1> USE DEF connVars, rowVars, tableVars, sessVars, tickVars, histVars, Goto, SyncInv
<1>1. ASSUME NEW s \in Schedulers, TickStep(s) PROVE Bystander
  <2>1. s \in Jobs
    BY DEF Jobs
  <2> QED
    BY <1>1, <2>1 DEF TickStep, TickStart, TickNext, TickEnd, Bystander, TypeOK, Working
<1>2. ASSUME NEW r \in Requests, NEW d \in Datasets, SyncNowRead(r, d) PROVE Bystander
  <2>1. r \in Jobs
    BY DEF Jobs
  <2> QED
    BY <1>2, <2>1 DEF SyncNowRead, Bystander, TypeOK, Working
<1>3. ASSUME NEW r \in Requests, SyncNowCommit(r) PROVE Bystander
  <2>1. r \in Jobs /\ ds[r] \in Datasets /\ row[ds[r]] \in Row /\ ~alone[r]
    <3>1. r \in Jobs
      BY DEF Jobs
    <3> QED
      BY <1>3, <3>1 DEF SyncNowCommit, Undisturbed, Working, TypeOK
  <2>2. CASE Abandon(r)
    <3>1. /\ pc[r] = "asked" /\ CloseSession(r) /\ alone[r] = FALSE
          /\ UNCHANGED << life, row, tables, deleteVars, blame >>
      BY <1>3, <2>1, <2>2 DEF SyncNowCommit, Abandon, TypeOK
    <3>2. alone'[r] = FALSE
      BY <2>1, <3>1 DEF CloseSession, TypeOK
    <3> QED
      BY <2>1, <3>1, <3>2, CloseSessionFrame DEF Bystander, Working
  <2>3. CASE ~Abandon(r)
    <3>1. /\ pc[r] = "asked" /\ pc' = [pc EXCEPT ![r] = "queued"]
          /\ row' = [row EXCEPT ![ds[r]] = [row[ds[r]] EXCEPT !.status = "syncing"]]
          /\ UNCHANGED << life, tables, deleteVars, base, mine, blame, sawTable, ds, alone >>
      BY <1>3, <2>3 DEF SyncNowCommit
    <3>2. \A d \in Datasets :
             /\ row'[d].columns = row[d].columns /\ row'[d].physical = row[d].physical
             /\ row'[d].status \in {row[d].status, "syncing"}
      BY <2>1, <3>1 DEF TypeOK, Row
    <3> QED
      BY <2>1, <3>1, <3>2 DEF Bystander, TypeOK, Working
  <2> QED
    BY <2>2, <2>3
<1>4. ASSUME NEW d \in Datasets, IntervalElapses(d) PROVE Bystander
  BY <1>4 DEF IntervalElapses, Bystander, TypeOK, Row
<1>5. CASE SetActive \/ UNCHANGED vars
  BY <1>5 DEF SetActive, vars, Bystander
<1> QED
  BY <1>1, <1>2, <1>3, <1>4, <1>5

LEMMA SyncInvInit == Init => SyncInv
<1> SUFFICES ASSUME Init PROVE SyncInv
  OBVIOUS
<1>1. Untouched /\ Undisturbed /\ Accounted
  BY DEF Init, Untouched, Undisturbed, Accounted, Working, NewRow
<1>2. Kept
  BY DEF Init, Kept, Blameless, NewRow
<1> QED
  BY <1>1, <1>2, TypeInit, RecordedInit DEF SyncInv

LEMMA SyncInvNext == SyncInv /\ [Next]_vars => SyncInv'
<1> SUFFICES ASSUME SyncInv, [Next]_vars PROVE SyncInv'
  OBVIOUS
<1>1. TypeOK' /\ Recorded' /\ Columned'
  BY TypeNext, RecordedNext DEF SyncInv
<1>2. ASSUME NEW j \in Jobs, JobStep(j)
      PROVE  Untouched' /\ Undisturbed' /\ Accounted' /\ Kept'
  BY <1>2, UntouchedJobStep, UndisturbedJobStep, AccountedJobStep, KeptJobStep DEF SyncInv
<1>3. ASSUME NEW k \in Deleters, DeleteStep(k)
      PROVE  Untouched' /\ Undisturbed' /\ Accounted' /\ Kept'
  BY <1>3, UntouchedDeleteStep, UndisturbedDeleteStep, AccountedDeleteStep, KeptDeleteStep
     DEF SyncInv
<1>4. ASSUME NEW k \in Deleters, CrashDeleter(k)
      PROVE  Untouched' /\ Undisturbed' /\ Accounted' /\ Kept'
  BY <1>4, UntouchedDeleteStep, SyncInvCrashDeleter DEF SyncInv
<1>5. Untouched' /\ Undisturbed' /\ Accounted' /\ Kept'
  BY <1>2, <1>3, <1>4, SyncInvCrashJob, SyncInvAdd, SyncInvBystander, BystanderSteps
     DEF Next, RequestStep
<1> QED
  BY <1>1, <1>5 DEF SyncInv

(* What the report builder is offered: a row that is ready is not between  *)
(* the two commits of a sync.                                              *)
LEMMA SyncInvServes == SyncInv => ServedIsBacked
<1> SUFFICES ASSUME SyncInv, NEW d \in Datasets, Visible(d), ~Deleting(d), blame[d] = {},
                    row[d].columns # NoShape
             PROVE  Described(d)
  BY DEF ServedIsBacked
<1>1. Described(d) \/ Tabled(d)
  BY DEF SyncInv, Kept, Blameless, Visible, Dropped, Deleting
<1>2. ~Tabled(d)
  <2> SUFFICES ASSUME NEW j \in JobsOn(d), pc[j] = "tabled" PROVE FALSE
    BY DEF Tabled
  <2>1. j \in Jobs /\ ds[j] = d /\ pc[j] \in Working
    BY DEF JobsOn
  <2>2. Mirrored(j)
    BY <2>1 DEF SyncInv, Accounted, Undisturbed
  <2> QED
    BY <2>1, <2>2 DEF Mirrored, Visible
<1> QED
  BY <1>1, <1>2

LEMMA SyncInvOrphans == SyncInv => OrphanNeedsCause
BY DEF SyncInv, Kept, Blameless, OrphanNeedsCause

(* load_datasets offers only what the store can serve: unless syncs        *)
(* overlapped, a sync and a delete did, a process died between two commits *)
(* or a DROP failed, an offered dataset has its table, with exactly the    *)
(* columns the catalogue lists.                                            *)
THEOREM ServedIsAlwaysBacked == Spec => []ServedIsBacked
BY SyncInvInit, SyncInvNext, SyncInvServes, PTL DEF Spec

(* drop_dataset leaves no table behind a deleted row, unless a sync        *)
(* overlapped the delete, its DROP failed and was logged, or it died.      *)
THEOREM OrphansNeedACause == Spec => []OrphanNeedsCause
BY SyncInvInit, SyncInvNext, SyncInvOrphans, PTL DEF Spec

(* Only a job on the dataset makes its row ready.                          *)
LEMMA ReadyByOwnJob ==
    ASSUME SyncInv, [Next]_vars, NEW d \in Datasets,
           row'[d].status = "ready", row[d].status # "ready"
    PROVE  \E j \in JobsOn(d) : JobStep(j)
<1> USE DEF SyncInv
<1>1. ASSUME NEW j \in Jobs, JobStep(j) PROVE j \in JobsOn(d)
  <2>1. ds[j] = d
    BY <1>1, JobStepFrame DEF JobFrame
  <2>2. pc[j] # "queued"
    BY <1>1, JobStepAlone
  <2> QED
    BY <1>1, <2>1, <2>2, JobStepAlone DEF JobsOn
<1>2. ASSUME NEW k \in Deleters, DeleteStep(k) \/ CrashDeleter(k) PROVE row' = row
  BY <1>2 DEF DeleteStep, DeleteStart, DeleteCheck, DeleteDrop, DeleteForget, DeleteEnd,
              CrashDeleter, rowVars
<1>3. \A j \in Jobs : CrashJob(j) => row' = row
  BY CrashJobFrame
<1>4. \A r \in Requests : \A e \in Datasets : AddDataset(r, e) => row' = row
  BY DEF AddDataset
<1>5. Bystander => row'[d].status \in {row[d].status, "syncing"}
  BY DEF Bystander
<1> QED
  BY <1>1, <1>2, <1>3, <1>4, <1>5, BystanderSteps DEF Next, RequestStep

(* It is the last commit of that job, whose object describes the table.    *)
LEMMA CleanSyncStep ==
    ASSUME SyncInv, [Next]_vars, NEW j \in Jobs, NEW d \in Datasets,
           pc[j] = "tabled", ds[j] = d, alone[j],
           row'[d].status = "ready", row[d].status # "ready"
    PROVE  /\ tables'[d] # NoTable /\ tables'[d].shape = row'[d].columns
           /\ row'[d].synced = "fresh"
<1> USE DEF SyncInv
<1>1. PICK i \in JobsOn(d) : JobStep(i)
  BY ReadyByOwnJob
<1>2. i = j
  BY <1>1 DEF Undisturbed
<1>3. pc'[j] # "tabled"
  BY <1>1, <1>2 DEF JobStep, Load, MarkSyncing, Fetch, Raise, RecordFailure, RecordEmpty, Flush,
     CheckTable, Recreate, WriteBatch, CommitTable, FinalCommit, CloseSession, Stale, Abandon,
     Goto, TypeOK
<1> QED
  BY <1>1, <1>2, <1>3, JobStepWrites

(* sync_dataset undisturbed from session.get to session.commit ends with   *)
(* the catalogue describing the table it wrote, whatever was there before. *)
THEOREM CleanSyncsRepair == Spec => CleanSyncRepairs
<1>1. SyncInv /\ [Next]_vars =>
        [\A j \in Jobs, d \in Datasets :
          /\ pc[j] = "tabled" /\ ds[j] = d /\ alone[j]
          /\ row'[d].status = "ready" /\ row[d].status # "ready"
          => tables'[d] # NoTable /\ tables'[d].shape = row'[d].columns
             /\ row'[d].synced = "fresh"]_vars
  BY CleanSyncStep
<1> QED
  BY <1>1, SyncInvInit, SyncInvNext, PTL DEF Spec, CleanSyncRepairs

=============================================================================
