# A TLA+ model of Report Generator

Report Generator lets people build reports over an operational database,
uploaded spreadsheets and data synced from external APIs, without writing SQL. A
FastAPI application (`apps/api`, several worker processes, each with a thread
pool) keeps its own metadata in PostgreSQL; a Next.js front end (`apps/web`)
edits reports and dashboards. This directory holds the specifications of the
parts where concurrency, failure, ordering or arithmetic decide whether a report
tells the truth, what TLC checks of them on small instances, and what is proved
of them for all instances.

Paths below are relative to `src/`; `api/` stands for `apps/api/app/` and `web/`
for `apps/web/`. `PROJECT.json` maps every definition to its lines.

- [1 Inventory](#1-inventory)
- [2 Plan](#2-plan)
- [3 Modules](#3-modules)
- [4 Runs](#4-runs)
- [5 Where code and documentation disagree](#5-where-code-and-documentation-disagree)
- [6 Proofs](#6-proofs)
- [7 What is not modelled](#7-what-is-not-modelled)

## 1 Inventory

### Connector sync (`api/services/connector_service.py`, `connector_scheduler.py`, `api/api/v1/connectors.py`)

*State*: a connector row (active or not), one catalogue row per dataset (status,
physical table name, columns, last sync), the physical table itself, and the
PostgreSQL advisory lock of the refresh loop. *Operations*: add a dataset, sync
it (by the loop or by a Refresh request), delete a dataset or the connector.
*Interactions*: every worker runs the loop; row and table are written in two
transactions on two connections; the report builder reads the catalogue, the
report reads the table. *Hard*: two syncs, or a sync and a delete, of one dataset;
a crash between the two commits; row lock and table lock taken in different
orders; a loop that must survive one failing dataset. *Correct when*: what the
builder is offered is what the table holds; tables change only as a whole; a
delete leaves nothing behind; the provider is asked no more often than due;
every sync and every tick ends, and everything due is attempted.

### Provider clients and their credentials (`api/services/connectors/`, `api/api/v1/connectors.py`)

*State*: the stored credential with what it was found to reach; nothing else
outlives a request. *Operations*: exchange a token, discover what it reaches, create
the connector, refresh, replace the token; read a dataset page by page, in one go or
by keys; match DIGI orders to sales orders. *Hard*: a provider that stops accepting
a token between two requests, a list that moves while it is walked, pages that end
exactly where the list does, limits that cut silently, four matching passes each
bounded by what the one before took. *Correct when*: what is stored was answered;
unless a limit or a moving list explains it, what is stored is what the provider
has; every fetch ends; every purchase order appears once.

### Hybrid execution (`api/services/hybrid_executor.py`, run and export routes of `api/api/v1/reports.py`, pool of `api/core/db.py`)

*State*: a pool of PostgreSQL connections, each with session state (temporary
tables, `search_path`) that outlives the request if committed; per request, the
connections it holds. *Operations*: route a report to the operational database, the
metadata database or, after staging copies, both; export. *Hard*: state left on
pooled connections, failures in the middle of a copy, requests that each hold one
connection and wait for a second. *Correct when*: a report joins complete copies
of its own making, no connection leaks, every request ends.

### From a report to figures (`api/domain/report/engine.py`, `join_planner.py`, `fanout.py`, `compiler.py`; `api/domain/schema/registry.py`)

*State*: none between calls. *Operations*: from selected tables and, perhaps, declared
joins to a join tree with diagnostics; per branch of the tree, how aggregates are
computed; the SQL. *Hard*: shortest paths with ties, a list of declared joins consumed
while iterated, loops, stale relationship ids; nested one-to-many edges, several
branches, filters and outer joins in combination: a wrong total looks plausible.
*Correct when*: an accepted plan is a tree over the selected tables; a join nobody
declared was the only cheapest way; a report without a warning shows what counting
the records shows.

### Connections and their caches (`api/services/connection_service.py`, `schema_service.py`, `api/adapters/factory.py`, `api/api/v1/connections.py`)

*State*: saved connections and the setting that names the live one, in the metadata
database; engines and schema snapshots, cached per worker process, and a lock per
worker. *Operations*: create, update, activate, delete, rescan; every report asks
for the live connection four times. *Hard*: caches that only the worker handling a
change empties; the live connection changing within a request; check-then-act in
update and delete. *Correct when*: a report runs on a connection that was live
during it; a snapshot belongs to the connection it is kept for; what is saved
cannot write; the setting names something that exists.

### Web report builder and saved reports (`web/store/builder.ts`, `web/app/(app)/reports/*`, `api/api/v1/reports.py`)

*State*: one store per tab (definition, report id, dirty flag), per-page state (row
total, pending requests), the saved reports on the server. *Operations*: some twenty
edits, open, save, save as, the Save Report screen, rename, duplicate, delete,
count. *Interactions*: callbacks of requests write the store whenever they arrive,
on whatever page is open. *Hard*: late and reordered answers; pages left while
their save is pending; many edits that must each keep references intact. *Correct
when*: no report refers to what it does not contain; a tab that does not say
"Unsaved" shows something that was saved; a save goes to the report that was opened.

### Dashboards (`api/api/v1/dashboards.py`, `api/domain/dashboard/`; `web/app/(app)/dashboards/`, `web/store/dashboard.ts`)

*State*: saved dashboards, one of each application the default; a store per tab and
react-query's copies. *Operations*: preview the cards, show a panel, create, update,
open, archive; edit, Save, Save As, Leave in a tab. *Interactions*: cards and panels
become reports over the window of the dashboard's range. *Hard*: dates that turn and
rows that move between the queries of one answer; filters that reach some panels and
not others; refetches and late answers that load an older copy over newer edits; a
flag that must be unique across rows written by overlapping transactions. *Correct
when*: every number and panel says what it was measured over; an application has
one default; a save undoes no earlier save.

### Uploads, sign-in and audit (`api/domain/uploads/parser.py`, `api/services/upload_service.py`, `api/api/v1/uploads.py`, `auth.py`, `api/core/deps.py`, `security.py`)

*State*: a row and a table per upload; sessions; the hash-chained audit log; the
worker's event loop and connection pool. *Operations*: parse a file, store it, preview,
delete; sign in and out; the check and the audit entry of every request. *Hard*: the
row and the table are committed apart; `upload_file` is a coroutine that blocks the
loop while it holds a connection and waits for a second; the audit entry of a change
is committed after it and given up in silence; the tail of the log read without a
lock; types inferred from a sample. *Correct when*: rows and tables match; the trail
tells what the catalogue shows; nothing a file held is lost without a warning; the
chain forks only under overlap; every request ends.

### Other parts

| Part | State | Behaviours worth checking | Here |
|---|---|---|---|
| Start-up (`main.py`, `core/db.py`) | the schema itself | several workers creating, altering, seeding | planned |
| Resolver, validator, live validation | none | stale diagnostics applied to a newer definition | planned |
| Schema overrides | override rows | fields lost on rebuild | planned |
| Report board | a cache of counts per worker | stale counts | planned |
| SQL guard, exporters, AI assistant, other pages, deployment | none, or forms over the routes above | | not modelled, see [7](#7-what-is-not-modelled) |

The main hazards these components are exposed to are listed in `PROJECT.json`, each
at its line with the properties that would catch it; further ones, which no
property covers, are in [8](#8-further-hazards).

## 2 Plan

Most important first: what can make a report quietly wrong, then what can lose
someone's work, then the rest.

| # | Module | Composes / abstract specification | Proofs | State |
|---|---|---|---|---|
| 1 | `ConnectorSync` | refines `DatasetStore` | all its safety properties and the refinement | checked and proved |
| 2 | `SyncFetch`, `ConnectorSetup` | the fetch `ConnectorSync` takes as one step, under the life of its credential | types, `StoredWasAccepted`, `WholeUnlessCut`, `ShiftNeedsCause` | checked and proved |
| 3 | `HybridPool` | | `TypeOK`, `ReadsOwnStaging`, `NothingLeaks` | checked and proved |
| 4 | `ReportBuild` | `JoinPlanner`, then `FanoutCorrection` on its tree | `UsablePlan`, `OnlyForcedJoins`, `HonestTotals` | checked and proved |
| 5 | `ActiveConnection` | | all its properties | checked and proved |
| 6 | `ReportEditor` | | all its properties | checked and proved |
| 7 | `Dashboards` | the routes, one builder tab with its cache, two other clients | both its properties | checked and proved |
| 8 | `DashboardView` | | all its properties | checked and proved |
| 9 | `Uploads` | `AuditChain`, `UploadParser` | `TypeOK` and all its safety properties | checked and proved |
| 10 | `DigiMatch` | | all its properties | checked and proved |
| 11 | `Startup` | | | planned |
| 12 | extensions: engine details in `ActiveConnection`; validation, preview and joins in `ReportEditor`, a second user; overrides; the board's cache | | | planned |

## 3 Modules

**`ConnectorSync`** – one action per step between two points where another process
can get in: `Load`, `MarkSyncing` (committed before the fetch), `Fetch`,
`RecordFailure`/`RecordEmpty`, `Flush` (a first sync flushes its row and so holds
the row's lock), `CheckTable`, `Recreate`, `WriteBatch`, `CommitTable`,
`FinalCommit`; the loop is `TickStart`, `TickNext`, `TickEnd`; a delete is
`DeleteStart`, `DeleteCheck`, `DeleteDrop`, `DeleteForget`, `DeleteEnd`. An ORM
session is the row as it was loaded (`base`) and the object (`mine`); a flush
writes the attributes that differ (`Merge`) and fails when the row is gone. Rows
of data are a column list and the number of batches inserted. `blame` and `alone`
are history: which disturbance (an overlap, an interrupted process, a failed DROP)
a dataset has met since its last undisturbed sync.

**`DatasetStore`** – what readers of the tables may rely on: complete contents,
replaced or dropped as a whole, of recorded datasets.

**`SyncFetch`** – what `ConnectorSync` takes as one fetch, request by request. A dataset is
the way its client reads it: by cursor (Meta), by a URL with a page number (Shippo),
by offset (S&S), by page index (RIIN), in one go, by batches of recorded identifiers,
by a census of endpoints, from a fixed table or from a query of the operational
database. `NextCursor` is what each client returns with a page, `Take` the row limit,
`RequestPage` the page limit. The provider (external) holds a list of records, newest
first, that changes under the walk; a page is a set of records, and `AsRows` puts their
rows in the order of the list. A *stubborn* provider ignores which page it is asked
for and says for ever that there is more. `asked`, `steady` and `moved` are history.

**`ConnectorSetup`** – extends it by the life of the credential: the requests of each
client's `discover()`, in order and with what the failure of each means (`Probes`),
the exchange, `Store`, refreshing, `Replace`, and then one fetch by a client built
from what is stored. The provider may stop accepting a token between any two steps.

**`DigiMatch`** – one action is one DIGI order's turn in one of the four passes of
`match()`: exact links, likely ones, orphans, rows. What the queries returned is the
constant-bounded input `in`; dates are half days, and of names and ZIP codes only how
well they fit.

**`HybridPool`** – requests, the pool's queue and the session state of each
connection, both as committed (`conn`) and as the open transaction sees it (`tx`);
returning a connection rolls back what was not committed and keeps what was. A
copy is `none`, `part`, `whole` (this run's) or `left` (an earlier run's).

**`ReportBuild`** – `ReportEngine.build`: `Plan` is `JoinPlanner`'s steps, `HandOver` passes the
accepted tree on, and `Compile` is `FanoutCorrection`'s. The fan-out is so checked on exactly
the trees the planner can return.

**`JoinPlanner`** – `plan` pass by pass: declared joins (`BeginPass`, `PlaceJoin`,
`PassOver`, `EndExplicit`) or growth from the root, then `CheckSize`. A round of growth is
`_shortest_paths` step by step: `Visit` takes the nearest table from the queue, `Relax` looks
at one step out of it; then `NoPath`, or `Aim` at the nearest table wanted, `WalkBack` along
every way in that was kept, `Choose` one walk (and report that there were several), and
`PlaceEdge` until the path is placed. The code searches once for each table wanted; those
searches differ in nothing but the walk at their end, so the model makes one.

**`FanoutCorrection`** – the annotation of the tree, the strategy per branch and the
rows the generated statement returns, computed on an actual small database: tables
of two rows, every way to link them. COUNT, SUM and AVG of a column follow from how often
each record enters, so that is what a figure is (`Total`). A join is the set of rows that
are consistent with its steps (`Joined`, `Linked`); a derived table is what the steps
without a one-to-many edge put beside the table it is grouped for (`Grain`), and derived
tables within one another are `Layers`: a record enters the outermost total once for each
way in, a row of every layer on the key of the layer around it (`SubEntries`). A NULL total is taken
for an empty one, and reports without aggregates are outside (the code makes no
correction there).

**`Dashboards`** – the routes (a request begins, may clear the other defaults, commits or
fails), one builder tab (store, page, URL, cache, every fetch on its way) and clients
that only use the routes. A definition is the set of edits it contains, so that an edit
that disappears can be seen. Several transactions of a client follow one another, those
of different clients overlap. `blame`, `src` and `restored` are history: which applications
have met an overlap or a move of a default, where the tab's copy is from, and which
edits a write has put back after another had dropped them.

**`DashboardView`** – `Resolve` and `Before` are the arithmetic of ranges, `MetricReport` and the
panel's counterpart the translation into a report; a preview measures its cards one
query after the other (`step`), while rows come and go and midnight may pass. A
condition is the set of rows that meet it, a number the set of rows it counts, and the
children of a group are the set of its conditions: in which order they are written, and
that one is written twice, changes nothing about which rows pass.

**`UploadParser`** – `parse` as operators: names of headings, type inference from a sample,
coercion of each cell, limits and the warning. A cell is one of ten, told apart by
the types that can read it.

**`AuditChain`** – reading the tail, inserting with an id of the sequence, committing or
losing an entry. A hash is stood for by the row it was made of; `told` is the actions
and resources of the committed entries, and `lost`, which is history, those of the
entries that were given up.

**`Uploads`** – extends it by requests of five kinds on workers with an event loop and a
connection pool: signing in, the check every route makes (two statements, between which
the session may go), the route's own steps, the audit entry, and the closing of the
session by the loop. `mishaps` is history: uploads whose two commits a failure or a
crash has separated. Entries about sign-in and sign-out take part in the chain, but
nothing is kept of what they tell.

**`ActiveConnection`** – requests in worker processes; every read of the setting,
of a row, of a cache is a step. A request's locals are the record `my[r]`. An
engine stands for the connection it was made for. `active`, `tainted`, `merged`
and `crossed` are history.

**`ReportEditor`** – one tab. A definition is its primary table, tables, columns,
sorts, groupings and filters as sets, and one bit (`look`) for everything that
refers to nothing. Each store operation is an action built on `Edit`, whose
`Becomes` is what every edit does (new definition, dirty, the total forgotten; each
count on its way keeps the definition it was asked for and notes that it has been
overrun, `Overrun`). A
save is a record that goes from the request (`Ask`) over the route (`Store`) to
its answer (`Answered`) or its loss. Its `callback` is `Live` while the page that
sent it is mounted – the library replaces a mutation's callbacks at every render,
so it sees the latest definition – and frozen with what the page rendered last
once the page has been left (`Left`). Counts are dropped with the builder page,
openings and "+ all" requests are not. `origin`, `held`, `blame` and `late` are
history: where the open definition was loaded from, every definition a report has
had, what came between the editor and the server, and whether the total on the page
is of a count that was answered after the definition had changed.

The `MC*` modules give the constants values; the `*Proofs` modules hold theorems.
`Name_Variant` definitions beside a definition are plausible mistakes in it; no
specification uses them. They serve to confirm that each property would notice.

## 4 Runs

| Run | Instance | Shows | Distinct states |
|---|---|---|---|
| `connector_store` | one dataset, a loop, a Refresh request, a delete, two column lists, two batches, one crash | `ServedIsBacked`, `OrphanNeedsCause`, `CleanSyncRepairs`, refinement of `DatasetStore` | 4.2 million |
| `connector_loop` | two loops beside a Refresh request, two datasets, one of a kind no longer offered, one crash; fair | `QuotaRespected`, `DueIsAttempted`, `SyncsEnd` | 317 thousand |
| `setup_client` | all four providers, all nine ways of reading, pages of two, three pages, seven rows, four identifiers, two changes; fair | `StoredWasAccepted`, `WholeUnlessCut`, `ShiftNeedsCause`, `FetchEnds` | 213 thousand |
| `digi_match` | two orders, two sales orders, two orphans, 8 748 inputs | `EveryPoShownOnce`, `UnmatchedFitsNothing`, `TieIsTold` | 114 thousand |
| `hybrid_pool` | two requests, a pool of two connections, reports of all three routes, also with bridge tables; fair | `ReadsOwnStaging`, `NothingLeaks`, `RequestsEnd` | 94 thousand |
| `build_engine` | all registries on four tables with two costs and a parallel edge, all selections, all orders of five declared joins with a loop, a stale id and an unknown pair; on each accepted plan of up to two joins all cardinalities, all reports with aggregates, all links of two rows per table | `UsablePlan`, `OnlyForcedJoins`, `HonestTotals` | 2.8 million |
| `connections_switch` | two workers, two requests at a time and four in all, one saved connection, hosts and logins of which one pair can write | `TypeOK`, `ReportsFollowSwitch`, `SnapshotNeedsCause`, `SavedIsSound` | 910 thousand |
| `editor_session` | two tables with a column each, two reports, five things the user does | `TypeOK`, `RefsIntact`, `CleanIsSaved`, `OpenIsWhatItSays`, `WrongTotalNeedsLateCount` | 644 thousand |
| `dash_store` | two dashboards, two applications, one tab and two other clients, two writing requests, one edit | `TwoDefaultsNeedCause`, `SavedEditsUndoneNeedCause` | 4.0 million |
| `dash_view` | 1 632 dashboards over seven rows dated differently in two tables (one without a date), one midnight, one row that comes or goes | `ComparedWithThePeriodBefore`, `NumbersTellTheirTruth`, `PanelAccountsForItsRows`, `ShareIsPart` | 256 thousand |
| `uploads_requests` | three requests, two at a time, one worker with two connections, one session, seven files, one crash; fair | `TablesMatchRows`, `TrailTellsCatalogue`, `ForkNeedsOverlap`, `FileSurvives`, `RequestsEnd` | 511 thousand |
| `build_NoSilentInflation` | the plans of `build_engine`, unfiltered reports | a counterexample, see [5](#5-where-code-and-documentation-disagree) | |

The type invariants of `ConnectorSync`, `SyncFetch`, `ConnectorSetup`, `DigiMatch`,
`HybridPool` and `Uploads` hold in these instances, but no run lists them. Those of
`ConnectorSync`, `SyncFetch`, `DigiMatch`, `HybridPool` and `Uploads` are proved, and so are
the types of what `ConnectorSetup` adds to `SyncFetch` (`SetupTyped`).

**Bounds and why they are enough.**
- *Connector sync*: three processes on one dataset cover every pair of overlapping
  operations and a third that meets their leftovers. Two column lists tell "the
  columns described" from "the columns there"; two batches tell a half-filled table
  from a full one; a crash may be at any step and `blame` spreads no further than
  its dataset. Column lists are symmetric. In `connector_loop` the advisory lock
  lets one of the two loops sync at a time; the Refresh request takes no such lock,
  so its sync meets a scheduled one of the same dataset at the row and at the table,
  first syncs included, and it also refreshes datasets a loop has on its list. There
  are two datasets, because one must be able to fail for ever. Its VIEW leaves out
  `blame` and `alone`, which no step and none of its properties reads. `SyncsEnd` was
  checked with a delete in place of the second loop and the second dataset too (230
  thousand states).
- *Provider clients*: lists of none to six records fall before, on and after the ends of
  pages of two; nested lists of none, one and two entries; three pages and seven rows let the page limit
  bite in one walk and the row limit in another; batches of two out of at most four
  identifiers make one and two keyed requests, and five recorded ones exceed the
  limit. Two changes allow a removal to hide what an addition shows.
- *DIGI*: two of each suffice for a tie, a rival claim, a reorder and an orphan
  wanted twice; the dates fall on both sides of each limit in days.
- *Hybrid pool*: the pool (one kept, one overflow) is smaller than the demand of
  two mixed reports, so exhaustion and mutual waiting happen; temporary tables of
  earlier runs are met by later ones because requests never stop coming.
- *Report build*: four tables allow two routes of different length and cost, ties and
  loops; `MaxJoins = 2` makes the size check refuse some plans. Three tables in a
  report allow a nested and a forked pair of branches; two rows per table suffice for
  a record to be counted twice, and for one to be unmatched. `MaxWalk` is the code's
  twelve; no walk over four tables is that long.
  Walks that are cut short were checked with a depth of one, and are covered by the proof.
- *Connections*: `MaxRequests = 4` allows two reports and two administrator's
  operations in every overlap, and a request that finds what two others left.
  One create at a time is under way, as one free id exists.
- *Editor*: `MaxActs` bounds what the user does, not the answers. The longest
  shortest counterexample of a mutation takes four acts; five leave one to
  spare, and a run with six (9.3 million states, four minutes) agreed on
  an earlier count of its edits.
- *Dashboards*: two writing requests make every overlap of two transactions, and one
  after the other; dashboards, applications and other clients are symmetric. Reads
  are not bounded. A third request exceeds what can be explored in minutes, and two do
  not reach the case `restored` is for: a client drops an edit, another writes it back from
  an older copy, and the tab, which read in between, writes its own. A longer run met it
  with four; the proof of [6](#6-proofs) has no bound on requests.
- *Dashboard view*: rows lie in the window, in the one before, on the border days and
  outside, differently by each of the two dates; one midnight between any two queries.
- *Uploads*: two requests at a time on two connections exhaust the pool when one is an
  upload; three let two deletions of one upload overlap. One file has a column for every pair of cell kinds in the sample with a third
  row that may not fit; others exceed the limits of rows and columns, are ragged, or
  have headings that read like made-up names.

**Fairness.** Assumed only for the program's own steps, never for a user's. In
`ConnectorSync`, strong for sync and delete steps, because PostgreSQL serves those
who wait for a lock in their order of arrival, so whoever is again and again able
to go on does; weak for the loop, which comes round every `TICK_SECONDS`. In
`ConnectorSetup`, weak for the fetch as a whole: a request is answered or times out.
In `HybridPool`, weak for each request's steps: databases answer or drivers give up,
and `pool_timeout` bounds the wait for a connection. In `Uploads` the same for a
request's own steps, and strong for what the event loop does for it (starting it,
closing its session): the loop takes what is ready in turn, although an upload may
keep it busy in between. Provider calls have time-outs (`Fetch` may always fail).
Crashes are never obliged to happen.

**Deadlock** is not checked in `ConnectorSync` (deleting the connector leaves nothing to
do), `ConnectorSetup` (one fetch ends the run) and in `Dashboards` and `Uploads` (their
requests are bounded). It is checked everywhere else; `JoinPlanner`, `ReportBuild` and
`DigiMatch` end in a step that repeats itself, which only a finished computation can take.

**What a cause means.** Several properties say that a bad state "needs a cause":
that state is reachable in the code, and the property pins down by which races
and by no others (an overlap of two syncs or of two transactions that each make a
default, a crash between commits, a switch within a scan, two updates at once, a
change under a pending save, a copy out of the cache, entries written at the same
time). Each of those races is also a hazard, in `PROJECT.json` or in [8](#8-further-hazards).

## 5 Where code and documentation disagree

Kept as a run that must fail: `build_NoSilentInflation` – a total over a table that
several root records share (a many-to-one edge) is repeated, and nothing warns,
against `ARCHITECTURE.md:336`.

Stated in the modules but listed by no run; TLC refutes each when it is added to the
run named:

| Definition | Run | What the code does, against what the documentation says |
|---|---|---|
| `ConnectorSync!FailedSyncStillServes` | `connector_store` | A failed sync sets status `error`, and `load_datasets` offers only `ready` datasets: the data stays in place, but no report can reach it (`api/services/connector_service.py:17`: "A report showing yesterday's figures is a report someone can still use"). |
| `HybridPool!ExportFindsTables` | `hybrid_pool` | Exports are always sent to the operational database, so a report on uploads, synced or mixed tables cannot be downloaded. |
| `ReportEditor!SavedInPlace` | `editor_session` | The builder's Save sends only name and definition, and `update_report` resets where the report is filed and who sees it (`web/app/(app)/reports/builder/page.tsx:262`: "A report that already exists saves in place"). |
| `ReportEditor!TotalIsCurrent` | `editor_session` | A count that is answered after an edit shows the total of the older definition (`web/app/(app)/reports/builder/page.tsx:213`: "a total computed for the old one would be quietly wrong"); `WrongTotalNeedsLateCount` says that nothing else does. |
| `DigiMatch!HintIsTrue` | `digi_match` | A row's hint at purchase orders without a DIGI order (`digi_match.py:388`) is written before later turns take them. |
| `Uploads!NamesAreUnique` | `uploads_requests` | Headings a, a_1, a become a, a_1, a_1 (`parser.py:91`: "guaranteeing identifiers are unique"), and the upload is refused by the database. |
| `AuditChain!ChainIsOneLine` | `uploads_requests` | Two entries written at the same time name the same predecessor; one of them no later hash depends on (`security.py:143`). |
| `DashboardView!PanelIsTheReportNarrowed` | `dash_view` | A panel's conditions joined by OR are joined by AND as soon as the dashboard adds one (`builder.py:109`: "AND the panel's own filters together with the dashboard's"). |
| `DashboardView!StatesWhatItMeasured` | `dash_view` | A card with no date field states the window it was not limited to (`dashboards.py:8`: "every panel reports its own truth"). |

Other divergences met on the way:

- *UploadParser*: `infer_type` looks at the first 500 rows; a later cell that does not fit is
  stored as NULL without a warning, against `parser.py:211` ("rather than silently
  dropping that row's value"). `FileSurvives` sets these cells aside (`i > SampleRows`).
- *HybridPool*: the temporary tables of a mixed report are committed on a pooled
  connection (`hybrid_executor.py:165-176`). The next mixed report on that connection
  that stages a table of the same name fails in `staged.create` (`cause = "exists"`),
  although lines 14-15 promise that session tables vanish and never collide.
  A bridge table of the other kind stages a report that was compiled with schema
  names; a table renamed for its namesake cannot be copied.
- *JoinPlanner*: of two tables equally near the tree, the one selected first is
  joined, and the other may then hang below it at the same total cost; nobody is
  asked (`join_planner.py:227`, against `ARCHITECTURE.md:313`). Which join of a
  declared loop is left out depends on the list's order, not on cost (`:13`).
- *FanoutCorrection*: a filter that shares a pre-aggregated branch with the
  aggregate restricts nothing above it; OR across a branch turned into an
  existence check becomes AND; an INNER join inside a corrected branch is lost.
  `HonestTotals` sets these aside by name (`FiltersApart`, `report.any`, `InnerApart`).
- *ReportEditor*: (a) open a report, Save, "Start a new report" before the answer:
  the empty definition gets the report's id, shows as saved, and the next Save
  overwrites the report with it (`OpenIsWhatItSays` blames `"reloaded"`).
  (b) An edit under a pending save is marked clean without having been saved
  (`CleanIsSaved` blames `"changed"`). (c) Save As while a save is pending: the
  answer gives the copy the original's id, and the Save Report screen then updates
  the original. (d) A count answered after an edit shows the older definition's total
  (`TotalIsCurrent`, above).

## 6 Proofs

| Theorem | States |
|---|---|
| `ConnectorSyncProofs!TypeCorrect` | `Spec => []TypeOK` |
| `ConnectorSyncProofs!ServedIsAlwaysBacked` | `Spec => []ServedIsBacked` |
| `ConnectorSyncProofs!OrphansNeedACause` | `Spec => []OrphanNeedsCause` |
| `ConnectorSyncProofs!CleanSyncsRepair` | `Spec => CleanSyncRepairs` |
| `ConnectorSyncProofs!QuotaIsRespected` | `Spec => QuotaRespected` |
| `ConnectorSyncProofs!TablesChangeWhole` | `Spec => StoreSpec`: `ConnectorSync` implements `DatasetStore` |
| `ProviderProofs!StoredWorked` | `SetupSpec => []StoredWasAccepted` |
| `ProviderProofs!FetchTypeCorrect` | `SetupSpec => []FetchTypeOK`, with the limits on pages, rows and identifiers |
| `ProviderProofs!FetchIsWhole` | `SetupSpec => []WholeUnlessCut` |
| `ProviderProofs!ShiftsHaveCauses` | `SetupSpec => []ShiftNeedsCause` |
| `ProviderProofs!MatchTypeCorrect` | `Spec => []TypeOK` of `DigiMatch` |
| `ProviderProofs!EveryPoIsShownOnce` | `Spec => []EveryPoShownOnce` |
| `ProviderProofs!UnmatchedFitNothing` | `Spec => []UnmatchedFitsNothing` |
| `ProviderProofs!TiesAreTold` | `Spec => []TieIsTold` |
| `HybridPoolProofs!PoolTypeCorrect` | `Spec => []TypeOK` |
| `HybridPoolProofs!ReportsReadOwnStaging` | `Spec => []ReadsOwnStaging` |
| `HybridPoolProofs!NothingEverLeaks` | `Spec => []NothingLeaks` |
| `ActiveConnectionProofs!TypeCorrect` | `Spec => []TypeOK`, with: only a scan under way holds a worker's snapshot lock |
| `ActiveConnectionProofs!ReportsFollow` | `Spec => []ReportsFollowSwitch` |
| `ActiveConnectionProofs!SnapshotsFollow` | `Spec => []SnapshotNeedsCause` |
| `ActiveConnectionProofs!SavedStaysSound` | `Spec => []SavedIsSound` |
| `ReportEditorProofs!TypeCorrect` | `Spec => []TypeOK` |
| `ReportEditorProofs!NothingDangles` | `Spec => []RefsIntact` |
| `ReportEditorProofs!CleanShowsSaved` | `Spec => []CleanIsSaved` |
| `ReportEditorProofs!SavesWhereItCameFrom` | `Spec => []OpenIsWhatItSays` |
| `ReportEditorProofs!WrongTotalsAreLate` | `Spec => []WrongTotalNeedsLateCount` |
| `DashboardsProofs!TwoDefaultsAreBlamed` | `Spec => []TwoDefaultsNeedCause` |
| `DashboardsProofs!UndoneEditsHaveCause` | `Spec => SavedEditsUndoneNeedCause` |
| `ReportBuildProofs!PlanIsUsable` | `Spec => []UsablePlan` |
| `ReportBuildProofs!JoinsAreForced` | `Spec => OnlyForcedJoins` |
| `ReportBuildProofs!TotalsAreHonest` | `BuildSpec => []HonestTotals` |
| `ReportBuildProofs!BuildIsUsable` | `BuildSpec => []UsablePlan` |
| `ReportBuildProofs!BuildIsForced` | `BuildSpec => OnlyForcedJoins` |
| `DashboardsProofs!ComparisonsAreWithThePeriodBefore` | `ViewSpec => []ComparedWithThePeriodBefore` |
| `DashboardsProofs!NumbersAreTrue` | `ViewSpec => []NumbersTellTheirTruth` |
| `DashboardsProofs!SharesAreParts` | `ViewSpec => []ShareIsPart` |
| `DashboardsProofs!PanelsAccountForTheirRows` | `ViewSpec => []PanelAccountsForItsRows` |
| `UploadsProofs!RequestsTypeCorrect` | `Spec => []TypeOK` |
| `UploadsProofs!CatalogueMatchesTables` | `Spec => []TablesMatchRows` |
| `UploadsProofs!ForksAreOverlaps` | `Spec => []ForkNeedsOverlap` |
| `UploadsProofs!TrailAgreesWithCatalogue` | `Spec => []TrailTellsCatalogue` |
| `UploadsProofs!FilesSurvive` | `Spec => []FileSurvives` |

They hold for all sets of datasets, workers, requests, connections, tables, columns,
reports, dashboards, clients, rows, files, registries, lists of joins and databases, and for all
bounds: where a run of [4](#4-runs) stops at two dashboards, three requests or two rows
per table, the theorem does not. They
assume the modules' named `ASSUME`s only, which TLC evaluates in every run:

- special values (`NoTable`, `Nobody`, `None`, `NoDay`, `New`, `Live`, ...) are not among
  the values they stand beside, and bounds are numbers;
- the sets that the code never has empty are not (`Reports # {}`, `Workers # {}`,
  `Tokens # {}`, `Rows # {}`, `Datasets # {}`): a record of a request has to be of
  something to have a type;
- the report stored at the start of `ReportEditor` is whole;
- the list of sales orders is finite (`IsFiniteSet(Sales)` in `MatchAssumption`): the best
  of infinitely many need not exist;
- a registry is finite, its relationships have ids of their own, two different tables and a
  cost above zero; no table is wanted twice; `query_max_joins` is at most the depth at
  which `_walk_back` gives up (eight and twelve in the code; a deployment that raises the
  first above the second loses `UsablePlan`);
- a relationship seen from the tree repeats rows or not, and is joined by INNER or LEFT; a
  report has an aggregate; the rows per table are a number;
- a spreadsheet is a sequence of headings and of rows of the ten kinds of cell;
- `DigiMatch` is given what its queries may return, DIGI orders in the order of their
  dates; `DashboardView` definitions of their type (`BoardsAssumption`), with rows that may
  lack a date.

Each proof has the same plan: an invariant that says of every process what is so at
the step it is at, a lemma per action that it is kept, and the property from it. Below
is why the property alone is not enough. TLC checks each of these invariants on
the instances of section 4 too, if it is added to the run (`NoWayLost` of the planner speaks
of all sequences of steps, which TLC needs bounded, by the number of tables; with that,
`BuildInv` was checked with fewer registries and reports, 625 thousand states).

**ConnectorSync** (`SyncInv`). What a delete or a sync believes may be out of date, so the
invariant is about the datasets nobody interfered with. `Kept` says of a dataset with
nothing to its blame that catalogue and store agree, but between the two commits
of a sync (`Tabled`) or of a delete (`Dropped`), and that a delete request that will not
look again is right about the table. It needs `Undisturbed`: a job that met nobody is the
only one on its dataset, and the session it loaded still mirrors the row (`Mirrored`);
and `Accounted`: who is not alone has been blamed. `Recorded`, `Columned` and `Untouched`
say where datasets and columns come from. The quota is an invariant of its own (`Quota`):
whoever has datasets on its list, or is at one, holds the advisory lock, and the dataset it
is at is off its list; so no other loop's sync, only a Refresh request's, can make a listed
dataset fresh. The
refinement maps each of the job's and delete's steps to a replacement, a drop or a
stutter, and needs of the invariant only that what a job writes has columns and belongs
to a recorded dataset.

**Provider clients.** `SetupInv` says what each point of `discover()` has been answered
with: past a request it cannot do without, or past the last of several alternatives, the
token it has now has been accepted, and the exchange comes before all of them. That
the four clients have no third way of asking is `WaysOfAsking`, read off `Probes`. For
`DigiMatch`, `MInv` says what each pass has left: an order matched by name has the
best of what fits it (`ByName`), an orphan an order has is claimed and is in one order
only (`Adopted`, `Alone`), an unmatched order has been tried for all that fit it (`Unfit`), and
the rows written name what their orders are linked to (`RowsNamed`). That "the best" and "the
first" exist (`BestIn`, `FirstIn`) rests on `LeastNatural`: a set of numbers that is not empty
has a least, from the library's well-foundedness of `<`. The two parts share no
variable and no step; they are in one module because they are one component.

**HybridPool** (`PoolInv`). A request may change the session state of a connection it
holds, so everything rests on `Owned`: no connection is in the queue twice, queued and
held, or held by two. `Phased` says between which steps a request holds which
connection, and `Staging` that every operational table staged so far is on the
executor's connection, whole. What an earlier request has left there is never read
because a table that exists makes the staging fail.

**ActiveConnection.** `ReportsFollowSwitch` alone is not inductive: what a request
has read of the setting two steps ago decides what it will run on. `IInv` adds that
an adapter is kept only under its own connection (`AdaptersKeyed`), that ids read
or set were once saved (`NamesKnown`), which step a request can be at with which
locals (`Placed`), and at each step what of its reading was live (`Follows`).
A commit that changes the live connection adds the new one to what was live. For the
snapshots and what is saved, `KInv` adds what a scan is about to store, and under which
key (`Scan`), and that what is about to be committed has been probed or looked up
(`Judged`): a delete about to commit although its connection is the live one is known
to have been crossed by an activation.

**ReportEditor.** `Base` (types and `RefsIntact`) is inductive together: an edit is a
definition only because the definition it edits is whole. `EditsMade` reduces
some fifteen store operations to "an intact definition, by `Becomes`". The two
history invariants need `History`: what is stored, read or written is in the
report's history (`Recorded`); a save's callback will load what the save sent, for
the report it came from, unless it was overtaken (`Sound`); the mounted page has
one save at a time (`Mounted`), so that an answer in place overtakes no other.
`OverAccounted`, `LeftAccounted`, `LoadAccounted` and `GoAccounted` say what
rendering, leaving, loading and navigating do to all pending saves; each action
then takes a few lines. For the total, `CountsOK` adds that a count under way for
another definition than the present one knows that it was overrun; every step but
asking for a count and its answer either forgets the total or leaves it and the
definition alone (`Aside`).

**JoinPlanner** (`IInv`). `SearchOK` is the search between any two of its steps: no table is
nearer than a visited one, every step out of a visited table has been looked at or is
about to be, and `pred` has the ways in that are tight and no others (costs above zero, so
that a table's ways in are all found before it is visited). `WalkOK` and `NoWayLost` say that each walk
back is the end of a cheapest path and that no cheapest path is without its walk.
`JoinsAreForced` compares that with the reference, all routes from the tree without a table
twice: a route's length is at least its end's distance (`RouteLength`), one that is as short is a way
the search has kept (`RouteKnown`), and the walk that was taken is a route itself
(`IsRoute`). `TreeOK` is the tree with the path that is being added: each step leads from the tree to a new
table, unless the plan has more steps than a walk may have (`TooLong`), which `CheckSize` will refuse.
`DeclaredOK` counts steps and joins left over, and knows a pass as a part of what was pending.

**The fan-out correction** (`BuildInv`). The planner's invariant makes what is handed over a
tree (`Tree`): each table is the target of one step, so that two ways to a table do not exist
(`OneStepTo`), what is below a table is reached by one of its steps (`BelowIs`), and a table has one branch
(`OneBranch`). The rest of `BuildInv` says what each stage has computed from it. The totals
are compared through single records. In an aggregated branch every edge to the table leads
one-to-many, so a record of it has one chain of records up to the root (`RowHasChain`,
`OneChain`); an entry of the rolled-up total is such a chain with whatever is joined beside it at
each layer, which is one row because joins at the grain lead many-to-one (`OneJoin`) and, being
optional, never lose it (`Fills`). So a record has an entry (`ChainHasEntry`) and no second one (`OneEntry`). The
groups are compared by rows: a row of everything, restricted to what the statement joins, is one of
its rows with the same key (`Project`), and each of its rows can be extended to a row of
everything, through any record of a branch that it counts and any witness of an existence
check (`Lift`). `BranchFigure` and `FlatFigure` put the two together for a corrected and for a
plain table.

**SyncFetch** (`FetchInv`). `Passed` is the part of the list that is behind the walk: the
records from the cursor on, or as many of the newest as the pages so far hold. `PageGoesOn`
says that the next page is what follows it, for each way of paging, and that a walk which
believes to be at the end is (`NewestCount`: a page with fewer records than were asked for
is the last). While the list stands still the rows are those of `Passed`, and a list's rows
are put together from its parts' (`InOrderJoins`). While it moves, `Walked` says what is left of that: removals
only shift records to earlier places, so nothing already fetched comes again unless something was
added; additions only to later ones, so nothing is skipped unless something was
removed; a cursor names a record and not a place, so neither happens. `KeyWalk` is the same
for batches of identifiers. `FetchTypeOK` needs `LimitInv` besides: a walk that goes
on has requests left. Its proof corrected the type: rows defined in code are not cut at
the row limit.

**Dashboards.** `BInv` is about the transactions under way: unless the application is
blamed, a transaction's row is still filed where the transaction read it (`Filed`), is
not a default it read as none (`Flagged`), and a clear has found every default there is
(`Cleared`); a commit then either leaves one default or has its overlap blamed. `EInv` is
about the tab: a copy that was read and not overtaken has every edit that is kept (`Held`),
and so has the definition a save of it sends (`SentWhole`); `SentNamed`, `SentFrom`
and `SentShown` say which dashboard a save is for while the tab may already show another
one. Proving it corrected the property: with four requests, another
client can write back an edit that had been lost, after the tab has read the dashboard
without it, and the tab's save removes it again. `restored` and the third cause
of `SavedEditsUndoneNeedCause` are there for that.

**DashboardView** (`ViewInv`). Every card written tells its own truth (`Told`) and keeps
telling it while later queries see other rows and another day, because it is of the
rows and the day it was measured with; `Progress` says which card a query is for.
`PanelShows` is the panel in terms of the report it was answered from. The lemmas on ranges
(`Resolve`, `Before`) are arithmetic of intervals; those on conditions say that what
`AppliedReport` adds narrows, and what it leaves out is told.

**Uploads** (`RequestInv`). An upload's id is known to nobody else before its row is committed
(`Numbered`), so a delete never meets an upload half done; `Cut` says what the two
commits of each have left when they are apart; `Chained` that an entry is given its id
after it has read the tail it names, so that numbers on a chain rise and a second
entry after the same one was written without seeing the first. `Agreed` carries
`TrailTellsCatalogue` through the gap between the change and its entry: what is told,
what was lost and what is being told (`Said`) together are always what the catalogue
shows, and nothing is said yet of an upload on its way. `FilesSurvive` is about
`UploadParser` alone: a type that was inferred reads every cell it was inferred from
(`InferredReads`), the n-th row with anything in it exists (`NthExists`), and names of headings
that repeat differ by how often the heading was met before (`NamesDiffer`).

**Model-checked only.** Liveness, which rests on fairness and so on ENABLED, beyond the
proof system: `SyncsEnd`, `DueIsAttempted`, `FetchEnds` and both `RequestsEnd`. Every
safety invariant and action property the runs check is proved.

## 7 What is not modelled

- *Data*: names, labels, formats, operators of conditions, SQL text, files. The SQL
  guard and the exporters are about nothing else.
- *Who may do what*: permissions and row ownership are assumed granted, or a request
  ends for want of them; visibility is only kept or lost (`filed`).
- *Provider clients*: the tables of fields (`riin_fields.py` is 2 000 lines of data), how a
  record's values become columns, how errors are worded, waiting between requests.
- *Time*: an interval has elapsed or not; a lock is held or not; days are numbers.
- *In ReportEditor*: live validation, preview, joins and their dialogs, calculated
  columns, a second tab or user. Deleted reports stay as rows, as in the code.
- *In ActiveConnection*: that activating reads the setting before it updates it (one
  step); the details an engine was made with; engines of a worker
  that did not handle an update go on with the old credentials, which is a
  hazard without a property until engines carry their details.
- *In ConnectorSync*: hiding datasets, and that keyed requests read another
  dataset's table (`SyncFetch` takes the identifiers as given); a commit that fails
  while its process lives on is met only as the death of the process.
- *In SyncFetch*: the shape of `instagram_insights`; that a page's rows which are not
  objects are dropped before the page is counted.
- *In HybridPool*: the count route, an export's audit entry before it streams, and what
  is refused before a connection is taken.
- *In FanoutCorrection*: many-to-many edges, which are taken for one-to-many ones.
- *In Dashboards and DashboardView*: who sees a dashboard, the view count, the catalogue
  of metrics, the check of a definition, the forms of the panels. Nobody leaves or
  reloads the builder while its save is on its way, although Cancel, back, Select and
  Duplicate stay enabled; a save neither fails nor loses its answer.
- *In Uploads*: the bytes of CSV and XLSX files and cells that come with a type of their
  own, password hashing, encryption of stored credentials; the connection `ensure_schema`
  takes and returns before the session has one.
- *Start-up, schema overrides, the board's cache, the resolver's checks*: planned.
- *The AI assistant, the other pages, deployment and scripts*: stateless, or forms over
  the routes modelled here. That several workers run the same program is taken
  from the deployment files.

## 8 Further hazards

Real in this code, covered by no property; paths are relative to the repository. Some
are in the models (a cause that a property names, or a counterexample of [5](#5-where-code-and-documentation-disagree));
the others belong to the parts section 2 still plans.

- `apps/api/app/api/v1/dashboards.py:479`: The view count is read, incremented and
  written back: two openings at once count one.
- `apps/api/app/api/v1/dashboards.py:498`: Two editors of one dashboard: the last PUT
  wins silently.
- `apps/web/app/(app)/dashboards/builder/page.tsx:85`: The builder's save never sends
  is_default and show_in_menu, so the route's defaults replace what was set.
- `apps/api/app/core/db.py:143`: Columns are added to existing tables outside the
  advisory lock that guards table creation: two workers starting together may both try.
- `apps/api/app/core/db.py:148`: Roles and the first user are seeded after a look for
  them, by every worker that starts.
- `apps/api/app/api/v1/board.py:279`: Row counts of the board are cached for up to five
  minutes, in each worker, whatever is saved or synced in between.
- `apps/api/app/services/schema_service.py:223`: A column's override is rebuilt from a
  subset of its fields: is_enum and source_name are lost.
- `apps/api/app/api/v1/connectors.py:364`: Replacing the token stores it as pasted,
  unexchanged and untried; the next sync is the first to find out.
- `apps/api/app/services/connectors/digi_match.py:385`: The hint at purchase orders
  without an order is written while rows are still being added to what it reads.
- `apps/api/app/services/connectors/digi_match.py:312`: Two orphans that fit equally
  well: the first the query returned is taken, and unlike for sales orders no note says
  so.
- `apps/api/app/domain/dashboard/builder.py:113`: The dashboard's conditions are added
  to the panel's own in one AND group, whatever joined the panel's own: a panel on (A or
  B) shows A and B as soon as any filter or window applies.
- `apps/api/app/domain/uploads/parser.py:98`: Headings that repeat get a number, and the
  number may make the name of another heading (a, a_1, a): the table is then refused
  with an error the user never sees the reason of.
- `apps/api/app/services/connector_service.py:617`: A failed sync changes the status,
  and the status decides what the builder is offered: a dataset whose table is intact
  disappears because a token expired.
- `apps/api/app/services/connector_service.py:237`: The very first sync answers with no
  rows: the dataset becomes ready without a table, and its empty column list is offered
  to the builder.
- `apps/api/app/api/v1/connectors.py:422`: Two requests to add the same dataset both see
  none and both insert one: the provider is asked twice from then on.
- `apps/api/app/services/connector_service.py:503`: A keyed or first sync holds its
  session's connection while it takes a second one of the same pool: many at once can
  wait for each other until the pool's timeout.
- `apps/api/app/api/v1/reports.py:353`: The export route has its own way to the data and
  does not share the routing of preview and count (`ExportFindsTables`, [5](#5-where-code-and-documentation-disagree)).
- `apps/api/app/api/v1/reports.py:81`: Whether to qualify is decided from the tables of
  the definition, where to run from those of the plan; when the planner adds a bridge
  table of the other kind (join_planner.py:301-302) the report is staged but was
  compiled with schema names, so a staged table outside public is not found.
- `apps/api/app/services/hybrid_executor.py:243`: The copy and its source are both named
  after meta.name; for a table that shares its name with another schema's, meta.name is
  'schema.table' (registry.py:179) and no such table exists, so every mixed report on it
  fails.
- `apps/api/app/domain/report/compiler.py:713`: The conditions of a branch turned into
  an existence check are ANDed to the statement while _build_predicates drops them from
  their OR group: 'root flag OR branch flag' becomes 'root flag AND branch flag'.
- `apps/api/app/domain/report/fanout.py:210`: A multiplying branch that contributes
  nothing is pruned, or handled as a derived table, whatever its join type: the INNER a
  report declares is lost and records without a match come back.
- `apps/api/app/domain/report/compiler.py:474`: COUNT of a pre-aggregated branch is a
  SUM over a LEFT JOIN, NULL instead of 0 for a record without children.
- `apps/api/app/domain/report/compiler.py:503`: The joins of derived tables and EXISTS
  use plain equality while ordinary joins cast columns of different types: a text id
  from a spreadsheet that joins when shown as detail fails when aggregated.
- `apps/api/app/domain/report/join_planner.py:227`: The greedy growth of the tree breaks
  ties by the order in which tables were selected: root-a-b or root-b-a at the same
  cost, with no diagnostic.
- `apps/api/app/domain/report/join_planner.py:185`: Which join of a loop is left out
  depends on the order of the list and never on a cost, although join_planner.py:13 says
  'cycles -> broken at the highest-cost edge, with a warning'.
- `apps/api/app/domain/report/join_planner.py:380`: A declared join that names a
  relationship by id gets it whatever tables that one is of, and with it a cardinality of
  other tables: a step that repeats rows may pass for one that does not. The web client
  takes both from one step (`RelationshipsDialog.tsx:59`, `builder/page.tsx:400`); the API
  does not compare them. `UsablePlan` names it (`Along`), the totals of such a plan are not
  modelled.
- `apps/api/app/api/v1/connections.py:242`: reset_cache empties the engines of the
  worker that handled the update; the other workers go on with engines, and credentials,
  of the old details until they restart.
- `apps/api/app/adapters/factory.py:70`: A request that read the old details before an
  update stores its engine in the cache after reset_cache has emptied it, so even the
  worker that handled the update keeps the old engine.
- `apps/api/app/api/v1/schema.py:372`: The administrator's rescan passes no session, so
  it always scans the builtin connection: the live connection's snapshot is never
  refreshed by it, and the answer's table count is of another database.
- `apps/api/app/services/schema_service.py:80`: The lock is held for a whole
  introspection: while one slow database is scanned, every report of that worker waits,
  those on other connections too.
- `apps/api/app/api/v1/schema.py:183`: The cache of filter values is keyed by table and
  column, not by connection: after a switch the old database's values are offered until
  they expire.
- `apps/api/app/api/v1/reports.py:601`: An update writes every field of the payload, so
  a caller that knows only name and definition resets where the report is filed and who
  sees it.
- `apps/web/app/(app)/reports/builder/page.tsx:274`: Save As is not disabled while a
  save is pending: the save's answer arrives on the Save Report screen and gives it back
  the original's id, so saving there updates the original instead of making a copy.
- `apps/web/app/(app)/reports/builder/page.tsx:106`: The answer to an older validation
  replaces that of a newer one; DiagnosticsBar and RelationshipsDialog then apply joins
  of a definition that has changed since.
- `apps/web/app/(app)/reports/builder/page.tsx:128`: Two previews under way: the rows of
  the earlier page or definition may arrive last and be shown.
- `apps/web/components/builder/RelationshipsDialog.tsx:63`: The dialog's draft survives
  a click on the backdrop, and a bridge table's joins stay after one of its tables is
  removed.
- `apps/web/app/(app)/reports/builder/page.tsx:425`: "+ all" adds the fetched columns to
  whatever report is open when they arrive.
- `apps/web/app/(app)/reports/page.tsx:49`: Renaming reads the report and writes it back
  with two requests: a save in between is lost, and the report is un-filed as by the
  builder's Save.
- `apps/api/app/api/v1/reports.py:597`: Two editors of one report: the last PUT wins,
  with no version check.
- `apps/api/app/api/v1/reports.py:591`: A PUT on an archived report succeeds (only
  get_report looks at is_archived), so a tab still open saves into a report nobody can
  list.
- `apps/web/store/builder.ts:112`: toggleTable leaves calculated_columns and
  selectedColumnId pointing at what is gone; removeColumn (181-190) leaves a grouping by
  its field, which setFieldsSelected (222) removes.
