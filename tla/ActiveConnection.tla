-------------------------- MODULE ActiveConnection --------------------------
(***************************************************************************)
(* Which database reports read: the saved connections and the setting that *)
(* names the live one (services/connection_service.py and                  *)
(* api/v1/connections.py), and what every worker process keeps of them,    *)
(* engines and schema snapshots (adapters/factory.py and                   *)
(* services/schema_service.py).                                            *)
(*                                                                         *)
(* The setting and the rows are in the metadata database and read anew at  *)
(* every use; the caches are one per worker, keyed by connection, and are  *)
(* emptied only in the worker that handles a change.                       *)
(***************************************************************************)
EXTENDS Naturals, FiniteSets

CONSTANTS
    Workers,   \* gunicorn worker processes
    Requests,  \* threads, each in the worker its request landed on
    Conns,     \* ids of saved connections; an id is never used twice
    Builtin,   \* the connection of the server's environment
    Hosts, Logins,
    ReadOnly,  \* the [host, login] that cannot write
    MaxRequests, \* bound: requests in all
    None, Unused, Gone

Ids     == Conns \cup {Builtin}
Details == [host : Hosts, login : Logins]

ASSUME ConstantsAssumption ==
    /\ Builtin \notin Conns /\ ReadOnly \subseteq Details /\ MaxRequests \in Nat
    /\ {Unused, Gone, None} \cap Details = {} /\ Gone # Unused
    /\ None \notin Ids \cup Requests \cup Workers

VARIABLES
    setting,   \* app_settings: the id chosen last
    conns,     \* db_connections: a row's details, Unused or Gone
    adapters,  \* per worker and key: the connection its engine was made for
    snaps,     \* per worker and key: the connection the snapshot was taken from
    lock,      \* per worker: who holds schema_service._lock
    pc,        \* where each request is
    my,        \* its local variables
    asked,     \* how many there have been
    \* history:
    active,    \* connections that were live while the request ran
    tainted,   \* per worker: keys scanned while the live connection changed
    merged,    \* rows an update wrote over another's
    crossed    \* connections activated while a delete was past its check

rows   == << setting, conns >>
caches == << adapters, snaps, lock >>
causes == << tainted, merged, crossed >>
vars   == << rows, caches, pc, my, asked, active, causes >>

-----------------------------------------------------------------------------
Ops    == {"none", "report", "rescan", "create", "update", "activate", "delete"}
Stages == {"none", "key", "scan", "dialect", "route", "run"}  \* what an adapter is asked for
Steps  == {"idle", "setting", "row", "url", "adapter", "lock", "introspect", "execute",
           "load", "probe", "check", "commit", "reset", "forget"}

\* at: its worker; conn, want: what it was asked; base: the row as it was loaded;
\* key: the snapshot's key; id: what was read of the setting; held: the adapter it uses.
Free(w) == [at |-> w, op |-> "none", conn |-> Builtin, want |-> None, base |-> None,
            stage |-> "none", key |-> Builtin, id |-> Builtin, held |-> None]

Saved(c)  == conns[c] \in Details
There     == {Builtin} \cup {c \in Conns : Saved(c)}
Live      == IF setting \in There THEN setting ELSE Builtin

At(r, p, locals)   == pc' = [pc EXCEPT ![r] = p] /\ my' = [my EXCEPT ![r] = locals]
Goto(r, p, locals) == At(r, p, locals) /\ UNCHANGED asked
End(r) == /\ Goto(r, "idle", Free(None))
          /\ active' = [active EXCEPT ![r] = {}]
          /\ lock' = [w \in Workers |-> IF lock[w] = r THEN None ELSE lock[w]]

\* A row or the setting changes: what is live now is noted for every report.
Noted(also) ==
    active' = [r \in Requests |->
                  IF my[r].op # "report" THEN {} ELSE active[r] \cup {Live'} \cup also]

Start(r, w, op, c, want, p) ==
    /\ pc[r] = "idle" /\ asked < MaxRequests
    /\ asked' = asked + 1
    /\ At(r, p, [Free(w) EXCEPT !.op = op, !.conn = c, !.want = want,
                                  !.stage = IF op = "report" THEN "key" ELSE "none"])
    /\ active' = [active EXCEPT ![r] = IF op = "report" THEN {Live} ELSE {}]
    /\ UNCHANGED << rows, caches, causes >>

StartReport(r, w)      == Start(r, w, "report", Builtin, None, "setting")
StartRescan(r, w)      == Start(r, w, "rescan", Builtin, None, "lock")
StartCreate(r, w, d)   == /\ \E c \in Conns : conns[c] = Unused
                          /\ \A q \in Requests : my[q].op # "create"
                          /\ Start(r, w, "create", Builtin, d, "probe")
StartUpdate(r, w, c, d) == Start(r, w, "update", c, d, "load")
StartDelete(r, w, c)   == Start(r, w, "delete", c, None, "load")
StartActivate(r, w, i) == Start(r, w, "activate", i, None, IF i = Builtin THEN "commit" ELSE "load")

-----------------------------------------------------------------------------
(***************************************************************************)
(* A report.  _engine asks for the registry, whose snapshot is keyed by    *)
(* the live connection and, when this worker has none, scanned through     *)
(* adapter_for; the dialect, the route and the run each ask adapter_for    *)
(* again.  Every one of these reads the setting for itself.                *)
(***************************************************************************)
ReadSetting(r) ==
    /\ pc[r] = "setting"
    /\ Goto(r, "row", [my[r] EXCEPT !.id = setting])
    /\ UNCHANGED << rows, caches, active, causes >>

\* A connection that has been deleted counts as the builtin one.
ReadRow(r) ==
    /\ pc[r] = "row"
    /\ LET i == IF my[r].id \in There THEN my[r].id ELSE Builtin
       IN  IF my[r].stage = "key"
           THEN Goto(r, "lock", [my[r] EXCEPT !.id = Builtin, !.key = i])
           ELSE Goto(r, IF i = Builtin THEN "adapter" ELSE "url", [my[r] EXCEPT !.id = i])
    /\ UNCHANGED << rows, caches, active, causes >>

\* connection_url: a row that has gone since ends the request with an error,
\* and with it a scan's hold on the lock.
ReadUrl(r) ==
    /\ pc[r] = "url"
    /\ \/ /\ Saved(my[r].id)
          /\ Goto(r, "adapter", my[r])
          /\ UNCHANGED << lock, active >>
       \/ ~Saved(my[r].id) /\ End(r)
    /\ UNCHANGED << rows, adapters, snaps, causes >>

\* get_adapter: the engine cached under k, or a new one.
UseAdapter(r, k) ==
    /\ pc[r] = "adapter"
    /\ LET w    == my[r].at
           held == IF adapters[w][k] # None THEN adapters[w][k] ELSE my[r].id
           has  == [my[r] EXCEPT !.id = Builtin, !.held = held]
           had  == [my[r] EXCEPT !.id = Builtin]
       IN  /\ adapters' = [adapters EXCEPT ![w][k] = held]
           /\ \/ my[r].stage = "scan" /\ Goto(r, "introspect", has)
              \/ my[r].stage = "dialect" /\ Goto(r, "setting", [had EXCEPT !.stage = "route"])
              \/ my[r].stage = "route" /\ Goto(r, "setting", [had EXCEPT !.stage = "run"])
              \/ my[r].stage = "run" /\ Goto(r, "execute", has)
    /\ UNCHANGED << rows, snaps, lock, active, causes >>

\* Deviation: the run is given get_adapter(), which knows no session.
GetAdapter_RunOnDefault(r) ==
    \/ my[r].stage # "run" /\ UseAdapter(r, my[r].id)
    \/ /\ pc[r] = "adapter" /\ my[r].stage = "run"
       /\ Goto(r, "execute", [my[r] EXCEPT !.held = Builtin])
       /\ UNCHANGED << rows, caches, active, causes >>

GetAdapter(r) == UseAdapter(r, my[r].id)

\* get_snapshot, with the lock: the cached snapshot, or a scan.  The rescan of
\* an administrator passes no session and scans the builtin connection.
TakeLock(r) ==
    /\ pc[r] = "lock"
    /\ LET w == my[r].at
       IN  /\ lock[w] = None
           /\ IF my[r].op = "report" /\ snaps[w][my[r].key] # None
              THEN /\ Goto(r, "setting", [my[r] EXCEPT !.stage = "dialect", !.key = Builtin])
                   /\ UNCHANGED lock
              ELSE /\ Goto(r, IF my[r].op = "report" THEN "setting" ELSE "adapter",
                           [my[r] EXCEPT !.stage = "scan"])
                   /\ lock' = [lock EXCEPT ![w] = r]
    /\ UNCHANGED << rows, adapters, snaps, active, causes >>

\* The scan's answer is stored under the key that was read before it.
StoreSnapshot(r, k) ==
    /\ pc[r] = "introspect"
    /\ LET w == my[r].at
       IN  /\ snaps' = [snaps EXCEPT ![w][k] = my[r].held]
           /\ tainted' = [tainted EXCEPT ![w] = 
                          IF Cardinality(active[r]) <= 1 THEN @ \ {k} ELSE @ \cup {k}]
           /\ IF my[r].op = "report"
              THEN /\ Goto(r, "setting", [my[r] EXCEPT !.stage = "dialect", !.key = Builtin,
                                                                !.held = None])
                   /\ lock' = [lock EXCEPT ![w] = None]
                   /\ UNCHANGED active
              ELSE End(r)
    /\ UNCHANGED << rows, adapters, merged, crossed >>

\* Deviation: the key does not depend on the live connection.
Introspect_OneKey(r) == StoreSnapshot(r, Builtin)

Introspect(r) == StoreSnapshot(r, my[r].key)

\* Deviation: the lock is released only on the way out of a scan that worked.
ScanFails_KeepsLock(r) ==
    /\ pc[r] = "introspect"
    /\ Goto(r, "idle", Free(None)) /\ active' = [active EXCEPT ![r] = {}]
    /\ UNCHANGED << rows, caches, causes >>

ScanFails(r) ==
    /\ pc[r] = "introspect"
    /\ End(r)
    /\ UNCHANGED << rows, adapters, snaps, causes >>

Execute(r) ==
    /\ pc[r] = "execute"
    /\ End(r)
    /\ UNCHANGED << rows, adapters, snaps, causes >>

-----------------------------------------------------------------------------
(***************************************************************************)
(* The administrator's operations.  What the probe and the check were told *)
(* may have changed by the time of the commit; the ORM writes only the     *)
(* columns that differ from what was loaded, and refuses to update a row   *)
(* that is gone.                                                           *)
(***************************************************************************)
Load(r) ==
    /\ pc[r] = "load"
    /\ \/ /\ Saved(my[r].conn)
          /\ Goto(r, IF my[r].op = "delete" THEN "check" ELSE "probe",
                  [my[r] EXCEPT !.base = conns[my[r].conn]])
          /\ UNCHANGED << lock, active >>
       \/ ~Saved(my[r].conn) /\ End(r)
    /\ UNCHANGED << rows, adapters, snaps, causes >>

Proposed(r) == IF my[r].op = "activate" THEN my[r].base ELSE my[r].want

\* Deviation: only credentials that have changed are probed.
Probe_NewLoginOnly(r) ==
    /\ pc[r] = "probe"
    /\ \/ /\ Proposed(r) \in ReadOnly \/ (my[r].op = "update" /\ my[r].want.login = my[r].base.login)
          /\ Goto(r, "commit", my[r])
          /\ UNCHANGED << lock, active >>
       \/ End(r)
    /\ UNCHANGED << rows, adapters, snaps, causes >>

\* The connection is refused when the server does not answer or the account can write.
Probe(r) ==
    /\ pc[r] = "probe"
    /\ \/ /\ Proposed(r) \in ReadOnly
          /\ Goto(r, "commit", my[r])
          /\ UNCHANGED << lock, active >>
       \/ End(r)
    /\ UNCHANGED << rows, adapters, snaps, causes >>

CommitCreate(r) ==
    /\ pc[r] = "commit" /\ my[r].op = "create"
    /\ \E c \in Conns : conns[c] = Unused /\ conns' = [conns EXCEPT ![c] = my[r].want]
    /\ End(r)
    /\ UNCHANGED << setting, adapters, snaps, causes >>

\* A login given again is encrypted again, and so written even when it is the same.
CommitUpdate(r) ==
    /\ pc[r] = "commit" /\ my[r].op = "update"
    /\ UNCHANGED << setting, adapters, snaps >>
    /\ LET c == my[r].conn
           base == my[r].base
           want == my[r].want
       IN  \/ /\ Saved(c)
              /\ \E login \in {want.login} \cup (IF want.login = base.login
                                               THEN {conns[c].login} ELSE {}) :
                    conns' = [conns EXCEPT ![c] =
                                [host  |-> IF want.host # base.host THEN want.host ELSE @.host,
                                 login |-> login]]
              /\ merged' = IF conns[c] = base THEN merged \ {c} ELSE merged \cup {c}
              /\ Goto(r, "reset", Free(my[r].at))
              /\ Noted({})
              /\ UNCHANGED << lock, tainted, crossed >>
           \/ /\ ~Saved(c) /\ want = base
              /\ Goto(r, "reset", Free(my[r].at))
              /\ UNCHANGED << conns, lock, active, causes >>
           \/ ~Saved(c) /\ End(r) /\ UNCHANGED << conns, causes >>

Deleting(c) == \E r \in Requests : pc[r] = "commit" /\ my[r].op = "delete" /\ my[r].conn = c

CommitActivate(r) ==
    /\ pc[r] = "commit" /\ my[r].op = "activate"
    /\ UNCHANGED << conns, adapters, snaps, tainted, merged >>
    /\ LET i == my[r].conn
       IN  \/ /\ i \in There
              /\ setting' = i
              /\ crossed' = IF Deleting(i) THEN crossed \cup {i} ELSE crossed
              /\ Goto(r, "reset", Free(my[r].at))
              /\ Noted({})
              /\ UNCHANGED lock
           \/ /\ i \notin There
              /\ End(r)
              /\ UNCHANGED << setting, crossed >>

\* The live connection is not deleted.
Check(r) ==
    /\ pc[r] = "check"
    /\ IF setting = my[r].conn THEN End(r)
       ELSE Goto(r, "commit", my[r]) /\ UNCHANGED << lock, active >>
    /\ UNCHANGED << rows, adapters, snaps, causes >>

CommitDelete(r) ==
    /\ pc[r] = "commit" /\ my[r].op = "delete"
    /\ conns' = [conns EXCEPT ![my[r].conn] = Gone]
    /\ Goto(r, "idle", Free(None))
    /\ UNCHANGED << setting, caches, causes >>
    /\ Noted({Builtin})

\* factory.reset_cache and forget_snapshots, in this worker.
Reset(r) ==
    /\ pc[r] = "reset"
    /\ adapters' = [adapters EXCEPT ![my[r].at] = [k \in Ids |-> None]]
    /\ Goto(r, "forget", my[r])
    /\ UNCHANGED << rows, snaps, lock, active, causes >>

Emptied(w) ==
    /\ lock[w] = None
    /\ snaps' = [snaps EXCEPT ![w] = [k \in Ids |-> None]]
    /\ tainted' = [tainted EXCEPT ![w] = {}]

Forget(r) ==
    /\ pc[r] = "forget"
    /\ Emptied(my[r].at)
    /\ End(r)
    /\ UNCHANGED << rows, adapters, merged, crossed >>

\* A connector's tables have changed: the worker that did it forgets its snapshots.
ConnectorChange(w) ==
    /\ Emptied(w)
    /\ UNCHANGED << rows, adapters, lock, pc, my, asked, active, merged, crossed >>

\* A worker dies and another takes its place.
Restart(w) ==
    /\ adapters' = [adapters EXCEPT ![w] = [k \in Ids |-> None]]
    /\ snaps' = [snaps EXCEPT ![w] = [k \in Ids |-> None]]
    /\ lock' = [lock EXCEPT ![w] = None]
    /\ pc' = [r \in Requests |-> IF my[r].at = w THEN "idle" ELSE pc[r]]
    /\ my' = [r \in Requests |-> IF my[r].at = w THEN Free(None) ELSE my[r]]
    /\ active' = [r \in Requests |-> IF my[r].at = w THEN {} ELSE active[r]]
    /\ tainted' = [tainted EXCEPT ![w] = {}]
    /\ UNCHANGED << rows, asked, merged, crossed >>

-----------------------------------------------------------------------------
Init ==
    /\ setting = Builtin
    /\ conns \in [Conns -> ReadOnly \cup {Unused}]
    /\ adapters = [w \in Workers |-> [k \in Ids |-> None]]
    /\ snaps = [w \in Workers |-> [k \in Ids |-> None]]
    /\ lock = [w \in Workers |-> None]
    /\ pc = [r \in Requests |-> "idle"] /\ my = [r \in Requests |-> Free(None)] /\ asked = 0
    /\ active = [r \in Requests |-> {}]
    /\ tainted = [w \in Workers |-> {}] /\ merged = {} /\ crossed = {}

Report(r) ==
    \/ ReadSetting(r) \/ ReadRow(r) \/ ReadUrl(r) \/ GetAdapter(r)
    \/ TakeLock(r) \/ Introspect(r) \/ ScanFails(r) \/ Execute(r)

Administer(r) ==
    \/ Load(r) \/ Probe(r) \/ Check(r)
    \/ CommitCreate(r) \/ CommitUpdate(r) \/ CommitActivate(r) \/ CommitDelete(r)
    \/ Reset(r) \/ Forget(r)

Ask(r, w) ==
    \/ StartReport(r, w) \/ StartRescan(r, w)
    \/ \E d \in Details : StartCreate(r, w, d) \/ (\E c \in Conns : StartUpdate(r, w, c, d))
    \/ \E c \in Conns : StartDelete(r, w, c)
    \/ \E i \in Ids : StartActivate(r, w, i)

Next ==
    \/ \E r \in Requests : Report(r) \/ Administer(r) \/ (\E w \in Workers : Ask(r, w))
    \/ \E w \in Workers : ConnectorChange(w) \/ Restart(w)

Spec == Init /\ [][Next]_vars

-----------------------------------------------------------------------------
Locals == [at : Workers \cup {None}, op : Ops, conn : Ids, want : Details \cup {None},
           base : Details \cup {None}, stage : Stages, key : Ids, id : Ids, held : Ids \cup {None}]

(* The values of the variables.  Only a scan under way holds the lock of    *)
(* its worker: whoever waits for it gets it.                               *)
TypeOK ==
    /\ setting \in Ids
    /\ conns \in [Conns -> Details \cup {Unused, Gone}]
    /\ adapters \in [Workers -> [Ids -> Ids \cup {None}]]
    /\ snaps \in [Workers -> [Ids -> Ids \cup {None}]]
    /\ lock \in [Workers -> Requests \cup {None}]
    /\ pc \in [Requests -> Steps] /\ asked \in 0 .. MaxRequests
    /\ my \in [Requests -> Locals]
    /\ active \in [Requests -> SUBSET Ids]
    /\ tainted \in [Workers -> SUBSET Ids]
    /\ merged \in SUBSET Conns /\ crossed \in SUBSET Conns
    /\ \A w \in Workers : lock[w] # None =>
          my[lock[w]].at = w /\ my[lock[w]].stage = "scan" /\ pc[lock[w]] # "idle"

(* "A connection switched in one of them has to be seen by all of them"    *)
(* (adapter_for): whatever the worker has cached, a report runs on a       *)
(* connection that was live at some moment of the request, or on the       *)
(* builtin one if a connection was deleted meanwhile.                      *)
ReportsFollowSwitch ==
    \A r \in Requests : pc[r] = "execute" => my[r].held \in active[r]

(* A snapshot kept for a connection was taken from that connection, unless *)
(* the live connection changed in the middle of the scan.                  *)
SnapshotNeedsCause ==
    \A w \in Workers, k \in Ids :
        snaps[w][k] \notin {None, k} => k \in tainted[w]

(* "A connection that can write is not saved" (connection_service.py): what *)
(* a row holds has been probed as a whole, unless an update was written     *)
(* over another that it had not seen.  "So reports do not stop working      *)
(* mid-deletion" (delete_connection): the connection the setting names      *)
(* exists, unless it was chosen after a delete had looked and before it     *)
(* committed.                                                              *)
SavedIsSound ==
    /\ \A c \in Conns : Saved(c) /\ c \notin merged => conns[c] \in ReadOnly
    /\ setting \notin There => setting \in crossed

=============================================================================
