----------------------------- MODULE HybridPool -----------------------------
(***************************************************************************)
(* Running a report on the database its sources live in:                   *)
(* hybrid_executor.py, the run and export routes of api/v1/reports.py and  *)
(* the connection pool of the metadata database (core/db.py).              *)
(*                                                                         *)
(* A report that mixes both databases copies the operational tables into   *)
(* temporary tables of a metadata connection, commits, and runs its        *)
(* statement there.  The connection is a pooled one: what is committed on  *)
(* it (temporary tables, search_path) is still there for whoever takes it  *)
(* from the pool next; what is not committed is rolled back on the way in. *)
(***************************************************************************)
EXTENDS Naturals, Sequences, FiniteSets

CONSTANTS
    Requests,      \* worker threads answering a report request
    OpTables,      \* tables of the operational database
    LocalTables,   \* uploaded and synced tables, in the metadata database
    Foreign,       \* operational tables outside the schema public
    Namesakes,     \* operational tables whose registry name had to be qualified
    AppNames,      \* operational tables named like one of the application's own
    Reports,       \* [asked, planned]: tables of the definition, of the join plan
    PoolSize,      \* connections the pool keeps
    MaxOverflow    \* connections it opens beyond those

ASSUME ConstantsAssumption ==
    /\ PoolSize \in Nat \ {0}
    /\ MaxOverflow \in Nat
    /\ OpTables \cap LocalTables = {}
    /\ Foreign \subseteq OpTables /\ Namesakes \subseteq OpTables /\ AppNames \subseteq OpTables
    /\ Reports \subseteq [asked : SUBSET (OpTables \cup LocalTables),
                          planned : SUBSET (OpTables \cup LocalTables)]
    /\ \A rep \in Reports : rep.asked # {} /\ rep.asked \subseteq rep.planned
    /\ Reports # {}

Conns   == 1 .. (PoolSize + MaxOverflow)
NoConn  == 0

VARIABLES
    idle,      \* the pool's queue of connections
    open,      \* connections that exist
    conn,      \* what is committed on a connection's session
    tx,        \* the same, as its open transaction sees it
    pc,        \* where each request is
    job,       \* the report it runs and whether it is an export
    sess,      \* the connection its ORM session holds
    second,    \* the connection the executor took for itself
    todo,      \* operational tables it has still to stage
    cur,       \* those being copied (at most one)
    cause      \* why the request failed, "none" if it did not

vars == << idle, open, conn, tx, pc, job, sess, second, todo, cur, cause >>
poolVars == << idle, open, conn, tx >>

-----------------------------------------------------------------------------
Copies  == {"none", "part", "whole", "left"}
Session == [path : {"default", "local"}, temps : [OpTables -> Copies]]
Fresh   == [path |-> "default", temps |-> [t \in OpTables |-> "none"]]
Modes   == {"run", "export"}
Steps   == {"idle", "begin", "built", "stage", "copy", "execute", "record",
            "audit", "unwind"}
Refusals == {"database", "limit", "missing"}    \* QueryExecutionError, answered 400
Crashes  == {"timeout", "exists", "shadowed"}   \* any other exception, answered 500

AnyJob == [rep |-> CHOOSE rep \in Reports : TRUE, mode |-> "run"]

(* classify, on the tables of the plan: what has to be staged, and where   *)
(* the statement runs.  qualify_schema is decided on the definition's.     *)
Staged(r)      == job[r].rep.planned \cap OpTables
Local(r)       == job[r].rep.planned \cap LocalTables
Operational(r) == Local(r) = {}
Hybrid(r)      == Staged(r) # {} /\ Local(r) # {}
Qualified(r) ==
    ~(job[r].rep.asked \cap OpTables # {} /\ job[r].rep.asked \cap LocalTables # {})

TypeOK ==
    /\ idle \in Seq(Conns) /\ Len(idle) <= PoolSize
    /\ open \in SUBSET Conns
    /\ conn \in [Conns -> Session]
    /\ tx \in [Conns -> Session]
    /\ pc \in [Requests -> Steps]
    /\ job \in [Requests -> [rep : Reports, mode : Modes]]
    /\ sess \in [Requests -> Conns \cup {NoConn}]
    /\ second \in [Requests -> Conns \cup {NoConn}]
    /\ todo \in [Requests -> SUBSET OpTables]
    /\ cur \in [Requests -> SUBSET OpTables]
    /\ cause \in [Requests -> {"none"} \cup Refusals \cup Crashes]

Init ==
    /\ idle = << >>
    /\ open = {}
    /\ conn = [c \in Conns |-> Fresh]
    /\ tx = conn
    /\ pc = [r \in Requests |-> "idle"]
    /\ job = [r \in Requests |-> AnyJob]
    /\ sess = [r \in Requests |-> NoConn]
    /\ second = [r \in Requests |-> NoConn]
    /\ todo = [r \in Requests |-> {}]
    /\ cur = [r \in Requests |-> {}]
    /\ cause = [r \in Requests |-> "none"]

-----------------------------------------------------------------------------
(***************************************************************************)
(* The pool (sqlalchemy.pool.QueuePool with the engine's defaults).        *)
(***************************************************************************)
Goto(r, step) == pc' = [pc EXCEPT ![r] = step]

(* The connection a checkout yields: the oldest idle one, or a new one     *)
(* while fewer than PoolSize + MaxOverflow exist.                          *)
Available ==
    IF idle # << >> THEN {Head(idle)}
    ELSE {c \in Conns \ open : \A d \in Conns \ open : c <= d}

TakeOut(c) ==
    /\ c \in Available
    /\ idle' = IF idle # << >> THEN Tail(idle) ELSE idle
    /\ open' = open \cup {c}

(* pool_timeout has run out.                                               *)
NoneInTime == Available = {}

(* What the rest of the process makes of a copy that is not its own.       *)
Aged(s) == [s EXCEPT !.temps = [t \in OpTables |-> IF s.temps[t] = "none" THEN "none" ELSE "left"]]

(* close(): roll back, and back to the queue unless it is full; then the   *)
(* connection itself is closed and its session's temporary tables vanish.  *)
PutBack(c) ==
    LET kept == Len(idle) < PoolSize
        back == IF kept THEN Aged(conn[c]) ELSE Fresh
    IN  /\ idle' = IF kept THEN Append(idle, c) ELSE idle
        /\ open' = IF kept THEN open ELSE open \ {c}
        /\ conn' = [conn EXCEPT ![c] = back]
        /\ tx' = [tx EXCEPT ![c] = back]

-----------------------------------------------------------------------------
(***************************************************************************)
(* The route: session, registry, compilation.                              *)
(***************************************************************************)
Ask(r, rep, mode) ==
    /\ pc[r] = "idle"
    /\ job' = [job EXCEPT ![r] = [rep |-> rep, mode |-> mode]]
    /\ cause' = [cause EXCEPT ![r] = "none"]
    /\ Goto(r, "begin")
    /\ UNCHANGED << poolVars, sess, second, todo, cur >>

(* The session's first query takes a connection, kept until the session    *)
(* commits.  An unqualified name is looked up among the temporary tables   *)
(* before anything else.                                                   *)
OpenSession(r) ==
    /\ pc[r] = "begin"
    /\ \E c \in Available :
          /\ TakeOut(c)
          /\ sess' = [sess EXCEPT ![r] = c]
          /\ IF \E t \in AppNames : conn[c].temps[t] # "none"
             THEN Goto(r, "unwind") /\ cause' = [cause EXCEPT ![r] = "shadowed"]
             ELSE Goto(r, "built") /\ UNCHANGED cause
    /\ UNCHANGED << conn, tx, job, second, todo, cur >>

SessionTimeout(r) ==
    /\ pc[r] = "begin"
    /\ NoneInTime
    /\ cause' = [cause EXCEPT ![r] = "timeout"]
    /\ Goto(r, "idle")
    /\ UNCHANGED << poolVars, job, sess, second, todo, cur >>

(* The outcome is known: history is written next, or nothing at all.       *)
Answer(r, why) ==
    /\ cause' = [cause EXCEPT ![r] = why]
    /\ Goto(r, IF why \in Crashes THEN "unwind" ELSE "record")

(* adapter.execute and adapter.stream, on the operational database alone.  *)
(* An export never asks where the report's tables live.                    *)
RunOperational(r) ==
    /\ pc[r] = "built"
    /\ Operational(r) \/ job[r].mode = "export"
    /\ LET there == Local(r) = {} /\ (Qualified(r) \/ Staged(r) \cap Foreign = {})
       IN  \/ Answer(r, "database")
           \/ Answer(r, IF there THEN "none" ELSE "missing")
    /\ UNCHANGED << poolVars, job, sess, second, todo, cur >>

(* The executor's own connection, beside the one the session holds; SET    *)
(* search_path belongs to its transaction.                                 *)
OpenSecond(r) ==
    /\ pc[r] = "built"
    /\ ~Operational(r) /\ job[r].mode = "run"
    /\ \E c \in Available :
          /\ TakeOut(c)
          /\ second' = [second EXCEPT ![r] = c]
          /\ tx' = [tx EXCEPT ![c].path = "local"]
    /\ todo' = [todo EXCEPT ![r] = Staged(r)]
    /\ Goto(r, IF Hybrid(r) THEN "stage" ELSE "execute")
    /\ UNCHANGED << conn, job, sess, cur, cause >>

SecondTimeout_Waits(r) == pc[r] = "built" /\ NoneInTime /\ UNCHANGED vars
SecondTimeout(r) ==
    /\ pc[r] = "built"
    /\ ~Operational(r) /\ job[r].mode = "run"
    /\ NoneInTime
    /\ Answer(r, "timeout")
    /\ UNCHANGED << poolVars, job, sess, second, todo, cur >>

(* The executor lets go of its connection and the request goes on.         *)
Leave_Leaks(r, why) ==
    /\ UNCHANGED poolVars
    /\ second' = [second EXCEPT ![r] = NoConn]
    /\ todo' = [todo EXCEPT ![r] = {}]
    /\ cur' = [cur EXCEPT ![r] = {}]
    /\ Answer(r, why)
    /\ UNCHANGED << job, sess >>
Leave(r, why) ==
    /\ PutBack(second[r])
    /\ second' = [second EXCEPT ![r] = NoConn]
    /\ todo' = [todo EXCEPT ![r] = {}]
    /\ cur' = [cur EXCEPT ![r] = {}]
    /\ Answer(r, why)
    /\ UNCHANGED << job, sess >>

(* _stage_table: CREATE TEMPORARY TABLE under the table's own name.        *)
StageCreate_IfMissing(r, t) ==
    /\ pc[r] = "stage"
    /\ t \in todo[r]
    /\ todo' = [todo EXCEPT ![r] = @ \ {t}]
    /\ IF tx[second[r]].temps[t] # "none"
       THEN UNCHANGED << pc, tx, cur >>
       ELSE /\ tx' = [tx EXCEPT ![second[r]].temps[t] = "part"]
            /\ cur' = [cur EXCEPT ![r] = {t}]
            /\ Goto(r, "copy")
    /\ UNCHANGED << idle, open, conn, job, sess, second, cause >>
StageCreate(r, t) ==
    /\ pc[r] = "stage"
    /\ t \in todo[r]
    /\ \/ /\ tx[second[r]].temps[t] # "none"
          /\ Leave(r, "exists")
       \/ /\ tx[second[r]].temps[t] = "none"
          /\ tx' = [tx EXCEPT ![second[r]].temps[t] = "part"]
          /\ todo' = [todo EXCEPT ![r] = @ \ {t}]
          /\ cur' = [cur EXCEPT ![r] = {t}]
          /\ Goto(r, "copy")
          /\ UNCHANGED << idle, open, conn, job, sess, second, cause >>

(* Its rows, chunk by chunk.  The source is looked for under the registry's *)
(* name; more than MAX_STAGED_ROWS of them is an error, never a cut.       *)
StageCopy(r) ==
    /\ pc[r] = "copy"
    /\ \/ Leave(r, "database")
       \/ cur[r] \cap Namesakes # {} /\ Leave(r, "missing")
       \/ cur[r] \cap Namesakes = {} /\ Leave(r, "limit")
       \/ /\ cur[r] \cap Namesakes = {}
          /\ tx' = [tx EXCEPT ![second[r]].temps =
                       [t \in OpTables |-> IF t \in cur[r] THEN "whole" ELSE @[t]]]
          /\ cur' = [cur EXCEPT ![r] = {}]
          /\ Goto(r, "stage")
          /\ UNCHANGED << idle, open, conn, job, sess, second, todo, cause >>

StageCommit(r) ==
    /\ pc[r] = "stage"
    /\ todo[r] = {}
    /\ conn' = [conn EXCEPT ![second[r]] = tx[second[r]]]
    /\ Goto(r, "execute")
    /\ UNCHANGED << idle, open, tx, job, sess, second, todo, cur, cause >>

(* _execute_local.  A qualified name does not see the staged table.        *)
Execute(r) ==
    /\ pc[r] = "execute"
    /\ \/ Leave(r, "database")
       \/ Leave(r, IF Qualified(r) /\ Staged(r) \cap Foreign # {} THEN "missing" ELSE "none")

-----------------------------------------------------------------------------
(***************************************************************************)
(* The rest of the request.                                                *)
(***************************************************************************)
EndSession(r) ==
    /\ PutBack(sess[r])
    /\ sess' = [sess EXCEPT ![r] = NoConn]
    /\ UNCHANGED << job, second, todo, cur, cause >>

(* _record_history commits, which gives the session's connection back.     *)
Record(r) ==
    /\ pc[r] = "record"
    /\ EndSession(r)
    /\ Goto(r, "audit")

(* write_audit takes one again; whatever goes wrong there is swallowed.    *)
Audit(r) ==
    /\ pc[r] = "audit"
    /\ \/ /\ \E c \in Available : TakeOut(c) /\ sess' = [sess EXCEPT ![r] = c]
          /\ Goto(r, "unwind")
       \/ /\ NoneInTime
          /\ Goto(r, "idle")
          /\ UNCHANGED << idle, open, sess >>
    /\ UNCHANGED << conn, tx, job, second, todo, cur, cause >>

(* get_session's finally.                                                  *)
Unwind(r) ==
    /\ pc[r] = "unwind"
    /\ EndSession(r)
    /\ Goto(r, "idle")

Work(r) ==
    \/ OpenSession(r) \/ SessionTimeout(r) \/ RunOperational(r)
    \/ OpenSecond(r) \/ SecondTimeout(r)
    \/ \E t \in OpTables : StageCreate(r, t)
    \/ StageCopy(r) \/ StageCommit(r) \/ Execute(r)
    \/ Record(r) \/ Audit(r) \/ Unwind(r)

Next ==
    \E r \in Requests :
        \/ \E rep \in Reports, mode \in Modes : Ask(r, rep, mode)
        \/ Work(r)

Spec == Init /\ [][Next]_vars

(* A request in progress has a thread of its own and every wait in it is   *)
(* bounded: the databases answer or their drivers give up, and so does the *)
(* pool.                                                                   *)
FairSpec == Spec /\ \A r \in Requests : WF_vars(Work(r))

-----------------------------------------------------------------------------
(* "A join against a partial table produces a wrong answer that looks      *)
(* complete": a mixed report reads, of every operational table, the copy   *)
(* this very run made and finished, although the tables other runs left    *)
(* on the connection have the same names.                                  *)
ReadsOwnStaging ==
    \A r \in Requests : pc[r] = "execute" =>
        \A t \in Staged(r) : tx[second[r]].temps[t] = "whole"

(* Every connection is in the pool's queue or held by exactly one request  *)
(* that is under way, whichever way requests fail: nothing leaks.          *)
Holders(c) == {r \in Requests : sess[r] = c} \cup {r \in Requests : second[r] = c}
InQueue(c) == {i \in 1 .. Len(idle) : idle[i] = c}
NothingLeaks ==
    /\ \A c \in Conns : Cardinality(InQueue(c)) + Cardinality(Holders(c))
                          = (IF c \in open THEN 1 ELSE 0)
    /\ \A r \in Requests : pc[r] = "idle" => sess[r] = NoConn /\ second[r] = NoConn

(* Every request holds one connection while it waits for a second: with    *)
(* the pool exhausted they wait for each other, and still every request    *)
(* ends.                                                                   *)
RequestsEnd == \A r \in Requests : pc[r] # "idle" ~> pc[r] = "idle"

-----------------------------------------------------------------------------
(* "Download the full report": an export finds the tables a run finds.     *)
ExportFindsTables ==
    \A r \in Requests : job[r].mode = "export" => cause[r] # "missing"

=============================================================================
