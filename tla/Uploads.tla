------------------------------ MODULE Uploads ------------------------------
(***************************************************************************)
(* Spreadsheets stored as tables, and the requests around them: the routes *)
(* of api/v1/uploads.py and api/v1/auth.py, upload_service.py and the      *)
(* dependencies every route shares (core/deps.py, core/db.py).             *)
(*                                                                         *)
(* A worker has one event loop and one pool of connections.  A route that  *)
(* is a plain function runs in a thread; the loop starts it and, once it   *)
(* has returned, closes its session.  upload_file is a coroutine: it holds *)
(* the loop from its first statement to its last.  A session has a         *)
(* connection from its first query to the next commit or rollback; tables  *)
(* are created, read and dropped on a second one.                          *)
(***************************************************************************)
EXTENDS AuditChain, Sequences, SequencesExt

CONSTANTS
    Workers,        \* processes of the server
    Tokens,         \* session tokens that may be issued
    Files,          \* what may be uploaded
    Limit,          \* pool_size + max_overflow
    SampleRows, MaxRows, MaxColumns,
    MaxAsked,       \* bound: requests that are made
    MaxCrashes      \* bound: workers that die

ASSUME BoundsAssumption ==
    /\ {Limit, SampleRows, MaxRows, MaxColumns} \subseteq Nat \ {0}
    /\ MaxAsked \in Nat /\ MaxCrashes \in Nat
    /\ Workers # {} /\ Tokens # {}

P == INSTANCE UploadParser

(* A heading is a sequence of parts, a row a sequence of cells.            *)
ASSUME FilesAssumption ==
    \A f \in Files :
        /\ f.headings \in Seq(Range(f.headings))
        /\ \A h \in Range(f.headings) : h \in Seq(Range(h))
        /\ f.rows \in Seq(Seq(P!Cells))

VARIABLES
    pc, kind, worker,   \* where each request is, what it asks, who answers it
    token,              \* the session it comes with, or is given
    ds,                 \* the upload it is about
    sess, second,       \* whether it holds a connection for its session, a second one
    file,               \* the file that has just been read, at most one
    loop,               \* the request that keeps a worker's event loop, if any
    sessions,           \* the table of sessions
    rows, tables,       \* the catalogue, and the tables that exist
    mishaps,            \* history: uploads a failure or a crash has cut in two
    asked, crashes

requestVars == << kind, worker, token, ds >>
poolVars    == << sess, second >>
storeVars   == << rows, tables, mishaps >>
vars == << auditVars, requestVars, poolVars, storeVars, pc, file, loop, sessions, asked, crashes >>

Uploaded == 1 .. MaxAsked     \* ids, in the order they are asked for
Kinds    == {"upload", "preview", "delete", "login", "logout"}
Steps    == {"idle", "arrive", "lookup", "verify", "issue", "touch", "passed", "row",
             "parse", "parsed", "second", "using", "commit", "forget", "leave",
             "audit", "insert", "chain", "close"}
Nobody   == "nobody"

TypeOK ==
    /\ pc \in [Requests -> Steps] /\ kind \in [Requests -> Kinds]
    /\ worker \in [Requests -> Workers]
    /\ token \in [Requests -> Tokens] /\ ds \in [Requests -> 0 .. MaxAsked]
    /\ sess \in [Requests -> BOOLEAN] /\ second \in [Requests -> BOOLEAN]
    /\ loop \in [Workers -> Requests \cup {Nobody}]
    /\ sessions \in [Tokens -> {"none", "live", "expired", "gone"}]
    /\ rows \subseteq Uploaded /\ tables \subseteq Uploaded /\ mishaps \subseteq Uploaded
    /\ told \subseteq Kinds \X Uploaded /\ lost \subseteq Kinds \X Uploaded

Init ==
    /\ log = {} /\ nextId = 1 /\ draft = [r \in Requests |-> Blank]
    /\ told = {} /\ lost = {}
    /\ pc = [r \in Requests |-> "idle"]
    /\ kind = [r \in Requests |-> "preview"]
    /\ worker = [r \in Requests |-> CHOOSE w \in Workers : TRUE]
    /\ token = [r \in Requests |-> CHOOSE t \in Tokens : TRUE]
    /\ ds = [r \in Requests |-> 0]
    /\ sess = [r \in Requests |-> FALSE] /\ second = sess
    /\ file = [r \in Requests |-> {}]
    /\ loop = [w \in Workers |-> Nobody]
    /\ sessions \in [Tokens -> {"none", "live"}]
    /\ rows = {} /\ tables = {} /\ mishaps = {}
    /\ asked = 0 /\ crashes = 0

-----------------------------------------------------------------------------
Goto(r, step) == pc' = [pc EXCEPT ![r] = step]

Held(w)  == Cardinality({r \in Requests : worker[r] = w /\ sess[r]})
              + Cardinality({r \in Requests : worker[r] = w /\ second[r]})
Spare(r) == Held(worker[r]) < Limit

(* A query of the session; a commit, a rollback or a close.                *)
Query(r)   == (sess[r] \/ Spare(r)) /\ sess' = [sess EXCEPT ![r] = TRUE]
EndTx(r)   == sess' = [sess EXCEPT ![r] = FALSE]

LoopFree(r) == loop[worker[r]] = Nobody

-----------------------------------------------------------------------------
(* A request arrives: whoever sends it has a token, or the right password. *)
Ask(r) ==
    /\ pc[r] = "idle" /\ asked < MaxAsked
    /\ asked' = asked + 1
    /\ \E k \in Kinds, w \in Workers, t \in Tokens :
          /\ kind' = [kind EXCEPT ![r] = k]
          /\ worker' = [worker EXCEPT ![r] = w]
          /\ token' = [token EXCEPT ![r] = t]
          /\ IF k = "login"
             THEN sessions[t] = "none" /\ \A q \in Requests \ {r} : pc[q] = "idle" \/ token[q] # t
             ELSE sessions[t] # "none"
          /\ \E d \in (CASE k = "upload" -> {asked + 1}
                         [] k \in {"preview", "delete"} -> 1 .. asked
                         [] OTHER -> {0}) : ds' = [ds EXCEPT ![r] = d]
    /\ Goto(r, "arrive")
    /\ UNCHANGED << auditVars, poolVars, storeVars, file, loop, sessions, crashes >>

(* The loop hands the next part of the request to a thread; the body of    *)
(* upload_file it runs itself.                                             *)
Dispatch(r) ==
    /\ pc[r] \in {"arrive", "passed"} /\ LoopFree(r)
    /\ Goto(r, CASE pc[r] = "arrive"     -> (IF kind[r] = "login" THEN "verify" ELSE "lookup")
                 [] kind[r] = "upload"   -> "parse"
                 [] kind[r] = "logout"   -> "leave"
                 [] OTHER                -> "row")
    /\ loop' = IF pc[r] = "passed" /\ kind[r] = "upload"
               THEN [loop EXCEPT ![worker[r]] = r] ELSE loop
    /\ UNCHANGED << auditVars, requestVars, poolVars, storeVars, file, sessions, asked, crashes >>

(* current_principal: the session is looked up and, had it expired, removed; *)
(* its user may have been deactivated.                                     *)
LookUp(r) ==
    /\ pc[r] = "lookup" /\ Spare(r)
    /\ sess' = [sess EXCEPT ![r] = sessions[token[r]] # "expired"]
    /\ sessions' = [sessions EXCEPT ![token[r]] = IF @ = "expired" THEN "gone" ELSE @]
    /\ \/ sessions[token[r]] = "live" /\ Goto(r, "touch")
       \/ Goto(r, "close")
    /\ UNCHANGED << auditVars, requestVars, second, storeVars, file, loop, asked, crashes >>

(* last_seen_at: an UPDATE that finds no row is an error, and the request  *)
(* ends there, as it does where the user lacks the permission (require).   *)
Present(t) == sessions[t] \in {"live", "expired"}
Touch(r) ==
    /\ pc[r] = "touch"
    /\ EndTx(r)
    /\ \/ Present(token[r]) /\ Goto(r, "passed")
       \/ (Present(token[r]) => kind[r] \in {"upload", "delete"}) /\ Goto(r, "close")
    /\ UNCHANGED << auditVars, requestVars, second, storeVars, file, loop, sessions, asked, crashes >>

(* login: a wrong password is recorded, a right one answered with a token. *)
Verify(r) ==
    /\ pc[r] = "verify" /\ Query(r)
    /\ \E valid \in BOOLEAN : Goto(r, IF valid THEN "issue" ELSE "audit")
    /\ UNCHANGED << auditVars, requestVars, second, storeVars, file, loop, sessions, asked, crashes >>

Issue(r) ==
    /\ pc[r] = "issue" /\ EndTx(r)
    /\ sessions' = [sessions EXCEPT ![token[r]] = "live"]
    /\ Goto(r, "audit")
    /\ UNCHANGED << auditVars, requestVars, second, storeVars, file, loop, asked, crashes >>

(* logout: the row is removed, if nobody has done it before; only then     *)
(* there is a commit that gives the connection back.                       *)
Leave(r) ==
    /\ pc[r] = "leave" /\ Spare(r)
    /\ sess' = [sess EXCEPT ![r] = ~Present(token[r])]
    /\ sessions' = [sessions EXCEPT ![token[r]] = "gone"]
    /\ Goto(r, "audit")
    /\ UNCHANGED << auditVars, requestVars, second, storeVars, file, loop, asked, crashes >>

Expire(t) ==
    /\ sessions[t] = "live"
    /\ sessions' = [sessions EXCEPT ![t] = "expired"]
    /\ UNCHANGED << auditVars, requestVars, poolVars, storeVars, pc, file, loop, asked, crashes >>

-----------------------------------------------------------------------------
(* upload_file, up to the second connection: refused files are answered    *)
(* 400; of the others a row is flushed and the table's columns are named.  *)
ReadFile(r) ==
    /\ pc[r] = "parse"
    /\ \E f \in Files :
          IF P!Refused(f) THEN Goto(r, "close") /\ UNCHANGED file
          ELSE Goto(r, "parsed") /\ file' = [file EXCEPT ![r] = {f}]
    /\ UNCHANGED << auditVars, requestVars, poolVars, storeVars, loop, sessions, asked, crashes >>

FlushRow(r) ==
    /\ pc[r] = "parsed" /\ Query(r)
    /\ file' = [file EXCEPT ![r] = {}]
    /\ \E f \in file[r] : Goto(r, IF P!Repeats(P!Names(f.headings)) THEN "close" ELSE "second")
    /\ UNCHANGED << auditVars, requestVars, second, storeVars, loop, sessions, asked, crashes >>

(* delete_upload and preview_upload: db.get, and 404 for what is gone.     *)
GetRow(r) ==
    /\ pc[r] = "row" /\ Query(r)
    /\ Goto(r, IF ds[r] \in rows THEN "second" ELSE "close")
    /\ UNCHANGED << auditVars, requestVars, second, storeVars, file, loop, sessions, asked, crashes >>

TakeSecond(r) ==
    /\ pc[r] = "second" /\ Spare(r)
    /\ second' = [second EXCEPT ![r] = TRUE]
    /\ Goto(r, "using")
    /\ UNCHANGED << auditVars, requestVars, sess, storeVars, file, loop, sessions, asked, crashes >>

(* DROP, CREATE and the batches of INSERT are one transaction; when it     *)
(* fails the session's is rolled back too.                                 *)
Fill_Logged(r) ==
    /\ pc[r] = "using" /\ kind[r] = "upload"
    /\ second' = [second EXCEPT ![r] = FALSE]
    /\ \/ tables' = tables \cup {ds[r]}
       \/ UNCHANGED tables
    /\ Goto(r, "commit")
    /\ UNCHANGED << auditVars, requestVars, sess, rows, mishaps, file, loop, sessions, asked, crashes >>
Fill(r) ==
    /\ pc[r] = "using" /\ kind[r] = "upload"
    /\ second' = [second EXCEPT ![r] = FALSE]
    /\ \/ tables' = tables \cup {ds[r]} /\ Goto(r, "commit") /\ UNCHANGED sess
       \/ EndTx(r) /\ Goto(r, "close") /\ UNCHANGED tables
    /\ UNCHANGED << auditVars, requestVars, rows, mishaps, file, loop, sessions, asked, crashes >>

CommitRow(r) ==
    /\ pc[r] = "commit" /\ EndTx(r)
    /\ \/ rows' = rows \cup {ds[r]} /\ Goto(r, "audit") /\ UNCHANGED mishaps
       \/ mishaps' = mishaps \cup {ds[r]} /\ Goto(r, "close") /\ UNCHANGED rows
    /\ UNCHANGED << auditVars, requestVars, second, tables, file, loop, sessions, asked, crashes >>

(* delete_dataset: a DROP that fails is logged and the row removed.        *)
Undropped(r) ==
    /\ mishaps' = mishaps \cup {ds[r]}
    /\ Goto(r, "forget")
    /\ UNCHANGED tables

DropTable(r) ==
    /\ pc[r] = "using" /\ kind[r] = "delete"
    /\ second' = [second EXCEPT ![r] = FALSE]
    /\ \/ tables' = tables \ {ds[r]} /\ Goto(r, "forget") /\ UNCHANGED mishaps
       \/ Undropped(r)
    /\ UNCHANGED << auditVars, requestVars, sess, rows, file, loop, sessions, asked, crashes >>

Forget_Told(r) ==
    /\ pc[r] = "forget" /\ EndTx(r)
    /\ \/ rows' = rows \ {ds[r]} /\ UNCHANGED mishaps
       \/ mishaps' = mishaps \cup {ds[r]} /\ UNCHANGED rows
    /\ Goto(r, "audit")
    /\ UNCHANGED << auditVars, requestVars, second, tables, file, loop, sessions, asked, crashes >>
Forget(r) ==
    /\ pc[r] = "forget" /\ EndTx(r)
    /\ \/ rows' = rows \ {ds[r]} /\ Goto(r, "audit") /\ UNCHANGED mishaps
       \/ mishaps' = mishaps \cup {ds[r]} /\ Goto(r, "close") /\ UNCHANGED rows
    /\ UNCHANGED << auditVars, requestVars, second, tables, file, loop, sessions, asked, crashes >>

(* sample_rows; a table that is gone is an error of the route.             *)
Sample(r) ==
    /\ pc[r] = "using" /\ kind[r] = "preview"
    /\ second' = [second EXCEPT ![r] = FALSE]
    /\ Goto(r, "close")
    /\ UNCHANGED << auditVars, requestVars, sess, storeVars, file, loop, sessions, asked, crashes >>

(* pool_timeout: no connection in time.  An upload is rolled back, a DROP  *)
(* is skipped, anything else is an error of the route.                     *)
Timeout_Waits(r) ==
    /\ pc[r] \in {"lookup", "verify", "leave", "parsed", "row"} /\ ~sess[r] /\ ~Spare(r)
    /\ Goto(r, "close")
    /\ UNCHANGED << auditVars, requestVars, poolVars, storeVars, file, loop, sessions, asked, crashes >>
Timeout(r) ==
    /\ pc[r] \in {"lookup", "verify", "leave", "parsed", "row", "second"}
    /\ pc[r] # "second" => ~sess[r]
    /\ ~Spare(r)
    /\ IF pc[r] = "second" /\ kind[r] = "delete"
       THEN Undropped(r) /\ UNCHANGED << sess, rows >>
       ELSE EndTx(r) /\ Goto(r, "close") /\ UNCHANGED storeVars
    /\ file' = [file EXCEPT ![r] = {}]
    /\ UNCHANGED << auditVars, requestVars, second, loop, sessions, asked, crashes >>

-----------------------------------------------------------------------------
(* write_audit, on the request's session, once what it tells is committed: *)
(* dataset_uploaded, dataset_deleted or an entry that is about no upload.  *)
Auditing == {"audit", "insert", "chain"}
About(r) == {<< kind[r], d >> : d \in {ds[r]} \ {0}}

AuditRead(r) ==
    /\ pc[r] = "audit" /\ Query(r) /\ ReadTail(r)
    /\ Goto(r, "insert")
    /\ UNCHANGED << requestVars, second, storeVars, file, loop, sessions, asked, crashes >>

AuditInsert(r) ==
    /\ pc[r] = "insert" /\ InsertEntry(r)
    /\ Goto(r, "chain")
    /\ UNCHANGED << requestVars, poolVars, storeVars, file, loop, sessions, asked, crashes >>

AuditCommit(r) ==
    /\ pc[r] = "chain" /\ CommitEntry(r, About(r))
    /\ EndTx(r) /\ Goto(r, "close")
    /\ UNCHANGED << requestVars, second, storeVars, file, loop, sessions, asked, crashes >>

AuditFails(r) ==
    /\ pc[r] \in Auditing /\ DropEntry(r, About(r))
    /\ EndTx(r) /\ Goto(r, "close")
    /\ UNCHANGED << requestVars, second, storeVars, file, loop, sessions, asked, crashes >>

(* The route has returned or raised: the loop is free again, closes the    *)
(* session and sends the answer.                                           *)
Close(r) ==
    /\ pc[r] = "close"
    /\ loop[worker[r]] \in {Nobody, r}
    /\ loop' = [loop EXCEPT ![worker[r]] = Nobody]
    /\ EndTx(r) /\ Goto(r, "idle")
    /\ UNCHANGED << auditVars, requestVars, second, storeVars, file, sessions, asked, crashes >>

(* A worker dies, and what it had not committed with it.                   *)
Crash(w) ==
    LET dead == {r \in Requests : worker[r] = w /\ pc[r] # "idle"}
    IN  /\ crashes < MaxCrashes /\ dead # {}
        /\ crashes' = crashes + 1
        /\ pc' = [r \in Requests |-> IF r \in dead THEN "idle" ELSE pc[r]]
        /\ sess' = [r \in Requests |-> sess[r] /\ r \notin dead]
        /\ second' = [r \in Requests |-> second[r] /\ r \notin dead]
        /\ file' = [r \in Requests |-> IF r \in dead THEN {} ELSE file[r]]
        /\ draft' = [r \in Requests |-> IF r \in dead THEN Blank ELSE draft[r]]
        /\ loop' = [loop EXCEPT ![w] = Nobody]
        /\ mishaps' = mishaps \cup {ds[r] : r \in {q \in dead : pc[q] \in {"commit", "forget"}}}
        /\ lost' = lost \cup UNION {About(r) : r \in {q \in dead : pc[q] \in Auditing}}
        /\ UNCHANGED << log, nextId, told, requestVars, rows, tables, sessions, asked >>

Scheduled(r) == Dispatch(r) \/ Close(r)
Work(r) ==
    \/ LookUp(r) \/ Touch(r) \/ Verify(r) \/ Issue(r) \/ Leave(r)
    \/ ReadFile(r) \/ FlushRow(r) \/ GetRow(r) \/ TakeSecond(r) \/ Timeout(r)
    \/ Fill(r) \/ CommitRow(r) \/ DropTable(r) \/ Forget(r) \/ Sample(r)
    \/ AuditRead(r) \/ AuditInsert(r) \/ AuditCommit(r) \/ AuditFails(r)

Next ==
    \/ \E r \in Requests : Ask(r) \/ Scheduled(r) \/ Work(r)
    \/ \E t \in Tokens : Expire(t)
    \/ \E w \in Workers : Crash(w)

Spec == Init /\ [][Next]_vars

(* Threads run, statements and waits for a connection end one way or the   *)
(* other; the loop takes what is ready in turn, so that a callback comes   *)
(* up although the loop may be busy in between.                            *)
FairSpec ==
    /\ Spec
    /\ \A r \in Requests : WF_vars(Work(r)) /\ SF_vars(Scheduled(r))

-----------------------------------------------------------------------------
(* A table is in the catalogue and in the database, or in neither, except  *)
(* while a request is between the two and after a crash, a commit or a     *)
(* DROP that failed there: no other failure of storing or deleting, and no *)
(* two deletions at once, leave a table nobody can name or a row without   *)
(* one.                                                                    *)
TablesMatchRows ==
    \A d \in Uploaded :
        (d \in tables) # (d \in rows) =>
            \/ d \in mishaps
            \/ \E r \in Requests : ds[r] = d /\ pc[r] \in {"commit", "forget"}

(* "Auditing must never break the request it is recording": an entry is    *)
(* written after what it tells is committed, and given up without a word.  *)
(* Still the trail and the catalogue agree: an upload is listed if it was  *)
(* told to be stored and not to be deleted, whatever order the two entries *)
(* are in, how many delete it and whose commit fails, unless an entry      *)
(* about it is being written or was lost.                                  *)
TrailTellsCatalogue ==
    \A d \in Uploaded :
        (d \in rows) # (<< "upload", d >> \in told /\ << "delete", d >> \notin told) =>
            \/ \E k \in Kinds : << k, d >> \in lost
            \/ \E r \in Requests : ds[r] = d /\ pc[r] \in Auditing

(* An upload keeps the loop and a connection while it waits for a second   *)
(* one, and requests that are done wait for the loop to give theirs back:  *)
(* still every request comes to its end.                                   *)
RequestsEnd == \A r \in Requests : pc[r] # "idle" ~> pc[r] = "idle"

(* What parse keeps of a file: its rows in their order and, of each row,   *)
(* every cell under a heading, unless the cell is too far down to have had *)
(* a say in its column's type; the names are distinct, unless a heading    *)
(* looks like a name that had to be made up.                               *)
FileSurvives ==
    \A f \in UNION Range(file) :
        LET out  == P!Parse(f)
            kept == P!Filled(f)
        IN  /\ Len(out.rows) < Len(kept) => out.warned
            /\ \A i \in DOMAIN out.rows, j \in 1 .. P!Width(f) :
                  out.rows[i][j] = kept[i][j] \/ i > SampleRows
            /\ (\A j \in DOMAIN f.headings : Len(f.headings[j]) = 1) => ~P!Repeats(out.names)

(* "guaranteeing identifiers are unique" (unique_identifiers).             *)
NamesAreUnique == \A f \in UNION Range(file) : ~P!Repeats(P!Names(f.headings))

=============================================================================
