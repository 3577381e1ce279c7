----------------------------- MODULE AuditChain -----------------------------
(***************************************************************************)
(* The audit trail: write_audit of core/deps.py and audit_row_hash of      *)
(* core/security.py.  An entry is chained to the one with the highest id   *)
(* among those its writer can see; ids are handed out at the INSERT, and   *)
(* the entry can be seen by others from its commit on.  A hash is stood    *)
(* for by the id of the row it was made of, 0 being "genesis".             *)
(***************************************************************************)
EXTENDS Naturals, FiniteSets

CONSTANTS Requests    \* those who may write an entry

VARIABLES
    log,       \* the entries that are committed
    nextId,    \* the sequence behind AuditLog.id
    draft,     \* the entry each request is at
    told,      \* the actions and resources the committed entries name
    lost       \* history: those of the entries that were never written

auditVars == << log, nextId, draft, told, lost >>

(* seen is history: the entries that were committed at the time.           *)
Blank == [id |-> 0, prev |-> 0, seen |-> {}]

Ids == {e.id : e \in log}

Newest_First == IF log = {} THEN 0 ELSE CHOOSE i \in Ids : \A k \in Ids : i <= k
Newest == IF log = {} THEN 0 ELSE CHOOSE i \in Ids : \A k \in Ids : i >= k

ReadTail(r) ==
    /\ draft' = [draft EXCEPT ![r] = [id |-> 0, prev |-> Newest, seen |-> Ids]]
    /\ UNCHANGED << log, nextId, told, lost >>

InsertEntry(r) ==
    /\ draft' = [draft EXCEPT ![r].id = nextId]
    /\ nextId' = nextId + 1
    /\ UNCHANGED << log, told, lost >>

CommitEntry(r, about) ==
    /\ log' = log \cup {draft[r]}
    /\ draft' = [draft EXCEPT ![r] = Blank]
    /\ told' = told \cup about
    /\ UNCHANGED << nextId, lost >>

(* The rollback, which nobody hears of; the id is not handed out again.    *)
DropEntry(r, about) ==
    /\ draft' = [draft EXCEPT ![r] = Blank]
    /\ lost' = lost \cup about
    /\ UNCHANGED << log, nextId, told >>

-----------------------------------------------------------------------------
(* "Chain each audit row to its predecessor": the chain forks, and a row   *)
(* is left that no later hash depends on, only where two entries were      *)
(* written at the same time (the tail is read, and the entry that names it *)
(* written, with no lock in between); and every hash an entry names is     *)
(* that of a row everybody can see.                                        *)
ForkNeedsOverlap ==
    \A e, f \in log :
        /\ e.prev \in Ids \cup {0}
        /\ (e # f /\ e.prev = f.prev) => e.id \notin f.seen /\ f.id \notin e.seen

(* The docstring itself: every row names the one before it.                *)
ChainIsOneLine ==
    \A e \in log : e.prev = (IF \E f \in log : f.id < e.id
                             THEN CHOOSE i \in Ids : i < e.id /\ \A k \in Ids : k < e.id => k <= i
                             ELSE 0)

=============================================================================
