----------------------------- MODULE UploadsProofs -----------------------------
(***************************************************************************)
(* Proofs about Uploads and the AuditChain its requests write, for any     *)
(* number of requests, workers, connections, uploads and crashes.          *)
(***************************************************************************)
EXTENDS Uploads, FiniteSetTheorems, WellFoundedInduction, TLAPS

(* A bounded set of naturals that is not empty has a greatest element.     *)
LEMMA GreatestExists ==
    ASSUME NEW S \in SUBSET Nat, S # {}, NEW n \in Nat, \A i \in S : i < n
    PROVE  \E i \in S : \A k \in S : i >= k
<1> DEFINE T == {n - i : i \in S}
<1>1. T \in SUBSET Nat /\ T # {}
  <2>1. \A i \in S : n - i \in Nat
    OBVIOUS
  <2>2. PICK i \in S : TRUE
    OBVIOUS
  <2>3. n - i \in T
    BY <2>2
  <2> QED
    BY <2>1, <2>3
<1>2. PICK x \in T : \A y \in T : ~(<< y, x >> \in OpToRel(<, Nat))
  <2> HIDE DEF T
  <2> QED
    BY <1>1, NatLessThanWellFounded, WFMin
<1>3. \A y \in T : ~(y < x)
  BY <1>1, <1>2 DEF OpToRel
<1>4. PICK i \in S : x = n - i
  OBVIOUS
<1>5. ASSUME NEW k \in S PROVE i >= k
  <2>1. n - k \in T
    OBVIOUS
  <2>2. ~(n - k < n - i)
    BY <1>3, <1>4, <2>1
  <2> QED
    BY <2>2
<1> QED
  BY <1>5

-----------------------------------------------------------------------------
(***************************************************************************)
(* The audit trail.                                                        *)
(***************************************************************************)
(* What a writer has read: the tail of the chain, which is the newest of   *)
(* the entries it saw, all of which are among the ids.                     *)
Entry(e, n, ids) ==
    /\ e \in [id : Nat, prev : Nat, seen : SUBSET Nat]
    /\ e.prev < n /\ e.seen \subseteq ids
    /\ \/ e.prev = 0 /\ e.seen = {}
       \/ e.prev \in e.seen /\ \A i \in e.seen : i <= e.prev

(* An entry gets its id after it has read the tail it names.               *)
Chained ==
    /\ nextId \in Nat \ {0}
    /\ \A i \in Ids : i < nextId
    /\ \A e \in log : Entry(e, nextId, Ids) /\ e.prev < e.id
    /\ draft \in [Requests -> [id : Nat, prev : Nat, seen : SUBSET Nat]]
    /\ \A r \in Requests : Entry(draft[r], nextId, Ids)
    /\ \A r \in Requests : pc[r] = "chain" => draft[r].prev < draft[r].id /\ draft[r].id < nextId

LEMMA NewestIsTail ==
    ASSUME Chained
    PROVE  /\ Ids \in SUBSET Nat
           /\ \/ Newest = 0 /\ Ids = {}
              \/ Newest \in Ids /\ \A i \in Ids : i <= Newest
<1>1. Ids \in SUBSET Nat
  BY DEF Chained, Entry, Ids
<1>2. CASE log = {}
  BY <1>1, <1>2 DEF Ids, Newest
<1>3. CASE log # {}
  <2>1. Ids # {} /\ nextId \in Nat /\ \A i \in Ids : i < nextId
    BY <1>3 DEF Ids, Chained
  <2>2. \E i \in Ids : \A k \in Ids : i >= k
    <3> HIDE DEF Ids
    <3> QED
      BY <1>1, <2>1, GreatestExists
  <2>3. Newest \in Ids /\ \A k \in Ids : Newest >= k
    BY <1>3, <2>2 DEF Newest
  <2> QED
    BY <1>1, <2>3
<1> QED
  BY <1>2, <1>3

(* A draft, and an entry, stay what they are while ids are handed out and  *)
(* the log grows.                                                          *)
LEMMA EntryStays ==
    ASSUME NEW n \in Nat, NEW m \in Nat, n <= m, NEW I, NEW J, I \subseteq J, NEW e, Entry(e, n, I)
    PROVE  Entry(e, m, J)
BY DEF Entry

LEMMA BlankIsEntry ==
    ASSUME NEW n \in Nat \ {0}, NEW I
    PROVE  Entry(Blank, n, I) /\ Blank \in [id : Nat, prev : Nat, seen : SUBSET Nat]
BY DEF Blank, Entry

(* One request's draft changes, and nothing of what is committed.          *)
LEMMA DraftStep ==
    ASSUME Chained, pc \in [Requests -> Steps], NEW r \in Requests, NEW step,
           pc' = [pc EXCEPT ![r] = step], log' = log,
           nextId' \in Nat, nextId <= nextId',
           NEW e, draft' = [draft EXCEPT ![r] = e], Entry(e, nextId', Ids),
           step = "chain" => e.prev < e.id /\ e.id < nextId'
    PROVE  Chained'
<1>1. Ids' = Ids /\ nextId \in Nat \ {0} /\ nextId' \in Nat \ {0}
  BY DEF Ids, Chained
<1>2. e \in [id : Nat, prev : Nat, seen : SUBSET Nat]
  BY DEF Entry
<1>3. /\ draft' \in [Requests -> [id : Nat, prev : Nat, seen : SUBSET Nat]]
      /\ draft'[r] = e /\ pc'[r] = step
      /\ \A q \in Requests \ {r} : draft'[q] = draft[q] /\ pc'[q] = pc[q]
  BY <1>2 DEF Chained
<1>4. \A f : Entry(f, nextId, Ids) => Entry(f, nextId', Ids')
  BY <1>1, EntryStays
<1>5. \A i \in Ids' : i < nextId'
  BY <1>1, NewestIsTail DEF Chained
<1>6. \A q \in Requests : pc'[q] = "chain" => draft'[q].prev < draft'[q].id /\ draft'[q].id < nextId'
  <2> SUFFICES ASSUME NEW q \in Requests, pc'[q] = "chain"
               PROVE  draft'[q].prev < draft'[q].id /\ draft'[q].id < nextId'
    OBVIOUS
  <2>1. q # r => pc[q] = "chain" /\ draft[q].id \in Nat
    BY <1>3 DEF Chained
  <2> QED
    BY <1>1, <1>3, <2>1 DEF Chained
<1>7. \A f \in log' : Entry(f, nextId', Ids') /\ f.prev < f.id
  BY <1>4 DEF Chained
<1>8. \A q \in Requests : Entry(draft'[q], nextId', Ids')
  BY <1>1, <1>3, <1>4 DEF Chained
<1> QED
  BY <1>1, <1>3, <1>5, <1>6, <1>7, <1>8 DEF Chained

LEMMA ReadTailStep ==
    ASSUME Chained, pc \in [Requests -> Steps], NEW r \in Requests, ReadTail(r), Goto(r, "insert")
    PROVE  Chained'
<1>1. PICK e : e = [id |-> 0, prev |-> Newest, seen |-> Ids]
  OBVIOUS
<1>2. /\ draft' = [draft EXCEPT ![r] = e] /\ nextId' = nextId /\ log' = log
      /\ pc' = [pc EXCEPT ![r] = "insert"] /\ nextId' \in Nat /\ nextId <= nextId'
  BY <1>1 DEF ReadTail, Goto, Chained
<1>3. Entry(e, nextId', Ids)
  BY <1>1, <1>2, NewestIsTail DEF Entry, Chained
<1>4. "insert" = "chain" => e.prev < e.id /\ e.id < nextId'
  OBVIOUS
<1> QED
  BY <1>2, <1>3, <1>4, DraftStep

LEMMA InsertStep ==
    ASSUME Chained, pc \in [Requests -> Steps], NEW r \in Requests, InsertEntry(r), Goto(r, "chain")
    PROVE  Chained'
<1>1. PICK e : e = [draft[r] EXCEPT !.id = nextId]
  OBVIOUS
<1>2. /\ draft' = [draft EXCEPT ![r] = e] /\ nextId' = nextId + 1 /\ log' = log
      /\ pc' = [pc EXCEPT ![r] = "chain"] /\ nextId \in Nat
      /\ nextId' \in Nat /\ nextId <= nextId'
  BY <1>1 DEF InsertEntry, Goto, Chained
<1>3. Entry(draft[r], nextId, Ids)
  BY DEF Chained
<1>4. e.id = nextId /\ e.prev < nextId /\ Entry(e, nextId', Ids)
  BY <1>1, <1>2, <1>3 DEF Entry
<1>5. e.prev < e.id /\ e.id < nextId'
  BY <1>2, <1>4
<1> QED
  BY <1>2, <1>4, <1>5, DraftStep

LEMMA DropStep ==
    ASSUME Chained, pc \in [Requests -> Steps], NEW r \in Requests, NEW A, DropEntry(r, A), Goto(r, "close")
    PROVE  Chained'
<1>1. /\ draft' = [draft EXCEPT ![r] = Blank] /\ nextId' = nextId /\ log' = log
      /\ pc' = [pc EXCEPT ![r] = "close"] /\ nextId' \in Nat /\ nextId <= nextId'
  BY DEF DropEntry, Goto, Chained
<1>2. Entry(Blank, nextId', Ids)
  BY <1>1, BlankIsEntry DEF Chained
<1>3. "close" = "chain" => Blank.prev < Blank.id /\ Blank.id < nextId'
  OBVIOUS
<1> QED
  BY <1>1, <1>2, <1>3, DraftStep

LEMMA CommitStep ==
    ASSUME Chained, pc \in [Requests -> Steps], NEW r \in Requests, pc[r] = "chain",
           NEW A, CommitEntry(r, A), Goto(r, "close")
    PROVE  Chained'
<1>1. nextId \in Nat \ {0} /\ nextId' = nextId /\ log' = log \cup {draft[r]}
      /\ draft' = [draft EXCEPT ![r] = Blank] /\ pc' = [pc EXCEPT ![r] = "close"]
  BY DEF CommitEntry, Goto, Chained
<1>2. Ids' = Ids \cup {draft[r].id}
  BY <1>1 DEF Ids
<1>3. draft[r].prev < draft[r].id /\ draft[r].id < nextId /\ Entry(draft[r], nextId, Ids)
  BY DEF Chained
<1>4. \A f : Entry(f, nextId, Ids) => Entry(f, nextId', Ids')
  BY <1>1, <1>2, EntryStays
<1>5. draft'[r] = Blank /\ pc'[r] = "close"
      /\ \A q \in Requests \ {r} : draft'[q] = draft[q] /\ pc'[q] = pc[q]
  BY <1>1 DEF Chained
<1>6. /\ draft' \in [Requests -> [id : Nat, prev : Nat, seen : SUBSET Nat]]
      /\ Entry(Blank, nextId', Ids')
  BY <1>1, BlankIsEntry DEF Chained
<1>7. \A q \in Requests : Entry(draft'[q], nextId', Ids')
  BY <1>4, <1>5, <1>6 DEF Chained
<1>8. \A f \in log' : Entry(f, nextId', Ids') /\ f.prev < f.id
  BY <1>1, <1>3, <1>4 DEF Chained
<1>9. \A i \in Ids' : i < nextId'
  BY <1>1, <1>2, <1>3 DEF Chained
<1>10. \A q \in Requests : pc'[q] = "chain" => draft'[q].prev < draft'[q].id /\ draft'[q].id < nextId'
  BY <1>1, <1>5 DEF Chained
<1> QED
  BY <1>1, <1>6, <1>7, <1>8, <1>9, <1>10 DEF Chained

(* An entry that saw another names one that is at least as new; the other  *)
(* names an older one than itself.                                         *)
LEMMA ChainedForks == Chained => ForkNeedsOverlap
<1> SUFFICES ASSUME Chained PROVE ForkNeedsOverlap
  OBVIOUS
<1>1. ASSUME NEW e \in log PROVE e.prev \in Ids \cup {0}
  BY DEF Chained, Entry
<1>2. ASSUME NEW e \in log, NEW f \in log, e.prev = f.prev PROVE e.id \notin f.seen
  <2>1. Entry(e, nextId, Ids) /\ Entry(f, nextId, Ids) /\ e.prev < e.id
    BY DEF Chained
  <2> QED
    BY <1>2, <2>1 DEF Entry
<1> QED
  BY <1>1, <1>2 DEF ForkNeedsOverlap

-----------------------------------------------------------------------------
(***************************************************************************)
(* The catalogue and the tables.                                           *)
(***************************************************************************)
(* An upload that has not committed its row, and a deletion that has found *)
(* its row.                                                                *)
Pending      == {"arrive", "lookup", "touch", "passed", "parse", "parsed", "second", "using",
                 "commit"}
Uploading(r) == kind[r] = "upload" /\ pc[r] \in Pending
Removing(r)  == kind[r] = "delete" /\ pc[r] \in {"second", "using", "forget"}

(* Every upload has an id of its own, which nobody else can know before    *)
(* its row is committed.                                                   *)
Numbered ==
    /\ asked \in Nat /\ asked <= MaxAsked
    /\ rows \subseteq 1 .. asked
    /\ \A r \in Requests : ds[r] \in 0 .. asked
    /\ \A r \in Requests : Uploading(r) => ds[r] \in 1 .. asked \ rows
    /\ \A r \in Requests : Removing(r) => ds[r] \in 1 .. asked
    /\ \A r, q \in Requests : Uploading(r) /\ Uploading(q) /\ ds[r] = ds[q] => r = q

(* Who is between the table and the row has left the table as it will be.  *)
Cut ==
    /\ \A r \in Requests : pc[r] = "commit" => kind[r] = "upload" /\ ds[r] \in tables
    /\ \A r \in Requests : pc[r] \in {"parse", "parsed"} => kind[r] = "upload"
    /\ \A r \in Requests : pc[r] = "row" => kind[r] # "upload"
    /\ \A r \in Requests : pc[r] = "forget" =>
          kind[r] = "delete" /\ (ds[r] \in tables => ds[r] \in mishaps)
    /\ \A r, q \in Requests : Uploading(r) /\ Removing(q) => ds[r] # ds[q]

StoreInv == TypeOK /\ Numbered /\ Cut /\ TablesMatchRows

LEMMA IdType == \A n \in Nat : n <= MaxAsked => 0 .. n \subseteq 0 .. MaxAsked /\ 1 .. n \subseteq Uploaded
BY BoundsAssumption DEF Uploaded

(* A step of a request on its way: nothing is stored, removed or cut.      *)
LEMMA PlainStep ==
    ASSUME StoreInv, NEW r \in Requests, NEW step \in Steps \ {"commit", "forget"}, Goto(r, step),
           pc[r] \notin {"commit", "forget"}, UNCHANGED << kind, ds, rows, tables, mishaps, asked >>,
           kind[r] = "upload" /\ step \in Pending => pc[r] \in Pending,
           kind[r] = "delete" /\ step \in {"second", "using"} =>
               pc[r] \in {"second", "using"} \/ ds[r] \in rows,
           step \in {"parse", "parsed"} => kind[r] = "upload",
           step = "row" => kind[r] # "upload"
    PROVE  Numbered' /\ Cut' /\ TablesMatchRows'
<1> USE DEF StoreInv
<1>1. pc'[r] = step /\ \A q \in Requests \ {r} : pc'[q] = pc[q]
  BY DEF Goto, TypeOK
<1>2. \A q \in Requests : Uploading(q)' => Uploading(q)
  BY <1>1 DEF Uploading
<1>3. \A q \in Requests : Removing(q)' => Removing(q) \/ ds[q] \in rows
  BY <1>1 DEF Removing
<1>4. Numbered'
  BY <1>2, <1>3 DEF Numbered
<1>5. Cut'
  <2>1. \A p, q \in Requests : Uploading(p)' /\ Removing(q)' => ds'[p] # ds'[q]
    BY <1>2, <1>3 DEF Cut, Numbered
  <2> QED
    BY <1>1, <2>1 DEF Cut
<1>6. TablesMatchRows'
  BY <1>1 DEF TablesMatchRows
<1> QED
  BY <1>4, <1>5, <1>6

(* The table is there; its row follows.                                    *)
LEMMA FillStep ==
    ASSUME StoreInv, NEW r \in Requests, pc[r] = "using", kind[r] = "upload", Goto(r, "commit"),
           tables' = tables \cup {ds[r]}, UNCHANGED << kind, ds, rows, mishaps, asked >>
    PROVE  Numbered' /\ Cut' /\ TablesMatchRows'
<1> USE DEF StoreInv
<1>1. pc'[r] = "commit" /\ \A q \in Requests \ {r} : pc'[q] = pc[q]
  BY DEF Goto, TypeOK, Steps
<1>2. \A q \in Requests : Uploading(q)' = Uploading(q) /\ Removing(q)' = Removing(q)
  BY <1>1 DEF Uploading, Removing, Pending
<1>3. Numbered'
  BY <1>2 DEF Numbered
<1>4. \A q \in Requests : pc[q] = "forget" => ds[q] # ds[r]
  BY DEF Cut, Uploading, Removing, Pending
<1>5. Cut'
  BY <1>1, <1>2, <1>4 DEF Cut
<1>6. TablesMatchRows'
  BY <1>1 DEF TablesMatchRows
<1> QED
  BY <1>3, <1>5, <1>6

LEMMA CommitRowStep ==
    ASSUME StoreInv, NEW r \in Requests, CommitRow(r)
    PROVE  Numbered' /\ Cut' /\ TablesMatchRows'
<1> USE DEF StoreInv
<1>1. PICK step \in {"audit", "close"} : pc' = [pc EXCEPT ![r] = step]
  BY DEF CommitRow, Goto
<1>2. /\ pc[r] = "commit" /\ UNCHANGED << kind, ds, tables, asked >>
      /\ \/ rows' = rows \cup {ds[r]} /\ mishaps' = mishaps
         \/ mishaps' = mishaps \cup {ds[r]} /\ rows' = rows
  BY DEF CommitRow, requestVars
<1>3. pc'[r] = step /\ \A q \in Requests \ {r} : pc'[q] = pc[q]
  BY <1>1 DEF TypeOK
<1>4. Uploading(r) /\ ds[r] \in tables /\ ds[r] \in 1 .. asked
  BY <1>2 DEF Cut, Numbered, Uploading, Pending
<1>5. \A q \in Requests : /\ Uploading(q)' => Uploading(q) /\ q # r
                          /\ Removing(q)' => Removing(q)
  BY <1>1, <1>2, <1>3 DEF Uploading, Removing, Pending
<1>6. \A q \in Requests : Uploading(q)' => ds[q] # ds[r]
  BY <1>4, <1>5 DEF Numbered
<1>7. Numbered'
  BY <1>2, <1>4, <1>5, <1>6 DEF Numbered
<1>8. Cut'
  BY <1>1, <1>2, <1>3, <1>5 DEF Cut
<1>9. TablesMatchRows'
  BY <1>2, <1>3, <1>4 DEF TablesMatchRows
<1> QED
  BY <1>7, <1>8, <1>9

(* The table is gone, or it is known that it is not.                       *)
LEMMA DropTableStep ==
    ASSUME StoreInv, NEW r \in Requests, kind[r] = "delete", pc[r] \in {"second", "using"},
           Goto(r, "forget"), UNCHANGED << kind, ds, rows, asked >>,
           \/ tables' = tables \ {ds[r]} /\ mishaps' = mishaps
           \/ mishaps' = mishaps \cup {ds[r]} /\ tables' = tables
    PROVE  Numbered' /\ Cut' /\ TablesMatchRows'
<1> USE DEF StoreInv
<1>1. pc'[r] = "forget" /\ \A q \in Requests \ {r} : pc'[q] = pc[q]
  BY DEF Goto, TypeOK
<1>2. \A q \in Requests : Uploading(q)' = Uploading(q) /\ Removing(q)' = Removing(q)
  BY <1>1 DEF Uploading, Removing
<1>3. Numbered'
  BY <1>2 DEF Numbered
<1>4. \A q \in Requests : pc[q] = "commit" => ds[q] # ds[r]
  BY DEF Cut, Uploading, Removing, Pending
<1>5. Cut'
  BY <1>1, <1>2, <1>4 DEF Cut
<1>6. TablesMatchRows'
  BY <1>1 DEF TablesMatchRows
<1> QED
  BY <1>3, <1>5, <1>6

LEMMA ForgetStep ==
    ASSUME StoreInv, NEW r \in Requests, Forget(r)
    PROVE  Numbered' /\ Cut' /\ TablesMatchRows'
<1> USE DEF StoreInv
<1>1. PICK step \in {"audit", "close"} : pc' = [pc EXCEPT ![r] = step]
  BY DEF Forget, Goto
<1>2. /\ pc[r] = "forget" /\ UNCHANGED << kind, ds, tables, asked >>
      /\ \/ rows' = rows \ {ds[r]} /\ mishaps' = mishaps
         \/ mishaps' = mishaps \cup {ds[r]} /\ rows' = rows
  BY DEF Forget, requestVars
<1>3. pc'[r] = step /\ \A q \in Requests \ {r} : pc'[q] = pc[q]
  BY <1>1 DEF TypeOK
<1>4. kind[r] = "delete" /\ (ds[r] \in tables => ds[r] \in mishaps)
  BY <1>2 DEF Cut
<1>5. \A q \in Requests : (Uploading(q)' => Uploading(q)) /\ (Removing(q)' => Removing(q))
  BY <1>1, <1>2, <1>3 DEF Uploading, Removing, Pending
<1>6. Numbered'
  BY <1>2, <1>5 DEF Numbered
<1>7. Cut'
  BY <1>1, <1>2, <1>3, <1>5 DEF Cut
<1>8. TablesMatchRows'
  BY <1>2, <1>3, <1>4 DEF TablesMatchRows
<1> QED
  BY <1>6, <1>7, <1>8

-----------------------------------------------------------------------------
(***************************************************************************)
(* Types.                                                                  *)
(***************************************************************************)
LEMMA InitType == Init => TypeOK /\ Numbered /\ Cut /\ TablesMatchRows
<1> SUFFICES ASSUME Init PROVE TypeOK /\ Numbered /\ Cut /\ TablesMatchRows
  OBVIOUS
<1> USE DEF Init
<1>1. (CHOOSE w \in Workers : TRUE) \in Workers /\ (CHOOSE t \in Tokens : TRUE) \in Tokens
  BY BoundsAssumption
<1>2. MaxAsked \in Nat
  BY BoundsAssumption
<1>3. TypeOK
  BY <1>1, <1>2 DEF TypeOK, Steps, Kinds, Nobody
<1>4. Numbered /\ Cut /\ TablesMatchRows
  BY <1>2 DEF Numbered, Cut, TablesMatchRows, Uploading, Removing, Pending
<1> QED
  BY <1>3, <1>4

(* An entry tells of an upload that was asked for.                         *)
LEMMA AboutType ==
    ASSUME StoreInv, NEW r \in Requests
    PROVE  About(r) \subseteq Kinds \X Uploaded
<1>1. asked \in Nat /\ asked <= MaxAsked /\ MaxAsked \in Nat /\ ds[r] \in 0 .. asked
  BY BoundsAssumption DEF StoreInv, Numbered
<1>2. kind[r] \in Kinds /\ {ds[r]} \ {0} \subseteq Uploaded
  BY <1>1 DEF StoreInv, TypeOK, Uploaded
<1> QED
  BY <1>2 DEF About

LEMMA AskType ==
    ASSUME StoreInv, NEW r \in Requests, Ask(r)
    PROVE  TypeOK'
<1> USE DEF StoreInv, TypeOK, poolVars, storeVars, auditVars
<1>1. asked \in Nat /\ asked < MaxAsked /\ MaxAsked \in Nat
  BY BoundsAssumption DEF Ask, Numbered
<1>2. /\ pc' \in [Requests -> Steps] /\ kind' \in [Requests -> Kinds]
      /\ worker' \in [Requests -> Workers] /\ token' \in [Requests -> Tokens]
  BY DEF Ask, Goto, Steps
<1>3. ds' \in [Requests -> 0 .. MaxAsked]
  <2>1. PICK d \in {asked + 1} \cup (1 .. asked) \cup {0} : ds' = [ds EXCEPT ![r] = d]
    BY DEF Ask, Kinds
  <2>2. d \in 0 .. MaxAsked
    BY <1>1, <2>1 DEF Kinds
  <2> QED
    BY <2>1, <2>2
<1> QED
  BY <1>2, <1>3 DEF Ask

LEMMA WorkType ==
    ASSUME StoreInv, NEW r \in Requests, Scheduled(r) \/ Work(r)
    PROVE  TypeOK'
<1> USE DEF StoreInv, TypeOK, requestVars, poolVars, storeVars, auditVars, Goto, EndTx, Query, Steps
<1>1. CASE Dispatch(r)
  BY <1>1 DEF Dispatch
<1>2. CASE Close(r)
  BY <1>2 DEF Close, Nobody
<1>3. CASE LookUp(r)
  BY <1>3 DEF LookUp
<1>4. CASE Touch(r)
  BY <1>4 DEF Touch
<1>5. CASE Verify(r) \/ Issue(r) \/ Leave(r)
  BY <1>5 DEF Verify, Issue, Leave, Present
<1>6. CASE ReadFile(r) \/ FlushRow(r)
  BY <1>6 DEF ReadFile, FlushRow
<1>7. CASE GetRow(r) \/ TakeSecond(r) \/ Sample(r)
  BY <1>7 DEF GetRow, TakeSecond, Sample
<1>8. CASE Timeout(r)
  <2>1. Removing(r) => ds[r] \in Uploaded
    BY IdType DEF Numbered
  <2> QED
    BY <1>8, <2>1 DEF Timeout, Undropped, Removing
<1>9. CASE Fill(r)
  <2>1. Uploading(r) => ds[r] \in Uploaded
    BY IdType DEF Numbered
  <2> QED
    BY <1>9, <2>1 DEF Fill, Uploading, Pending
<1>10. CASE CommitRow(r)
  <2>1. Uploading(r) => ds[r] \in Uploaded
    BY IdType DEF Numbered
  <2>2. pc[r] = "commit" => Uploading(r)
    BY DEF Cut, Uploading, Pending
  <2> QED
    BY <1>10, <2>1, <2>2 DEF CommitRow
<1>11. CASE DropTable(r) \/ Forget(r)
  <2>1. Removing(r) => ds[r] \in Uploaded
    BY IdType DEF Numbered
  <2>2. Removing(r)
    BY <1>11 DEF DropTable, Forget, Cut, Removing
  <2> QED
    BY <1>11, <2>1, <2>2 DEF DropTable, Undropped, Forget
<1>12. CASE AuditRead(r) \/ AuditInsert(r) \/ AuditCommit(r) \/ AuditFails(r)
  <2>1. About(r) \subseteq Kinds \X Uploaded
    BY AboutType
  <2> QED
    BY <1>12, <2>1 DEF AuditRead, AuditInsert, AuditCommit, AuditFails, Auditing,
                       ReadTail, InsertEntry, CommitEntry, DropEntry
<1> QED
  BY <1>1, <1>2, <1>3, <1>4, <1>5, <1>6, <1>7, <1>8, <1>9, <1>10, <1>11, <1>12 DEF Scheduled, Work

LEMMA CrashType ==
    ASSUME StoreInv, NEW w \in Workers, Crash(w)
    PROVE  TypeOK'
<1> USE DEF StoreInv, TypeOK, requestVars
<1>1. \A q \in Requests : pc[q] \in {"commit", "forget"} => ds[q] \in Uploaded
  <2>1. \A q \in Requests : pc[q] \in {"commit", "forget"} => Uploading(q) \/ Removing(q)
    BY DEF Cut, Uploading, Removing, Pending
  <2> QED
    BY <2>1, IdType DEF Numbered
<1>2. mishaps' \subseteq Uploaded
  BY <1>1 DEF Crash
<1>3. pc' \in [Requests -> Steps] /\ sess' \in [Requests -> BOOLEAN] /\ second' \in [Requests -> BOOLEAN]
  BY DEF Crash, Steps
<1>4. loop' \in [Workers -> Requests \cup {Nobody}]
  BY DEF Crash
<1>5. told' \subseteq Kinds \X Uploaded /\ lost' \subseteq Kinds \X Uploaded
  BY AboutType DEF Crash
<1> QED
  BY <1>2, <1>3, <1>4, <1>5 DEF Crash

-----------------------------------------------------------------------------
(* A new upload has an id nobody has; a request about another has asked    *)
(* for nothing yet.                                                        *)
LEMMA AskStep ==
    ASSUME StoreInv, NEW r \in Requests, Ask(r)
    PROVE  Numbered' /\ Cut' /\ TablesMatchRows'
<1> USE DEF StoreInv
<1>1. PICK k \in Kinds, d \in {asked + 1} \cup (1 .. asked) \cup {0} :
          /\ kind' = [kind EXCEPT ![r] = k] /\ ds' = [ds EXCEPT ![r] = d]
          /\ k = "upload" => d = asked + 1
  BY DEF Ask, Kinds
<1>2. /\ pc' = [pc EXCEPT ![r] = "arrive"] /\ pc[r] = "idle"
      /\ asked \in Nat /\ asked < MaxAsked /\ asked' = asked + 1 /\ MaxAsked \in Nat
      /\ rows' = rows /\ tables' = tables /\ mishaps' = mishaps
  BY BoundsAssumption DEF Ask, Goto, storeVars, Numbered
<1>3. /\ pc'[r] = "arrive" /\ kind'[r] = k /\ ds'[r] = d
      /\ \A q \in Requests \ {r} : pc'[q] = pc[q] /\ kind'[q] = kind[q] /\ ds'[q] = ds[q]
  BY <1>1, <1>2 DEF TypeOK
<1>4. d \in 0 .. asked' /\ (k = "upload" => d = asked + 1)
  BY <1>1, <1>2 DEF Kinds
<1>5. \A q \in Requests \ {r} : (Uploading(q)' <=> Uploading(q)) /\ (Removing(q)' <=> Removing(q))
  BY <1>3 DEF Uploading, Removing
<1>6. (Uploading(r)' => k = "upload") /\ ~Removing(r)'
  BY <1>3 DEF Uploading, Removing
<1>7. Numbered'
  <2>1. rows' \subseteq 1 .. asked' /\ asked' \in Nat /\ asked' <= MaxAsked
    BY <1>2 DEF Numbered
  <2>2. \A q \in Requests : ds'[q] \in 0 .. asked'
    BY <1>2, <1>3, <1>4 DEF Numbered
  <2>3. \A q \in Requests : Uploading(q)' => ds'[q] \in 1 .. asked' \ rows'
    BY <1>2, <1>3, <1>4, <1>5, <1>6 DEF Numbered
  <2>4. \A q \in Requests : Removing(q)' => ds'[q] \in 1 .. asked'
    BY <1>2, <1>3, <1>5, <1>6 DEF Numbered
  <2>5. \A p, q \in Requests : Uploading(p)' /\ Uploading(q)' /\ ds'[p] = ds'[q] => p = q
    <3>1. \A q \in Requests \ {r} : ds'[q] < asked + 1
      BY <1>2, <1>3 DEF Numbered
    <3> QED
      BY <1>2, <1>3, <1>4, <1>5, <1>6, <3>1 DEF Numbered
  <2> QED
    BY <2>1, <2>2, <2>3, <2>4, <2>5 DEF Numbered
<1>8. Cut'
  <2>1. \A p, q \in Requests : Uploading(p)' /\ Removing(q)' => ds'[p] # ds'[q]
    <3>1. \A q \in Requests \ {r} : ds'[q] < asked + 1
      BY <1>2, <1>3 DEF Numbered
    <3> QED
      BY <1>2, <1>3, <1>4, <1>5, <1>6, <3>1 DEF Cut
  <2> QED
    BY <1>2, <1>3, <2>1 DEF Cut
<1>9. TablesMatchRows'
  BY <1>2, <1>3 DEF TablesMatchRows
<1> QED
  BY <1>7, <1>8, <1>9

(* Those a crash ends between the two are the mishaps it adds.             *)
LEMMA CrashStep ==
    ASSUME StoreInv, NEW w \in Workers, Crash(w)
    PROVE  Numbered' /\ Cut' /\ TablesMatchRows'
<1> USE DEF StoreInv
<1>1. PICK dead \in SUBSET Requests :
          /\ pc' = [r \in Requests |-> IF r \in dead THEN "idle" ELSE pc[r]]
          /\ mishaps' = mishaps \cup {ds[r] : r \in {q \in dead : pc[q] \in {"commit", "forget"}}}
  <2>1. {r \in Requests : worker[r] = w /\ pc[r] # "idle"} \in SUBSET Requests
    OBVIOUS
  <2> QED
    BY <2>1 DEF Crash
<1>2. UNCHANGED << kind, ds, rows, tables, asked >>
  BY DEF Crash, requestVars
<1>3. \A q \in Requests : /\ q \in dead => pc'[q] = "idle"
                          /\ q \notin dead => pc'[q] = pc[q]
  BY <1>1
<1>4. \A q \in Requests : (Uploading(q)' => Uploading(q)) /\ (Removing(q)' => Removing(q))
  BY <1>2, <1>3 DEF Uploading, Removing, Pending
<1>5. Numbered'
  BY <1>2, <1>4 DEF Numbered
<1>6. mishaps \subseteq mishaps' /\ \A q \in dead : pc[q] \in {"commit", "forget"} => ds[q] \in mishaps'
  BY <1>1
<1>7. Cut'
  BY <1>2, <1>3, <1>4, <1>6 DEF Cut
<1>8. TablesMatchRows'
  BY <1>2, <1>3, <1>6 DEF TablesMatchRows
<1> QED
  BY <1>5, <1>7, <1>8

(* Whatever a request does on its way, and wherever it is cut short.       *)
LEMMA WorkStep ==
    ASSUME StoreInv, NEW r \in Requests, Scheduled(r) \/ Work(r)
    PROVE  Numbered' /\ Cut' /\ TablesMatchRows'
<1> DEFINE Plain(step) ==
        /\ Goto(r, step) /\ pc[r] \notin {"commit", "forget"}
        /\ kind[r] = "upload" /\ step \in Pending => pc[r] \in Pending
        /\ kind[r] = "delete" /\ step \in {"second", "using"} =>
               pc[r] \in {"second", "using"} \/ ds[r] \in rows
        /\ step \in {"parse", "parsed"} => kind[r] = "upload"
        /\ step = "row" => kind[r] # "upload"
<1>1. ASSUME UNCHANGED << kind, ds, rows, tables, mishaps, asked >>,
             \E step \in Steps \ {"commit", "forget"} : Plain(step)
      PROVE  Numbered' /\ Cut' /\ TablesMatchRows'
  BY <1>1, PlainStep
<1> USE DEF requestVars, storeVars
<1>2. CASE Dispatch(r)
  <2>1. UNCHANGED << kind, ds, rows, tables, mishaps, asked >>
    BY <1>2 DEF Dispatch
  <2>2. kind[r] \in Kinds /\ pc[r] \in {"arrive", "passed"}
    BY <1>2 DEF Dispatch, StoreInv, TypeOK
  <2>3. \E step \in {"verify", "lookup", "parse", "leave", "row"} : Plain(step)
    BY <1>2, <2>2 DEF Dispatch, Pending, Kinds
  <2> QED
    BY <1>1, <2>1, <2>3 DEF Steps
<1>3. CASE Close(r) \/ LookUp(r) \/ Touch(r) \/ Verify(r) \/ Issue(r) \/ Leave(r)
  <2>1. UNCHANGED << kind, ds, rows, tables, mishaps, asked >>
    BY <1>3 DEF Close, LookUp, Touch, Verify, Issue, Leave
  <2>2. \E step \in {"idle", "touch", "close", "passed", "issue", "audit"} : Plain(step)
    BY <1>3 DEF Close, LookUp, Touch, Verify, Issue, Leave, Pending
  <2> QED
    BY <1>1, <2>1, <2>2 DEF Steps
<1>4. CASE ReadFile(r) \/ FlushRow(r)
  <2>1. UNCHANGED << kind, ds, rows, tables, mishaps, asked >>
    BY <1>4 DEF ReadFile, FlushRow
  <2>2. \E step \in {"close", "parsed", "second"} : Plain(step)
    BY <1>4 DEF ReadFile, FlushRow, Pending, StoreInv, Cut
  <2> QED
    BY <1>1, <2>1, <2>2 DEF Steps
<1>5. CASE GetRow(r) \/ TakeSecond(r) \/ Sample(r)
  <2>1. UNCHANGED << kind, ds, rows, tables, mishaps, asked >>
    BY <1>5 DEF GetRow, TakeSecond, Sample
  <2>2. \E step \in {"close", "second", "using"} : Plain(step)
    BY <1>5 DEF GetRow, TakeSecond, Sample, Pending, StoreInv, Cut
  <2> QED
    BY <1>1, <2>1, <2>2 DEF Steps
<1>6. CASE Timeout(r)
  <2>1. CASE pc[r] = "second" /\ kind[r] = "delete"
    BY <1>6, <2>1, DropTableStep DEF Timeout, Undropped
  <2>2. CASE ~(pc[r] = "second" /\ kind[r] = "delete")
    <3>1. UNCHANGED << kind, ds, rows, tables, mishaps, asked >> /\ Plain("close")
      BY <1>6, <2>2 DEF Timeout, Pending
    <3> QED
      BY <1>1, <3>1 DEF Steps
  <2> QED
    BY <2>1, <2>2
<1>7. CASE Fill(r)
  <2>1. CASE tables' = tables \cup {ds[r]} /\ Goto(r, "commit")
    BY <1>7, <2>1, FillStep DEF Fill
  <2>2. CASE Goto(r, "close") /\ UNCHANGED tables
    <3>1. UNCHANGED << kind, ds, rows, tables, mishaps, asked >> /\ Plain("close")
      BY <1>7, <2>2 DEF Fill, Pending
    <3> QED
      BY <1>1, <3>1 DEF Steps
  <2> QED
    BY <1>7, <2>1, <2>2 DEF Fill
<1>8. CASE CommitRow(r)
  BY <1>8, CommitRowStep
<1>9. CASE DropTable(r)
  BY <1>9, DropTableStep DEF DropTable, Undropped
<1>10. CASE Forget(r)
  BY <1>10, ForgetStep
<1>11. CASE AuditRead(r) \/ AuditInsert(r) \/ AuditCommit(r) \/ AuditFails(r)
  <2>1. UNCHANGED << kind, ds, rows, tables, mishaps, asked >>
    BY <1>11 DEF AuditRead, AuditInsert, AuditCommit, AuditFails
  <2>2. \E step \in {"insert", "chain", "close"} : Plain(step)
    BY <1>11 DEF AuditRead, AuditInsert, AuditCommit, AuditFails, Auditing, Pending
  <2> QED
    BY <1>1, <2>1, <2>2 DEF Steps
<1> QED
  BY <1>2, <1>3, <1>4, <1>5, <1>6, <1>7, <1>8, <1>9, <1>10, <1>11 DEF Scheduled, Work

(* The steps that write no entry.                                          *)
LEMMA StillChained ==
    ASSUME Chained, UNCHANGED auditVars,
           \A q \in Requests : pc'[q] = "chain" => pc[q] = "chain"
    PROVE  Chained'
<1>1. Ids' = Ids /\ log' = log /\ nextId' = nextId /\ draft' = draft
  BY DEF auditVars, Ids
<1>2. \A e : Entry(e, nextId', Ids') <=> Entry(e, nextId, Ids)
  BY <1>1
<1> QED
  BY <1>1, <1>2 DEF Chained

LEMMA WorkChained ==
    ASSUME TypeOK, Chained, NEW r \in Requests, Scheduled(r) \/ Work(r) \/ Ask(r)
    PROVE  Chained'
<1>1. pc \in [Requests -> Steps]
  BY DEF TypeOK
<1>2. CASE AuditRead(r)
  BY <1>1, <1>2, ReadTailStep DEF AuditRead
<1>3. CASE AuditInsert(r)
  BY <1>1, <1>3, InsertStep DEF AuditInsert
<1>4. CASE AuditCommit(r)
  BY <1>1, <1>4, CommitStep DEF AuditCommit
<1>5. CASE AuditFails(r)
  BY <1>1, <1>5, DropStep DEF AuditFails
<1>6. ASSUME UNCHANGED auditVars, NEW step \in Steps \ {"chain"}, Goto(r, step)
      PROVE  Chained'
  <2>1. \A q \in Requests : pc'[q] = "chain" => pc[q] = "chain"
    BY <1>1, <1>6 DEF Goto
  <2> QED
    BY <1>6, <2>1, StillChained
<1>7. CASE Ask(r) \/ Dispatch(r) \/ Close(r)
  <2>1. UNCHANGED auditVars
    BY <1>7 DEF Ask, Dispatch, Close
  <2>2. \E step \in {"arrive", "verify", "lookup", "parse", "leave", "row", "idle"} : Goto(r, step)
    BY <1>7 DEF Ask, Dispatch, Close, TypeOK, Kinds
  <2> QED
    BY <1>6, <2>1, <2>2 DEF Steps
<1>8. CASE LookUp(r) \/ Touch(r) \/ Verify(r) \/ Issue(r) \/ Leave(r)
  <2>1. UNCHANGED auditVars
    BY <1>8 DEF LookUp, Touch, Verify, Issue, Leave
  <2>2. \E step \in {"touch", "close", "passed", "issue", "audit"} : Goto(r, step)
    BY <1>8 DEF LookUp, Touch, Verify, Issue, Leave
  <2> QED
    BY <1>6, <2>1, <2>2 DEF Steps
<1>9. CASE ReadFile(r) \/ FlushRow(r) \/ GetRow(r) \/ TakeSecond(r) \/ Timeout(r)
  <2>1. UNCHANGED auditVars
    BY <1>9 DEF ReadFile, FlushRow, GetRow, TakeSecond, Timeout
  <2>2. \E step \in {"close", "parsed", "second", "using", "forget"} : Goto(r, step)
    BY <1>9 DEF ReadFile, FlushRow, GetRow, TakeSecond, Timeout, Undropped
  <2> QED
    BY <1>6, <2>1, <2>2 DEF Steps
<1>10. CASE Fill(r) \/ CommitRow(r) \/ DropTable(r) \/ Forget(r) \/ Sample(r)
  <2>1. UNCHANGED auditVars
    BY <1>10 DEF Fill, CommitRow, DropTable, Forget, Sample
  <2>2. \E step \in {"close", "commit", "forget", "audit"} : Goto(r, step)
    BY <1>10 DEF Fill, CommitRow, DropTable, Forget, Sample, Undropped
  <2> QED
    BY <1>6, <2>1, <2>2 DEF Steps
<1> QED
  BY <1>2, <1>3, <1>4, <1>5, <1>7, <1>8, <1>9, <1>10 DEF Scheduled, Work

(* A crash leaves blank drafts; what is committed stays.                   *)
LEMMA CrashChained ==
    ASSUME Chained, NEW w \in Workers, Crash(w)
    PROVE  Chained'
<1>1. PICK dead \in SUBSET Requests :
          /\ pc' = [r \in Requests |-> IF r \in dead THEN "idle" ELSE pc[r]]
          /\ draft' = [r \in Requests |-> IF r \in dead THEN Blank ELSE draft[r]]
  <2>1. {r \in Requests : worker[r] = w /\ pc[r] # "idle"} \in SUBSET Requests
    OBVIOUS
  <2> QED
    BY <2>1 DEF Crash
<1>2. log' = log /\ nextId' = nextId /\ Ids' = Ids
  BY DEF Crash, Ids
<1>3. Entry(Blank, nextId, Ids) /\ Blank \in [id : Nat, prev : Nat, seen : SUBSET Nat]
  BY BlankIsEntry DEF Chained
<1>4. \A q \in Requests : draft'[q] = IF q \in dead THEN Blank ELSE draft[q]
  BY <1>1
<1>5. draft' \in [Requests -> [id : Nat, prev : Nat, seen : SUBSET Nat]]
  BY <1>1, <1>3 DEF Chained
<1>6. \A q \in Requests : Entry(draft'[q], nextId', Ids')
  BY <1>2, <1>3, <1>4 DEF Chained
<1>7. \A q \in Requests : pc'[q] = "chain" => pc[q] = "chain" /\ draft'[q] = draft[q]
  BY <1>1
<1>8. \A e \in log' : Entry(e, nextId', Ids') /\ e.prev < e.id
  BY <1>2 DEF Chained
<1> QED
  BY <1>2, <1>5, <1>6, <1>7, <1>8 DEF Chained

-----------------------------------------------------------------------------
RequestInv == StoreInv /\ Chained

LEMMA InitInv == Init => RequestInv
<1> SUFFICES ASSUME Init PROVE RequestInv
  OBVIOUS
<1>1. StoreInv
  BY InitType DEF StoreInv
<1>2. Chained
  <2>1. Ids = {} /\ nextId = 1
    BY DEF Init, Ids
  <2>2. Entry(Blank, 1, {}) /\ Blank \in [id : Nat, prev : Nat, seen : SUBSET Nat]
    BY BlankIsEntry
  <2> QED
    BY <2>1, <2>2 DEF Init, Chained
<1> QED
  BY <1>1, <1>2 DEF RequestInv

LEMMA NextInv == RequestInv /\ [Next]_vars => RequestInv'
<1> SUFFICES ASSUME RequestInv, [Next]_vars PROVE RequestInv'
  OBVIOUS
<1> USE DEF RequestInv
<1>1. ASSUME NEW r \in Requests, Ask(r) PROVE RequestInv'
  BY <1>1, AskType, AskStep, WorkChained DEF StoreInv
<1>2. ASSUME NEW r \in Requests, Scheduled(r) \/ Work(r) PROVE RequestInv'
  BY <1>2, WorkType, WorkStep, WorkChained DEF StoreInv
<1>3. ASSUME NEW w \in Workers, Crash(w) PROVE RequestInv'
  BY <1>3, CrashType, CrashStep, CrashChained DEF StoreInv
<1>4. ASSUME UNCHANGED auditVars, UNCHANGED << requestVars, poolVars, storeVars, pc, loop, asked >>,
             sessions' \in [Tokens -> {"none", "live", "expired", "gone"}]
      PROVE  RequestInv'
  <2>1. TypeOK'
    BY <1>4 DEF StoreInv, TypeOK, requestVars, poolVars, storeVars, auditVars
  <2>2. Numbered' /\ Cut' /\ TablesMatchRows'
    BY <1>4 DEF StoreInv, Numbered, Cut, TablesMatchRows, Uploading, Removing, requestVars, storeVars
  <2>3. Chained'
    BY <1>4, StillChained
  <2> QED
    BY <2>1, <2>2, <2>3 DEF StoreInv
<1>5. ASSUME NEW t \in Tokens, Expire(t) PROVE RequestInv'
  <2>1. sessions' \in [Tokens -> {"none", "live", "expired", "gone"}]
    BY <1>5 DEF Expire, StoreInv, TypeOK
  <2> QED
    BY <1>4, <1>5, <2>1 DEF Expire
<1>6. CASE UNCHANGED vars
  BY <1>4, <1>6 DEF vars, StoreInv, TypeOK
<1> QED
  BY <1>1, <1>2, <1>3, <1>5, <1>6 DEF Next

LEMMA RequestInvariant == Spec => []RequestInv
BY InitInv, NextInv, PTL DEF Spec

(* Whatever requests do, and wherever they are cut short, every variable   *)
(* stays of its type: no id is handed out twice, and only ids that were    *)
(* handed out reach the catalogue (store_upload, delete_dataset).          *)
THEOREM RequestsTypeCorrect == Spec => []TypeOK
BY RequestInvariant, PTL DEF RequestInv, StoreInv

(* Storing creates the table before it commits the row, deleting drops it  *)
(* before it removes the row, and neither can reach an id the other is at: *)
(* a table and its row part only where a step between the two failed       *)
(* (upload_service.py: store_upload, delete_dataset).                      *)
THEOREM CatalogueMatchesTables == Spec => []TablesMatchRows
BY RequestInvariant, PTL DEF RequestInv, StoreInv

(* write_audit reads the tail with no lock: entries that name the same     *)
(* predecessor were written without sight of one another, and every entry  *)
(* names one that is committed (core/deps.py: write_audit).                *)
THEOREM ForksAreOverlaps == Spec => []ForkNeedsOverlap
<1>1. RequestInv => ForkNeedsOverlap
  BY ChainedForks DEF RequestInv
<1> QED
  BY <1>1, RequestInvariant, PTL

-----------------------------------------------------------------------------
(***************************************************************************)
(* The catalogue and the trail.                                            *)
(***************************************************************************)
(* What is told, was lost or is being told.                                *)
Said(k, d) ==
    \/ << k, d >> \in told \cup lost
    \/ \E r \in Requests : pc[r] \in Auditing /\ kind[r] = k /\ ds[r] = d

(* An upload is listed once it is said to be stored until it is said to be *)
(* deleted, and nothing is said of one that is on its way.                 *)
Agreed ==
    /\ \A d \in Uploaded : d \in rows <=> Said("upload", d) /\ ~Said("delete", d)
    /\ \A d \in Uploaded, k \in {"upload", "delete"} :
          Said(k, d) => d <= asked /\ \A r \in Requests : Uploading(r) => ds[r] # d
    /\ \A r \in Requests : pc[r] \in {"verify", "issue", "leave"} => kind[r] \notin {"upload", "delete"}

LEMMA AgreedTells == Agreed => TrailTellsCatalogue
BY DEF Agreed, TrailTellsCatalogue, Said, Kinds, Uploaded

(* A step after which the same is said, of the same rows.                  *)
LEMMA SameSaid ==
    ASSUME StoreInv, Agreed, rows' = rows, asked' \in Nat, asked <= asked',
           \A d \in Uploaded, k \in {"upload", "delete"} : Said(k, d)' <=> Said(k, d),
           \A q \in Requests : Uploading(q)' => \/ Uploading(q) /\ ds'[q] = ds[q]
                                                \/ ds'[q] = asked + 1,
           \A q \in Requests : pc'[q] \in {"verify", "issue", "leave"} =>
               kind'[q] \notin {"upload", "delete"}
    PROVE  Agreed'
<1>1. asked \in Nat /\ Uploaded \subseteq Nat
  BY BoundsAssumption DEF StoreInv, Numbered, Uploaded
<1>2. \A d \in Uploaded : d \in rows' <=> Said("upload", d)' /\ ~Said("delete", d)'
  BY DEF Agreed
<1>3. ASSUME NEW d \in Uploaded, NEW k \in {"upload", "delete"}, Said(k, d)',
             NEW q \in Requests, Uploading(q)'
      PROVE  d <= asked' /\ ds'[q] # d
  <2>1. Said(k, d)
    BY <1>3
  <2>2. d <= asked /\ (Uploading(q) => ds[q] # d)
    BY <2>1 DEF Agreed
  <2> QED
    BY <1>1, <1>3, <2>2
<1>4. \A d \in Uploaded, k \in {"upload", "delete"} : Said(k, d)' => d <= asked'
  BY <1>1 DEF Agreed
<1> QED
  BY <1>2, <1>3, <1>4 DEF Agreed, Uploaded

(* A step of one request that neither ends nor begins an entry.            *)
LEMMA StillAgreed ==
    ASSUME StoreInv, Agreed, NEW r \in Requests, NEW step \in Steps, Goto(r, step),
           UNCHANGED << kind, ds, rows, told, lost, asked >>,
           kind[r] \in {"upload", "delete"} => (pc[r] \in Auditing <=> step \in Auditing),
           kind[r] = "upload" /\ step \in Pending => pc[r] \in Pending,
           step \in {"verify", "issue", "leave"} => kind[r] \notin {"upload", "delete"}
    PROVE  Agreed'
<1>1. pc'[r] = step /\ \A q \in Requests \ {r} : pc'[q] = pc[q]
  BY DEF Goto, StoreInv, TypeOK
<1>2. ASSUME NEW d \in Uploaded, NEW k \in {"upload", "delete"} PROVE Said(k, d)' <=> Said(k, d)
  <2>1. \A q \in Requests : (pc'[q] \in Auditing /\ kind[q] = k) <=> (pc[q] \in Auditing /\ kind[q] = k)
    BY <1>1
  <2> QED
    BY <2>1 DEF Said, Auditing
<1>3. \A q \in Requests : Uploading(q)' => Uploading(q) /\ ds'[q] = ds[q]
  BY <1>1 DEF Uploading
<1>4. \A q \in Requests : pc'[q] \in {"verify", "issue", "leave"} => kind'[q] \notin {"upload", "delete"}
  BY <1>1 DEF Agreed
<1>5. asked' \in Nat /\ asked <= asked' /\ rows' = rows
  BY DEF StoreInv, Numbered
<1> QED
  BY <1>2, <1>3, <1>4, <1>5, SameSaid

(* An entry is committed, or lost: what was being told still is said.      *)
LEMMA EntryAgreed ==
    ASSUME StoreInv, Agreed, NEW r \in Requests, Goto(r, "close"), pc[r] \in Auditing,
           UNCHANGED << kind, ds, rows, asked >>,
           (told \cup lost)' = told \cup lost \cup About(r)
    PROVE  Agreed'
<1>1. pc'[r] = "close" /\ \A q \in Requests \ {r} : pc'[q] = pc[q]
  BY DEF Goto, StoreInv, TypeOK, Steps
<1>2. ASSUME NEW d \in Uploaded, NEW k \in {"upload", "delete"} PROVE Said(k, d)' <=> Said(k, d)
  <2>1. << k, d >> \in About(r) <=> kind[r] = k /\ ds[r] = d
    BY BoundsAssumption DEF About, Uploaded
  <2>2. ~(pc'[r] \in Auditing)
    BY <1>1 DEF Auditing
  <2>3. (<< k, d >> \in told \cup lost)' <=> << k, d >> \in told \cup lost \/ (kind[r] = k /\ ds[r] = d)
    BY <2>1
  <2>4. kind'[r] = kind[r] /\ \A q \in Requests \ {r} : pc'[q] \in Auditing <=> pc[q] \in Auditing
    BY <1>1
  <2> QED
    BY <2>2, <2>3, <2>4 DEF Said, Auditing
<1>3. \A q \in Requests : Uploading(q)' => Uploading(q) /\ ds'[q] = ds[q]
  BY <1>1 DEF Uploading, Pending
<1>4. \A q \in Requests : pc'[q] \in {"verify", "issue", "leave"} => kind'[q] \notin {"upload", "delete"}
  BY <1>1 DEF Agreed
<1>5. asked' \in Nat /\ asked <= asked' /\ rows' = rows
  BY DEF StoreInv, Numbered
<1> QED
  BY <1>2, <1>3, <1>4, <1>5, SameSaid

(* A row is committed, or removed, and from then on it is said to be.      *)
LEMMA RowAgreed ==
    ASSUME StoreInv, Agreed, NEW r \in Requests, Goto(r, "audit"),
           UNCHANGED << kind, ds, told, lost, asked >>,
           \/ pc[r] = "commit" /\ rows' = rows \cup {ds[r]}
           \/ pc[r] = "forget" /\ rows' = rows \ {ds[r]}
    PROVE  Agreed'
<1> USE DEF StoreInv
<1>1. pc'[r] = "audit" /\ \A q \in Requests \ {r} : pc'[q] = pc[q]
  BY DEF Goto, TypeOK, Steps
<1>2. kind[r] \in {"upload", "delete"} /\ ds[r] \in 1 .. asked
      /\ (pc[r] = "commit" => kind[r] = "upload" /\ Uploading(r))
      /\ (pc[r] = "forget" => kind[r] = "delete" /\ Removing(r))
  BY DEF Cut, Numbered, Uploading, Removing, Pending
<1>3. ASSUME NEW d \in Uploaded, NEW k \in {"upload", "delete"}
      PROVE  Said(k, d)' <=> Said(k, d) \/ (kind[r] = k /\ ds[r] = d)
  <2>1. pc'[r] \in Auditing /\ pc[r] \notin Auditing
    BY <1>1 DEF Auditing
  <2> QED
    BY <1>1, <2>1 DEF Said, Auditing
<1>4. \A d \in Uploaded : d \in rows' <=> Said("upload", d)' /\ ~Said("delete", d)'
  <2>1. CASE pc[r] = "commit"
    <3>1. ds[r] \in Uploaded => ~Said("delete", ds[r])
      BY <1>2, <2>1 DEF Agreed
    <3>2. rows' = rows \cup {ds[r]} /\ kind[r] = "upload"
      BY <1>2, <2>1
    <3> QED
      BY <1>3, <3>1, <3>2 DEF Agreed
  <2>2. CASE pc[r] = "forget"
    <3>1. rows' = rows \ {ds[r]} /\ kind[r] = "delete"
      BY <1>2, <2>2
    <3> QED
      BY <1>3, <3>1 DEF Agreed
  <2> QED
    BY <2>1, <2>2
<1>5. \A q \in Requests : Uploading(q)' => Uploading(q) /\ ds[q] # ds[r]
  <2> SUFFICES ASSUME NEW q \in Requests, Uploading(q)' PROVE Uploading(q) /\ ds[q] # ds[r]
    OBVIOUS
  <2>1. q # r /\ Uploading(q)
    BY <1>1 DEF Uploading, Pending
  <2>2. CASE pc[r] = "commit"
    BY <1>2, <2>1, <2>2 DEF Numbered
  <2>3. CASE pc[r] = "forget"
    BY <1>2, <2>1, <2>3 DEF Cut
  <2> QED
    BY <2>1, <2>2, <2>3
<1>6. \A d \in Uploaded, k \in {"upload", "delete"} :
          Said(k, d)' => d <= asked' /\ \A q \in Requests : Uploading(q)' => ds'[q] # d
  BY <1>2, <1>3, <1>5 DEF Agreed
<1>7. \A q \in Requests : pc'[q] \in {"verify", "issue", "leave"} => kind'[q] \notin {"upload", "delete"}
  BY <1>1 DEF Agreed
<1> QED
  BY <1>4, <1>6, <1>7 DEF Agreed, Uploaded

LEMMA AskAgreed ==
    ASSUME StoreInv, Agreed, NEW r \in Requests, Ask(r)
    PROVE  Agreed'
<1> USE DEF StoreInv
<1>1. PICK k \in Kinds, d \in {asked + 1} \cup (1 .. asked) \cup {0} :
          /\ kind' = [kind EXCEPT ![r] = k] /\ ds' = [ds EXCEPT ![r] = d]
          /\ k = "upload" => d = asked + 1
  BY DEF Ask, Kinds
<1>2. /\ pc' = [pc EXCEPT ![r] = "arrive"] /\ pc[r] = "idle"
      /\ rows' = rows /\ told' = told /\ lost' = lost
      /\ asked' \in Nat /\ asked <= asked'
  BY DEF Ask, Goto, storeVars, auditVars, Numbered
<1>3. /\ pc'[r] = "arrive" /\ kind'[r] = k /\ ds'[r] = d
      /\ \A q \in Requests \ {r} : pc'[q] = pc[q] /\ kind'[q] = kind[q] /\ ds'[q] = ds[q]
  BY <1>1, <1>2 DEF TypeOK
<1>4. \A e, c : Said(c, e)' <=> Said(c, e)
  BY <1>2, <1>3 DEF Said, Auditing
<1>5. \A q \in Requests : Uploading(q)' => \/ Uploading(q) /\ ds'[q] = ds[q]
                                           \/ ds'[q] = asked + 1
  BY <1>1, <1>3 DEF Uploading
<1>6. \A q \in Requests : pc'[q] \in {"verify", "issue", "leave"} => kind'[q] \notin {"upload", "delete"}
  BY <1>3 DEF Agreed
<1> QED
  BY <1>2, <1>4, <1>5, <1>6, SameSaid

LEMMA WorkAgreed ==
    ASSUME StoreInv, Agreed, NEW r \in Requests, Scheduled(r) \/ Work(r)
    PROVE  Agreed'
<1> DEFINE Quiet(step) ==
        /\ Goto(r, step)
        /\ kind[r] \in {"upload", "delete"} => (pc[r] \in Auditing <=> step \in Auditing)
        /\ kind[r] = "upload" /\ step \in Pending => pc[r] \in Pending
        /\ step \in {"verify", "issue", "leave"} => kind[r] \notin {"upload", "delete"}
<1>1. ASSUME UNCHANGED << kind, ds, rows, told, lost, asked >>, \E step \in Steps : Quiet(step)
      PROVE  Agreed'
  BY <1>1, StillAgreed
<1> USE DEF requestVars, storeVars, auditVars
<1>2. CASE Dispatch(r)
  <2>1. UNCHANGED << kind, ds, rows, told, lost, asked >>
    BY <1>2 DEF Dispatch
  <2>2. kind[r] \in Kinds /\ pc[r] \in {"arrive", "passed"}
    BY <1>2 DEF Dispatch, StoreInv, TypeOK
  <2>3. \E step \in {"verify", "lookup", "parse", "leave", "row"} : Quiet(step)
    BY <1>2, <2>2 DEF Dispatch, Pending, Kinds, Auditing
  <2> QED
    BY <1>1, <2>1, <2>3 DEF Steps
<1>3. CASE Close(r) \/ LookUp(r) \/ Touch(r)
  <2>1. UNCHANGED << kind, ds, rows, told, lost, asked >>
    BY <1>3 DEF Close, LookUp, Touch
  <2>2. \E step \in {"idle", "touch", "close", "passed"} : Quiet(step)
    BY <1>3 DEF Close, LookUp, Touch, Pending, Auditing
  <2> QED
    BY <1>1, <2>1, <2>2 DEF Steps
<1>4. CASE Verify(r) \/ Issue(r) \/ Leave(r)
  <2>1. UNCHANGED << kind, ds, rows, told, lost, asked >> /\ kind[r] \notin {"upload", "delete"}
    BY <1>4 DEF Verify, Issue, Leave, Agreed
  <2>2. \E step \in {"issue", "audit"} : Quiet(step)
    BY <1>4, <2>1 DEF Verify, Issue, Leave
  <2> QED
    BY <1>1, <2>1, <2>2 DEF Steps
<1>5. CASE ReadFile(r) \/ FlushRow(r) \/ GetRow(r) \/ TakeSecond(r) \/ Sample(r)
  <2>1. UNCHANGED << kind, ds, rows, told, lost, asked >>
    BY <1>5 DEF ReadFile, FlushRow, GetRow, TakeSecond, Sample
  <2>2. \E step \in {"close", "parsed", "second", "using"} : Quiet(step)
    BY <1>5 DEF ReadFile, FlushRow, GetRow, TakeSecond, Sample, Pending, Auditing, StoreInv, Cut
  <2> QED
    BY <1>1, <2>1, <2>2 DEF Steps
<1>6. CASE Timeout(r) \/ Fill(r) \/ DropTable(r)
  <2>1. UNCHANGED << kind, ds, rows, told, lost, asked >>
    BY <1>6 DEF Timeout, Undropped, Fill, DropTable
  <2>2. \E step \in {"close", "commit", "forget"} : Quiet(step)
    BY <1>6 DEF Timeout, Undropped, Fill, DropTable, Pending, Auditing
  <2> QED
    BY <1>1, <2>1, <2>2 DEF Steps
<1>7. CASE CommitRow(r) \/ Forget(r)
  <2>1. UNCHANGED << kind, ds, told, lost, asked >> /\ pc[r] \in {"commit", "forget"}
    BY <1>7 DEF CommitRow, Forget
  <2>2. CASE Goto(r, "audit") /\ rows' = (IF pc[r] = "commit" THEN rows \cup {ds[r]} ELSE rows \ {ds[r]})
    BY <2>1, <2>2, RowAgreed
  <2>3. CASE Goto(r, "close") /\ rows' = rows
    <3>1. Quiet("close")
      BY <2>1, <2>3 DEF Auditing, Pending
    <3> QED
      BY <1>1, <2>1, <2>3, <3>1 DEF Steps
  <2> QED
    BY <1>7, <2>2, <2>3 DEF CommitRow, Forget
<1>8. CASE AuditRead(r) \/ AuditInsert(r)
  <2>1. UNCHANGED << kind, ds, rows, told, lost, asked >>
    BY <1>8 DEF AuditRead, AuditInsert, ReadTail, InsertEntry
  <2>2. \E step \in {"insert", "chain"} : Quiet(step)
    BY <1>8 DEF AuditRead, AuditInsert, Auditing, Pending
  <2> QED
    BY <1>1, <2>1, <2>2 DEF Steps
<1>9. CASE AuditCommit(r) \/ AuditFails(r)
  <2>1. /\ Goto(r, "close") /\ pc[r] \in Auditing /\ UNCHANGED << kind, ds, rows, asked >>
        /\ (told \cup lost)' = told \cup lost \cup About(r)
    BY <1>9 DEF AuditCommit, AuditFails, CommitEntry, DropEntry, Auditing
  <2> QED
    BY <2>1, EntryAgreed
<1> QED
  BY <1>2, <1>3, <1>4, <1>5, <1>6, <1>7, <1>8, <1>9 DEF Scheduled, Work

(* What the dead were about to tell is lost.                               *)
LEMMA CrashAgreed ==
    ASSUME StoreInv, Agreed, NEW w \in Workers, Crash(w)
    PROVE  Agreed'
<1>1. PICK dead \in SUBSET Requests :
          /\ pc' = [r \in Requests |-> IF r \in dead THEN "idle" ELSE pc[r]]
          /\ lost' = lost \cup UNION {About(r) : r \in {q \in dead : pc[q] \in Auditing}}
  <2>1. {r \in Requests : worker[r] = w /\ pc[r] # "idle"} \in SUBSET Requests
    OBVIOUS
  <2> QED
    BY <2>1 DEF Crash
<1>2. UNCHANGED << kind, ds, rows, told, asked >>
  BY DEF Crash, requestVars
<1>3. \A q \in Requests : /\ q \in dead => pc'[q] = "idle"
                          /\ q \notin dead => pc'[q] = pc[q]
  BY <1>1
<1>4. ASSUME NEW d \in Uploaded, NEW k \in {"upload", "delete"} PROVE Said(k, d)' <=> Said(k, d)
  <2>1. \A q : << k, d >> \in About(q) <=> kind[q] = k /\ ds[q] = d
    BY BoundsAssumption DEF About, Uploaded
  <2>2. << k, d >> \in lost' <=> \/ << k, d >> \in lost
                                 \/ \E q \in dead : pc[q] \in Auditing /\ kind[q] = k /\ ds[q] = d
    <3>1. << k, d >> \in UNION {About(r) : r \in {q \in dead : pc[q] \in Auditing}}
            <=> \E q \in dead : pc[q] \in Auditing /\ << k, d >> \in About(q)
      OBVIOUS
    <3> QED
      BY <1>1, <2>1, <3>1
  <2>3. \A q \in Requests : pc'[q] \in Auditing <=> q \notin dead /\ pc[q] \in Auditing
    BY <1>3 DEF Auditing
  <2> QED
    BY <1>2, <2>2, <2>3 DEF Said, Auditing
<1>5. \A q \in Requests : Uploading(q)' => Uploading(q) /\ ds'[q] = ds[q]
  BY <1>2, <1>3 DEF Uploading, Pending
<1>6. \A q \in Requests : pc'[q] \in {"verify", "issue", "leave"} => kind'[q] \notin {"upload", "delete"}
  BY <1>2, <1>3 DEF Agreed
<1>7. asked' \in Nat /\ asked <= asked' /\ rows' = rows
  BY <1>2 DEF StoreInv, Numbered
<1> QED
  BY <1>4, <1>5, <1>6, <1>7, SameSaid

LEMMA TrailInvariant == Spec => []Agreed
<1>1. Init => Agreed
  BY DEF Init, Agreed, Said, Auditing
<1>2. RequestInv /\ Agreed /\ [Next]_vars => Agreed'
  <2> SUFFICES ASSUME RequestInv, Agreed, [Next]_vars PROVE Agreed'
    OBVIOUS
  <2> USE DEF RequestInv
  <2>1. ASSUME UNCHANGED << kind, ds, pc, rows, told, lost, asked >> PROVE Agreed'
    BY <2>1 DEF Agreed, Said, Uploading, Auditing, Uploaded
  <2>2. ASSUME NEW t \in Tokens, Expire(t) PROVE Agreed'
    BY <2>1, <2>2 DEF Expire, requestVars, storeVars, auditVars
  <2>3. CASE UNCHANGED vars
    BY <2>1, <2>3 DEF vars, requestVars, storeVars, auditVars
  <2> QED
    BY <2>2, <2>3, AskAgreed, WorkAgreed, CrashAgreed DEF Next
<1> QED
  BY <1>1, <1>2, RequestInvariant, PTL DEF Spec

(* The entry follows what it tells, in a transaction of its own: the       *)
(* catalogue is what the trail tells, whoever uploads and deletes at once  *)
(* and whatever fails, but for the entries under way and those given up    *)
(* (api/v1/uploads.py: upload_file, delete_upload; deps.py: write_audit).  *)
THEOREM TrailAgreesWithCatalogue == Spec => []TrailTellsCatalogue
BY AgreedTells, TrailInvariant, PTL

-----------------------------------------------------------------------------
(***************************************************************************)
(* What parse keeps of a file.                                             *)
(***************************************************************************)
(* The first of a set of positions, and the n-th of a finite one, exist.   *)
LEMMA LeastExists ==
    ASSUME NEW S \in SUBSET Nat, S # {}
    PROVE  \E i \in S : \A k \in S : i <= k
<1>1. PICK x \in S : \A y \in S : ~(<< y, x >> \in OpToRel(<, Nat))
  BY NatLessThanWellFounded, WFMin
<1>2. \A y \in S : ~(y < x)
  BY <1>1 DEF OpToRel
<1> QED
  BY <1>2

(* UploadParser's cardinality and range are the ones known here.           *)
LEMMA SameCardinality == \A S : P!Cardinality(S) = Cardinality(S)
BY DEF P!Cardinality, Cardinality

LEMMA SameRange == \A f : P!Range(f) = Range(f)
BY DEF P!Range, Range

LEMMA OneAppended ==
    ASSUME NEW s, NEW t, s \in Seq(Range(s)), t \in Seq(Range(t)), Len(s) = 1, Len(t) = 1, NEW b, NEW c
    PROVE  /\ Len(Append(s, b)) = 2
           /\ Append(s, b) = Append(t, c) => s = t /\ b = c
OBVIOUS

LEMMA NthExists ==
    ASSUME NEW m \in Nat, NEW S \in SUBSET (1 .. m), NEW n \in 1 .. Cardinality(S)
    PROVE  \E i \in S : Cardinality({k \in S : k <= i}) = n
<1> DEFINE upTo(i) == {k \in S : k <= i}
           far     == {i \in S : n <= Cardinality(upTo(i))}
<1>0. S \in SUBSET Nat /\ IsFiniteSet(S) /\ \A i \in S : i < m + 1
  <2>1. IsFiniteSet(1 .. m)
    BY FS_Interval
  <2>2. IsFiniteSet(S)
    BY <2>1, FS_Subset
  <2> QED
    BY <2>2
<1>1. \A i \in S : IsFiniteSet(upTo(i)) /\ Cardinality(upTo(i)) \in Nat
  BY <1>0, FS_Subset, FS_CardinalityType
<1>2. Cardinality(S) \in Nat /\ S # {} /\ n \in Nat /\ n >= 1 /\ n <= Cardinality(S)
  BY <1>0, FS_CardinalityType, FS_EmptySet
<1>3. far # {}
  <2>1. m + 1 \in Nat
    OBVIOUS
  <2>2. PICK i \in S : \A k \in S : i >= k
    BY <1>0, <1>2, <2>1, GreatestExists
  <2>3. upTo(i) = S
    BY <2>2
  <2> QED
    BY <1>2, <2>3
<1>4. PICK i \in far : \A k \in far : i <= k
  <2>1. far \in SUBSET Nat
    BY <1>0
  <2> HIDE DEF far
  <2> QED
    BY <1>3, <2>1, LeastExists
<1>5. Cardinality(upTo(i)) <= n
  <2> DEFINE below == {k \in S : k < i}
  <2>1. upTo(i) = below \cup {i} /\ i \notin below /\ IsFiniteSet(below) /\ below \in SUBSET Nat
    <3>1. IsFiniteSet(below) /\ below \in SUBSET Nat /\ i \in S
      BY <1>0, FS_Subset
    <3>2. \A k \in S : k <= i <=> k < i \/ k = i
      BY <1>0
    <3>3. below \cup {i} = upTo(i)
      BY <3>1, <3>2
    <3> QED
      BY <3>1, <3>3
  <2>2. Cardinality(upTo(i)) = Cardinality(below) + 1
    <3> HIDE DEF below, upTo
    <3> QED
      BY <2>1, FS_AddElement
  <2>3. Cardinality(below) < n
    <3>1. CASE below = {}
      BY <1>2, <3>1, FS_EmptySet
    <3>2. CASE below # {}
      <4>1. i \in Nat /\ \A k \in below : k < i
        OBVIOUS
      <4>2. PICK p \in below : \A k \in below : p >= k
        <5> HIDE DEF below
        <5> QED
          BY <2>1, <3>2, <4>1, GreatestExists
      <4>3. below = upTo(p) /\ p \in S /\ p < i
        <5>1. p \in S /\ p < i
          OBVIOUS
        <5>2. \A k \in S : k < i <=> k <= p
          BY <1>0, <4>2, <5>1
        <5> QED
          BY <5>1, <5>2
      <4>4. p \notin far
        BY <1>4, <4>1, <4>3
      <4> QED
        BY <1>1, <1>2, <4>3, <4>4
    <3> QED
      BY <3>1, <3>2
  <2>4. Cardinality(below) \in Nat
    BY <2>1, FS_CardinalityType
  <2> QED
    BY <1>2, <2>2, <2>3, <2>4
<1>6. i \in S /\ n <= Cardinality(upTo(i))
  OBVIOUS
<1> HIDE DEF upTo
<1>7. Cardinality(upTo(i)) = n
  BY <1>1, <1>2, <1>5, <1>6
<1> QED
  BY <1>6, <1>7 DEF upTo

(* Every row of a file is as wide as its headings.                         *)
LEMMA RowType ==
    ASSUME NEW f, f.headings \in Seq(Range(f.headings)), NEW values \in Seq(P!Cells)
    PROVE  P!Row(f, values) \in [1 .. P!Width(f) -> P!Cells]
BY DEF P!Row, P!Width, P!Cells, P!Blank

LEMMA FilledType ==
    ASSUME NEW f \in Files
    PROVE  /\ P!Width(f) \in Nat
           /\ P!Filled(f) \in Seq([1 .. P!Width(f) -> P!Cells])
<1>1. f.headings \in Seq(Range(f.headings)) /\ f.rows \in Seq(Seq(P!Cells))
  BY FilesAssumption
<1> DEFINE S == P!Full(f)
<1>2. S \in SUBSET (1 .. Len(f.rows)) /\ S \subseteq DOMAIN f.rows /\ IsFiniteSet(S) /\ Len(f.rows) \in Nat
  <2>1. S \subseteq 1 .. Len(f.rows) /\ Len(f.rows) \in Nat
    BY <1>1 DEF P!Full
  <2>2. IsFiniteSet(1 .. Len(f.rows))
    BY <2>1, FS_Interval
  <2> QED
    BY <1>1, <2>1, <2>2, FS_Subset
<1>3. ASSUME NEW n \in 1 .. Cardinality(S) PROVE P!Nth(S, n) \in S
  <2> HIDE DEF S
  <2>1. \E i \in S : Cardinality({k \in S : k <= i}) = n
    BY <1>2, NthExists
  <2>2. \E i \in S : P!Cardinality({k \in S : k <= i}) = n
    BY <2>1, SameCardinality
  <2> QED
    BY <2>2 DEF P!Nth
<1>4. ASSUME NEW n \in 1 .. Cardinality(S) PROVE P!Row(f, f.rows[P!Nth(S, n)]) \in [1 .. P!Width(f) -> P!Cells]
  <2>1. P!Nth(S, n) \in DOMAIN f.rows
    BY <1>2, <1>3
  <2>2. f.rows[P!Nth(S, n)] \in Seq(P!Cells)
    BY <1>1, <2>1
  <2> QED
    BY <1>1, <2>2, RowType
<1>5. Cardinality(S) \in Nat
  BY <1>2, FS_CardinalityType
<1>6. P!Filled(f) = [n \in 1 .. Cardinality(S) |-> P!Row(f, f.rows[P!Nth(S, n)])]
  <2>1. P!Filled(f) = [n \in 1 .. P!Cardinality(S) |-> P!Row(f, f.rows[P!Nth(S, n)])]
    BY DEF P!Filled
  <2>2. P!Cardinality(S) = Cardinality(S)
    BY SameCardinality
  <2> HIDE DEF S
  <2> QED
    BY <2>1, <2>2
<1> HIDE DEF S
<1> QED
  BY <1>1, <1>4, <1>5, <1>6 DEF P!Width

(* The type of a column reads every cell it was inferred from.             *)
LEMMA InferredReads ==
    ASSUME NEW samples \in SUBSET P!Cells
    PROVE  samples \subseteq P!Reads[P!InferType(samples)]
<1> DEFINE fit == {i \in DOMAIN P!Candidates : P!Fits(P!Candidates[i], samples)}
<1>1. CASE samples = {}
  BY <1>1
<1>2. CASE fit = {}
  BY <1>2 DEF P!InferType, P!Reads
<1>3. CASE samples # {} /\ fit # {}
  <2>1. fit \in SUBSET Nat
    BY DEF P!Candidates
  <2>2. \E i \in fit : \A k \in fit : i <= k
    <3> HIDE DEF fit
    <3> QED
      BY <1>3, <2>1, LeastExists
  <2>3. PICK i \in fit : P!InferType(samples) = P!Candidates[i]
    BY <1>3, <2>2 DEF P!InferType, P!First
  <2> QED
    BY <2>3 DEF P!Fits
<1> QED
  BY <1>1, <1>2, <1>3

LEMMA SampledCellKept ==
    ASSUME NEW samples \in SUBSET P!Cells, NEW cell, cell \in samples \/ cell = P!Blank
    PROVE  P!Coerce(cell, P!InferType(samples)) = cell
BY InferredReads DEF P!Coerce

(* Headings of one part get names of one or two, and no two the same.      *)
LEMMA NamesDiffer ==
    ASSUME NEW f \in Files, \A j \in DOMAIN f.headings : Len(f.headings[j]) = 1
    PROVE  ~P!Repeats(P!Names(f.headings))
<1> DEFINE h == f.headings
           s == P!Names(h)
           n == Len(h)
<1>1. n \in Nat /\ DOMAIN h = 1 .. n /\ \A i \in 1 .. n : h[i] \in Seq(Range(h[i])) /\ Len(h[i]) = 1
  <2>1. h \in Seq(Range(h)) /\ \A x \in Range(h) : x \in Seq(Range(x))
    BY FilesAssumption
  <2>2. n \in Nat /\ DOMAIN h = 1 .. n
    BY <2>1
  <2> QED
    BY <2>1, <2>2 DEF Range
<1>2. DOMAIN s = 1 .. n /\ s \in [1 .. n -> Range(s)] /\ Len(s) = n
  <2>1. s = [i \in 1 .. n |-> s[i]]
    BY <1>1 DEF P!Names
  <2> HIDE DEF s
  <2> QED
    BY <1>1, <2>1 DEF Range
<1>3. \A i \in 1 .. n : s[i] = IF P!Before(h, i) = 0 THEN h[i] ELSE Append(h[i], P!Before(h, i))
  BY <1>1 DEF P!Names
<1> HIDE DEF h, s, n
<1> DEFINE met(i) == {k \in 1 .. (i - 1) : h[k] = h[i]}
<1>4. \A i \in 1 .. n : IsFiniteSet(met(i)) /\ P!Before(h, i) = Cardinality(met(i)) /\ P!Before(h, i) \in Nat
  <2> TAKE i \in 1 .. n
  <2>1. IsFiniteSet(1 .. (i - 1))
    BY <1>1, FS_Interval
  <2>2. IsFiniteSet(met(i))
    BY <2>1, FS_Subset
  <2>3. P!Before(h, i) = Cardinality(met(i))
    BY SameCardinality DEF P!Before
  <2> HIDE DEF met
  <2> QED
    BY <2>2, <2>3, FS_CardinalityType
<1>5. ASSUME NEW i \in 1 .. n, NEW k \in 1 .. n, i < k, h[i] = h[k] PROVE P!Before(h, i) < P!Before(h, k)
  <2>1. met(i) \subseteq met(k) /\ i \in met(k) /\ i \notin met(i)
    BY <1>1, <1>5
  <2> HIDE DEF met
  <2>2. Cardinality(met(i)) <= Cardinality(met(k)) /\ Cardinality(met(i)) # Cardinality(met(k))
    BY <1>4, <2>1, FS_Subset
  <2>3. P!Before(h, i) = Cardinality(met(i)) /\ P!Before(h, k) = Cardinality(met(k))
    BY <1>4
  <2>4. P!Before(h, i) \in Nat /\ P!Before(h, k) \in Nat
    BY <1>4
  <2> QED
    BY <2>2, <2>3, <2>4
<1>6. ASSUME NEW i \in 1 .. n, NEW k \in 1 .. n, i < k PROVE s[i] # s[k]
  <2>1. \A b : Len(Append(h[i], b)) = 2 /\ Len(Append(h[k], b)) = 2 /\ Len(h[i]) = 1 /\ Len(h[k]) = 1
    BY <1>1, OneAppended
  <2>2. \A b, c : Append(h[i], b) = Append(h[k], c) => h[i] = h[k] /\ b = c
    BY <1>1, OneAppended
  <2>3. h[i] = h[k] => P!Before(h, i) < P!Before(h, k) /\ P!Before(h, i) \in Nat /\ P!Before(h, k) \in Nat
    BY <1>4, <1>5, <1>6
  <2>4. s[i] = h[i] \/ s[i] = Append(h[i], P!Before(h, i))
    BY <1>3
  <2>5. s[k] = h[k] \/ s[k] = Append(h[k], P!Before(h, k))
    BY <1>3
  <2>6. h[i] = h[k] => s[k] = Append(h[k], P!Before(h, k))
    <3>1. h[i] = h[k] => P!Before(h, k) # 0
      BY <2>3
    <3> QED
      BY <1>3, <3>1
  <2> DEFINE b == P!Before(h, i)
             c == P!Before(h, k)
             x == h[i]
             y == h[k]
  <2>7. x = y => b # c
    BY <2>3
  <2> HIDE DEF b, c, x, y
  <2>8. CASE x = y
    <3>1. s[k] = Append(y, c) /\ (s[i] = x \/ s[i] = Append(x, b))
      BY <2>4, <2>6, <2>8 DEF b, c, x, y
    <3>2. x # Append(y, c) /\ Append(x, b) # Append(y, c)
      BY <2>1, <2>2, <2>7, <2>8 DEF x, y
    <3> QED
      BY <3>1, <3>2
  <2>9. CASE x # y
    <3>1. (s[k] = y \/ s[k] = Append(y, c)) /\ (s[i] = x \/ s[i] = Append(x, b))
      BY <2>4, <2>5 DEF b, c, x, y
    <3>2. x # Append(y, c) /\ Append(x, b) # Append(y, c) /\ Append(x, b) # y
      BY <2>1, <2>2, <2>9 DEF x, y
    <3> QED
      BY <2>9, <3>1, <3>2
  <2> QED
    BY <2>8, <2>9
<1>7. \A i, k \in 1 .. n : s[i] = s[k] => i = k
  BY <1>1, <1>6
<1>8. s \in Injection(1 .. n, Range(s)) /\ s \in Surjection(1 .. n, Range(s))
  BY <1>2, <1>7 DEF Injection, IsInjective, Surjection, Range
<1>9. IsFiniteSet(1 .. n) /\ Cardinality(1 .. n) = n
  BY <1>1, FS_Interval
<1>10. Cardinality(Range(s)) = n
  BY <1>8, <1>9, FS_Surjection
<1>11. P!Cardinality(P!Range(s)) = Cardinality(Range(s))
  BY SameCardinality, SameRange
<1>12. ~P!Repeats(s)
  BY <1>1, <1>2, <1>10, <1>11 DEF P!Repeats
<1> QED
  BY <1>12 DEF s, h

LEMMA ParseKeeps ==
    ASSUME NEW f \in Files
    PROVE  LET out  == P!Parse(f)
               kept == P!Filled(f)
           IN  /\ Len(out.rows) < Len(kept) => out.warned
               /\ \A i \in DOMAIN out.rows, j \in 1 .. P!Width(f) :
                     out.rows[i][j] = kept[i][j] \/ i > SampleRows
               /\ (\A j \in DOMAIN f.headings : Len(f.headings[j]) = 1) => ~P!Repeats(out.names)
<1> DEFINE out  == P!Parse(f)
           kept == P!Filled(f)
           read == P!Read(f)
           W    == P!Width(f)
           samples(j) == {read[i][j] : i \in DOMAIN read \cap 1 .. SampleRows} \ {P!Blank}
<1>1. W \in Nat /\ kept \in Seq([1 .. W -> P!Cells]) /\ MaxRows \in Nat /\ SampleRows \in Nat
  BY FilledType, BoundsAssumption
<1>2. PICK m \in Nat : /\ m = (IF Len(kept) < MaxRows THEN Len(kept) ELSE MaxRows)
                       /\ read = SubSeq(kept, 1, m)
  BY <1>1 DEF P!Read
<1>3. m <= Len(kept) /\ Len(read) = m /\ DOMAIN read = 1 .. m /\ \A i \in 1 .. m : read[i] = kept[i] /\ read[i] \in [1 .. W -> P!Cells]
  <2> HIDE DEF kept, read, W
  <2>1. m <= Len(kept) /\ Len(kept) \in Nat
    BY <1>1, <1>2
  <2> QED
    BY <1>1, <1>2, <2>1
<1>4. /\ out.names = P!Names(f.headings)
      /\ out.rows = [i \in DOMAIN read |-> [j \in 1 .. W |-> P!Coerce(read[i][j], P!InferType(samples(j)))]]
      /\ out.warned = (Len(read) >= MaxRows)
  BY DEF P!Parse
<1> HIDE DEF out, kept, read, W
<1>5. Len(out.rows) = m
  BY <1>3, <1>4
<1>6. Len(out.rows) < Len(kept) => out.warned
  <2>1. m < Len(kept) => m = MaxRows
    BY <1>1, <1>2
  <2>2. Len(read) = m /\ out.warned = (Len(read) >= MaxRows)
    BY <1>3, <1>4
  <2>3. m < Len(kept) => Len(read) >= MaxRows
    BY <1>1, <2>1, <2>2
  <2> QED
    BY <1>5, <2>2, <2>3
<1>7. ASSUME NEW i \in 1 .. m, NEW j \in 1 .. W, ~(i > SampleRows) PROVE out.rows[i][j] = kept[i][j]
  <2>1. i \in DOMAIN read \cap 1 .. SampleRows
    BY <1>1, <1>3, <1>7
  <2>2. samples(j) \in SUBSET P!Cells
    <3>1. \A k \in 1 .. m : read[k][j] \in P!Cells
      BY <1>3
    <3> QED
      BY <1>3, <3>1
  <2>3. read[i][j] \in samples(j) \/ read[i][j] = P!Blank
    BY <2>1
  <2>4. out.rows[i][j] = P!Coerce(read[i][j], P!InferType(samples(j)))
    BY <1>3, <1>4
  <2> HIDE DEF samples
  <2> QED
    BY <1>3, <2>2, <2>3, <2>4, SampledCellKept
<1>8. DOMAIN out.rows = 1 .. m
  BY <1>3, <1>4
<1> QED
  BY <1>4, <1>6, <1>7, <1>8, NamesDiffer DEF out, kept, W

(* A request has read a file that was uploaded, or none.                   *)
FilesRead == file \in [Requests -> SUBSET Files]

LEMMA FilesStayFiles == Spec => []FilesRead
<1>1. Init => FilesRead
  BY DEF Init, FilesRead
<1>2. FilesRead /\ [Next]_vars => FilesRead'
  <2> SUFFICES ASSUME FilesRead, [Next]_vars PROVE FilesRead'
    OBVIOUS
  <2>1. ASSUME NEW r \in Requests, Ask(r) \/ Scheduled(r) PROVE FilesRead'
    BY <2>1 DEF Ask, Scheduled, Dispatch, Close, FilesRead
  <2>2. ASSUME NEW r \in Requests, ReadFile(r) PROVE FilesRead'
    BY <2>2 DEF ReadFile, FilesRead
  <2>3. ASSUME NEW r \in Requests, Work(r), ~ReadFile(r) PROVE FilesRead'
    BY <2>3 DEF Work, LookUp, Touch, Verify, Issue, Leave, FlushRow, GetRow, TakeSecond, Timeout,
                Undropped, Fill, CommitRow, DropTable, Forget, Sample,
                AuditRead, AuditInsert, AuditCommit, AuditFails, FilesRead
  <2>4. ASSUME NEW t \in Tokens, Expire(t) PROVE FilesRead'
    BY <2>4 DEF Expire, FilesRead
  <2>5. ASSUME NEW w \in Workers, Crash(w) PROVE FilesRead'
    BY <2>5 DEF Crash, FilesRead
  <2>6. CASE UNCHANGED vars
    BY <2>6 DEF vars, FilesRead
  <2> QED
    BY <2>1, <2>2, <2>3, <2>4, <2>5, <2>6 DEF Next
<1> QED
  BY <1>1, <1>2, PTL DEF Spec

(* parse keeps of a file, whatever its size and cells: its rows in their   *)
(* order unless it warns, every cell of the rows that were sampled, and    *)
(* distinct names unless a heading reads like one that had to be made up   *)
(* (uploads/parser.py: parse, infer_type, unique_identifiers).             *)
THEOREM FilesSurvive == Spec => []FileSurvives
<1>1. FilesRead => FileSurvives
  <2> SUFFICES ASSUME FilesRead, NEW f \in UNION Range(file) PROVE f \in Files
    BY ParseKeeps DEF FileSurvives
  <2> QED
    BY DEF FilesRead, Range
<1> QED
  BY <1>1, FilesStayFiles, PTL

=============================================================================
