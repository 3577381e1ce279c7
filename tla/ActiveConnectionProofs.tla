----------------------- MODULE ActiveConnectionProofs -----------------------
(***************************************************************************)
(* Proofs about ActiveConnection, for any number of workers, requests and  *)
(* saved connections: every variable keeps its type, a report runs on a    *)
(* connection that was live while it was being answered, and what is kept  *)
(* of connections, in a worker and in the database, is what they are.      *)
(***************************************************************************)
EXTENDS ActiveConnection, FiniteSetTheorems, TLAPS

(* What the setting and a request's reading of it can name: a row that is   *)
(* there or one that has gone, never one still to be created.              *)
NamesKnown ==
    /\ setting \in Conns => conns[setting] # Unused
    /\ \A q \in Requests : my[q].id \in Conns => conns[my[q].id] # Unused

(* An adapter is kept under the connection it was made for.                *)
AdaptersKeyed == \A w \in Workers, k \in Ids : adapters[w][k] \in {None, k}

(* Where a request can be with what it was asked and what it holds.        *)
Holding(q) == \E w \in Workers : lock[w] = q
Placed(q) ==
    /\ pc[q] # "idle" => my[q].at \in Workers
    /\ my[q].op \in {"create", "update"} => my[q].want \in Details
    /\ my[q].op \in {"update", "delete"} => my[q].conn \in Conns
    /\ my[q].stage \in {"key", "dialect", "route", "run"} => my[q].op = "report"
    /\ pc[q] = "execute" => my[q].op = "report"
    /\ Holding(q) => pc[q] \in {"setting", "row", "url", "adapter", "introspect"}

(* What a report has read of the setting was live at some moment of it; if  *)
(* that row has gone since, the builtin connection was.                    *)
Follows(q) ==
    my[q].op = "report" =>
        /\ Live \in active[q]
        /\ pc[q] = "row" => IF my[q].id \in There THEN my[q].id \in active[q]
                                                  ELSE Builtin \in active[q]
        /\ pc[q] \in {"url", "adapter"} => my[q].id \in active[q]
        /\ pc[q] = "execute" => my[q].held \in active[q]

IInv ==
    /\ TypeOK /\ NamesKnown /\ AdaptersKeyed
    /\ \A q \in Requests : Placed(q) /\ Follows(q)

-----------------------------------------------------------------------------
LEMMA Distinct ==
    /\ Unused \notin Details /\ Gone \notin Details /\ None \notin Details
    /\ None \notin Ids /\ None \notin Requests /\ None \notin Workers
    /\ Builtin \in Ids /\ Builtin \notin Conns /\ Conns \subseteq Ids
BY ConstantsAssumption DEF Ids

(* The locals a request is given are locals.                               *)
LEMMA FreeType ==
    ASSUME NEW w \in Workers \cup {None}
    PROVE  /\ Free(w) \in Locals
           /\ Free(w).at = w /\ Free(w).op = "none" /\ Free(w).stage = "none"
           /\ Free(w).id = Builtin
BY Distinct DEF Free, Locals, Ops, Stages

LEMMA LiveType == ASSUME setting \in Ids PROVE Live \in Ids
BY Distinct DEF Live

(* A request that ends, in a step that leaves the live connection and what  *)
(* the others have read of the setting as they were.                       *)
LEMMA EndStepKeeps ==
    ASSUME IInv, NEW r \in Requests, End(r), setting' = setting, Live' = Live,
           conns' \in [Conns -> Details \cup {Unused, Gone}],
           \A c \in Conns : conns[c] # Unused => conns'[c] # Unused,
           \A q \in Requests : my[q].id \in There' <=> my[q].id \in There,
           adapters' \in [Workers -> [Ids -> Ids \cup {None}]], AdaptersKeyed',
           snaps' \in [Workers -> [Ids -> Ids \cup {None}]],
           tainted' \in [Workers -> SUBSET Ids],
           merged' \in SUBSET Conns, crossed' \in SUBSET Conns
    PROVE  IInv'
<1> USE DEF IInv
<1>1. /\ pc' = [pc EXCEPT ![r] = "idle"] /\ my' = [my EXCEPT ![r] = Free(None)]
      /\ active' = [active EXCEPT ![r] = {}] /\ asked' = asked
      /\ lock' = [w \in Workers |-> IF lock[w] = r THEN None ELSE lock[w]]
  BY DEF End, Goto, At
<1>2. TypeOK'
  BY <1>1, FreeType, Distinct DEF TypeOK, Steps
<1>3. NamesKnown'
  BY <1>1, FreeType, Distinct DEF TypeOK, NamesKnown
<1>4. ASSUME NEW q \in Requests PROVE Placed(q)' /\ Follows(q)'
  <2>1. CASE q = r
    BY <1>1, <2>1, FreeType, Distinct DEF TypeOK, Placed, Follows, Holding
  <2>2. CASE q # r
    <3>1. /\ pc'[q] = pc[q] /\ my'[q] = my[q] /\ active'[q] = active[q]
          /\ (Holding(q)' => Holding(q))
      BY <1>1, <2>2, Distinct DEF TypeOK, Holding
    <3> QED BY <3>1 DEF Placed, Follows
  <2> QED BY <2>1, <2>2
<1> QED BY <1>2, <1>3, <1>4

(* A request that ends, with nothing else changed.                         *)
LEMMA EndKeeps ==
    ASSUME IInv, NEW r \in Requests, End(r), UNCHANGED << rows, adapters, snaps, causes >>
    PROVE  IInv'
<1>1. /\ setting' = setting /\ conns' = conns /\ adapters' = adapters /\ snaps' = snaps
      /\ tainted' = tainted /\ merged' = merged /\ crossed' = crossed
  BY DEF rows, causes
<1>2. Live' = Live /\ There' = There /\ AdaptersKeyed'
  BY <1>1 DEF Live, There, Saved, IInv, AdaptersKeyed
<1> QED BY <1>1, <1>2, EndStepKeeps DEF IInv, TypeOK

(* A step of one request that changes neither setting nor rows: what the    *)
(* invariant says of the others stays.                                     *)
LEMMA StepKeeps ==
    ASSUME IInv, TypeOK', AdaptersKeyed', NEW r \in Requests, NEW p, NEW m,
           At(r, p, m), UNCHANGED rows,
           \A q \in Requests : q # r => active'[q] = active[q] /\ (Holding(q)' => Holding(q)),
           m.id \in Conns => conns[m.id] # Unused,
           Placed(r)', Follows(r)'
    PROVE  IInv'
<1> USE DEF IInv
<1>1. /\ pc' = [pc EXCEPT ![r] = p] /\ my' = [my EXCEPT ![r] = m]
      /\ setting' = setting /\ conns' = conns
  BY DEF At, rows
<1>2. NamesKnown'
  BY <1>1 DEF TypeOK, NamesKnown
<1>3. ASSUME NEW q \in Requests PROVE Placed(q)' /\ Follows(q)'
  <2>1. CASE q = r
    BY <2>1
  <2>2. CASE q # r
    <3>1. /\ pc'[q] = pc[q] /\ my'[q] = my[q] /\ active'[q] = active[q]
          /\ Live' = Live /\ There' = There /\ (Holding(q)' => Holding(q))
      BY <1>1, <2>2 DEF TypeOK, Live, There, Saved
    <3> QED BY <3>1 DEF Placed, Follows
  <2> QED BY <2>1, <2>2
<1> QED BY <1>2, <1>3

LEMMA StartKeeps ==
    ASSUME IInv, NEW r \in Requests, NEW w \in Workers, NEW op \in Ops, NEW c \in Ids,
           NEW want \in Details \cup {None}, NEW p \in Steps, Start(r, w, op, c, want, p),
           op \in {"create", "update"} => want \in Details,
           op \in {"update", "delete"} => c \in Conns,
           p \in {"setting", "lock", "probe", "load", "commit"}
    PROVE  IInv'
<1> DEFINE m == [Free(w) EXCEPT !.op = op, !.conn = c, !.want = want,
                                !.stage = IF op = "report" THEN "key" ELSE "none"]
<1>1. /\ m \in Locals /\ m.at = w /\ m.op = op /\ m.want = want /\ m.conn = c /\ m.id = Builtin
      /\ m.stage = IF op = "report" THEN "key" ELSE "none"
  BY FreeType DEF Locals, Stages, Free
<1>2. /\ pc[r] = "idle" /\ asked < MaxRequests /\ asked' = asked + 1
      /\ pc' = [pc EXCEPT ![r] = p] /\ my' = [my EXCEPT ![r] = m]
      /\ active' = [active EXCEPT ![r] = IF op = "report" THEN {Live} ELSE {}]
      /\ setting' = setting /\ conns' = conns /\ adapters' = adapters /\ snaps' = snaps
      /\ lock' = lock /\ tainted' = tainted /\ merged' = merged /\ crossed' = crossed
  BY DEF Start, At, rows, caches, causes
<1> HIDE DEF m
<1>3. Live \in Ids /\ Live' = Live /\ There' = There
  BY <1>2, LiveType DEF IInv, TypeOK, Live, There, Saved
<1>4. TypeOK'
  <2>1. asked' \in 0 .. MaxRequests
    BY <1>2, ConstantsAssumption DEF IInv, TypeOK
  <2>2. active' \in [Requests -> SUBSET Ids]
    BY <1>2, <1>3 DEF IInv, TypeOK
  <2>3. \A v \in Workers : lock[v] # r
    BY <1>2, Distinct DEF IInv, TypeOK
  <2> QED BY <1>1, <1>2, <2>1, <2>2, <2>3, Distinct DEF IInv, TypeOK
<1>5. Placed(r)' /\ Follows(r)'
  <2>1. ~Holding(r)'
    BY <1>2, Distinct DEF IInv, TypeOK, Holding
  <2> QED BY <1>1, <1>2, <1>3, <2>1 DEF IInv, TypeOK, Placed, Follows
<1>6. AdaptersKeyed' /\ \A q \in Requests : Holding(q)' => Holding(q)
  BY <1>2 DEF IInv, AdaptersKeyed, Holding
<1>7. At(r, p, m) /\ UNCHANGED rows
  BY <1>2 DEF At, rows
<1>8. \A q \in Requests : q # r => active'[q] = active[q]
  BY <1>2 DEF IInv, TypeOK
<1> QED BY <1>1, <1>4, <1>5, <1>6, <1>7, <1>8, Distinct, StepKeeps

LEMMA AskKeeps ==
    ASSUME IInv, NEW r \in Requests, NEW w \in Workers, Ask(r, w)
    PROVE  IInv'
<1> USE DEF Ops, Steps
<1>1. CASE StartReport(r, w)
  BY <1>1, StartKeeps, Distinct DEF StartReport
<1>2. CASE StartRescan(r, w)
  BY <1>2, StartKeeps, Distinct DEF StartRescan
<1>3. CASE \E d \in Details : StartCreate(r, w, d)
  BY <1>3, StartKeeps, Distinct DEF StartCreate
<1>4. CASE \E d \in Details : \E c \in Conns : StartUpdate(r, w, c, d)
  BY <1>4, StartKeeps, Distinct DEF StartUpdate
<1>5. CASE \E c \in Conns : StartDelete(r, w, c)
  BY <1>5, StartKeeps, Distinct DEF StartDelete
<1>6. CASE \E i \in Ids : StartActivate(r, w, i)
  BY <1>6, StartKeeps, Distinct DEF StartActivate
<1> QED BY <1>1, <1>2, <1>3, <1>4, <1>5, <1>6 DEF Ask

-----------------------------------------------------------------------------
(* The steps of a report.                                                  *)

(* A step that changes nothing but the position and the locals of a request. *)
LEMMA GotoKeeps ==
    ASSUME IInv, NEW r \in Requests, pc[r] # "idle", NEW p \in Steps, NEW m \in Locals,
           Goto(r, p, m), UNCHANGED << rows, caches, active, causes >>,
           m.at = my[r].at, m.stage = my[r].stage,
           m.id \in Conns => conns[m.id] # Unused,
           p # "idle", Placed(r)', Follows(r)'
    PROVE  IInv'
<1>1. /\ pc' = [pc EXCEPT ![r] = p] /\ my' = [my EXCEPT ![r] = m] /\ asked' = asked
      /\ active' = active /\ setting' = setting /\ conns' = conns /\ adapters' = adapters
      /\ snaps' = snaps /\ lock' = lock /\ tainted' = tainted /\ merged' = merged
      /\ crossed' = crossed
  BY DEF Goto, At, rows, caches, causes
<1>2. TypeOK' /\ AdaptersKeyed'
  BY <1>1 DEF IInv, TypeOK, AdaptersKeyed
<1>3. \A q \in Requests : q # r => active'[q] = active[q] /\ (Holding(q)' => Holding(q))
  BY <1>1 DEF Holding
<1> QED BY <1>1, <1>2, <1>3, StepKeeps DEF Goto, rows

(* A setting just read names a live connection, or one that has gone.      *)
LEMMA ReadSettingKeeps ==
    ASSUME IInv, NEW r \in Requests, ReadSetting(r)
    PROVE  IInv'
<1> DEFINE m == [my[r] EXCEPT !.id = setting]
<1>1. my[r] \in Locals /\ setting \in Ids /\ pc[r] = "setting"
  BY DEF IInv, TypeOK, ReadSetting
<1>2. /\ m \in Locals /\ m.id = setting /\ m.at = my[r].at /\ m.op = my[r].op
      /\ m.want = my[r].want /\ m.conn = my[r].conn /\ m.stage = my[r].stage
  BY <1>1 DEF Locals
<1>3. Goto(r, "row", m) /\ UNCHANGED << rows, caches, active, causes >>
  BY DEF ReadSetting
<1> HIDE DEF m
<1>4. /\ pc'[r] = "row" /\ my'[r] = m /\ active'[r] = active[r] /\ Live' = Live
      /\ There' = There /\ lock' = lock
  BY <1>3 DEF Goto, At, IInv, TypeOK, rows, caches, Live, There, Saved
<1>5. Placed(r)'
  BY <1>1, <1>2, <1>4 DEF IInv, Placed, Holding
<1>6. Follows(r)'
  BY <1>2, <1>4 DEF IInv, Follows, Live
<1> QED BY <1>1, <1>2, <1>3, <1>5, <1>6, GotoKeeps DEF IInv, NamesKnown, Steps

LEMMA ReadRowKeeps ==
    ASSUME IInv, NEW r \in Requests, ReadRow(r)
    PROVE  IInv'
<1> DEFINE i == IF my[r].id \in There THEN my[r].id ELSE Builtin
           m == IF my[r].stage = "key" THEN [my[r] EXCEPT !.id = Builtin, !.key = i]
                                       ELSE [my[r] EXCEPT !.id = i]
           p == IF my[r].stage = "key" THEN "lock" ELSE IF i = Builtin THEN "adapter" ELSE "url"
<1>1. my[r] \in Locals /\ pc[r] = "row"
  BY DEF IInv, TypeOK, ReadRow
<1>2. i \in Ids /\ (i \in Conns => conns[i] # Unused) /\ (my[r].op = "report" => i \in active[r])
  BY <1>1, Distinct DEF IInv, There, Saved, Follows, Locals
<1>3. Goto(r, p, m) /\ UNCHANGED << rows, caches, active, causes >>
  BY DEF ReadRow
<1>4. /\ m \in Locals /\ m.at = my[r].at /\ m.op = my[r].op /\ m.want = my[r].want /\ m.conn = my[r].conn
      /\ m.stage = my[r].stage /\ m.id \in {i, Builtin}
      /\ p \in {"lock", "adapter", "url"} /\ (p # "lock" => m.id = i)
      /\ (p = "lock" => my[r].stage = "key")
  BY <1>1, <1>2, Distinct DEF Locals
<1> HIDE DEF m, p, i
<1>5. /\ pc'[r] = p /\ my'[r] = m /\ active'[r] = active[r] /\ Live' = Live
      /\ There' = There /\ lock' = lock
  BY <1>3 DEF Goto, At, IInv, TypeOK, rows, caches, Live, There, Saved
<1>6. p = "lock" => ~Holding(r)
  BY <1>1, <1>4, Distinct DEF IInv, TypeOK, Holding
<1>7. Placed(r)'
  BY <1>1, <1>4, <1>5, <1>6 DEF IInv, Placed, Holding
<1>8. Follows(r)'
  BY <1>2, <1>4, <1>5 DEF IInv, Follows
<1> QED BY <1>1, <1>2, <1>3, <1>4, <1>7, <1>8, Distinct, GotoKeeps DEF Steps

LEMMA ReadUrlKeeps ==
    ASSUME IInv, NEW r \in Requests, ReadUrl(r)
    PROVE  IInv'
<1>1. CASE ~Saved(my[r].id) /\ End(r)
  BY <1>1, EndKeeps DEF ReadUrl
<1>2. CASE Goto(r, "adapter", my[r]) /\ UNCHANGED << lock, active >>
  <2>1. /\ my[r] \in Locals /\ pc[r] = "url" /\ (my[r].id \in Conns => conns[my[r].id] # Unused)
        /\ UNCHANGED << rows, caches, active, causes >>
    BY <1>2 DEF IInv, TypeOK, NamesKnown, ReadUrl, caches
  <2>2. /\ pc'[r] = "adapter" /\ my'[r] = my[r] /\ active'[r] = active[r] /\ Live' = Live
        /\ There' = There /\ lock' = lock
    BY <1>2, <2>1 DEF Goto, At, IInv, TypeOK, rows, caches, Live, There, Saved
  <2>3. Placed(r)' /\ Follows(r)'
    BY <2>1, <2>2 DEF IInv, Placed, Follows, Holding
  <2> QED BY <1>2, <2>1, <2>3, GotoKeeps DEF Steps
<1> QED BY <1>1, <1>2 DEF ReadUrl

(* get_adapter: whatever the cache holds under this key was made for it.   *)
LEMMA GetAdapterKeeps ==
    ASSUME IInv, NEW r \in Requests, GetAdapter(r)
    PROVE  IInv'
<1> DEFINE w    == my[r].at
           k    == my[r].id
           held == IF adapters[w][k] # None THEN adapters[w][k] ELSE k
           has  == [my[r] EXCEPT !.id = Builtin, !.held = held]
           had  == [my[r] EXCEPT !.id = Builtin]
<1>1. /\ pc[r] = "adapter" /\ my[r] \in Locals /\ w \in Workers /\ k \in Ids
      /\ (my[r].op = "report" => k \in active[r])
  BY DEF IInv, TypeOK, GetAdapter, UseAdapter, Placed, Follows, Locals
<1>2. held = k
  BY <1>1 DEF IInv, AdaptersKeyed
<1>3. /\ adapters' = [adapters EXCEPT ![w][k] = held]
      /\ UNCHANGED << rows, snaps, lock, active, causes >>
      /\ \/ my[r].stage = "scan" /\ Goto(r, "introspect", has)
         \/ my[r].stage = "dialect" /\ Goto(r, "setting", [had EXCEPT !.stage = "route"])
         \/ my[r].stage = "route" /\ Goto(r, "setting", [had EXCEPT !.stage = "run"])
         \/ my[r].stage = "run" /\ Goto(r, "execute", has)
  BY DEF GetAdapter, UseAdapter
<1>4. PICK p \in {"introspect", "setting", "execute"}, m \in Locals :
        /\ Goto(r, p, m)
        /\ m.at = w /\ m.op = my[r].op /\ m.want = my[r].want /\ m.conn = my[r].conn /\ m.id = Builtin
        /\ p = "introspect" => m.stage = "scan" /\ my[r].stage = "scan"
        /\ p # "introspect" => my[r].stage \in {"dialect", "route", "run"}
        /\ p = "setting" => m.stage \in {"route", "run"}
        /\ p = "execute" => m.held = k /\ m.stage = "run"
  <2>1. has \in Locals /\ [had EXCEPT !.stage = "route"] \in Locals
        /\ [had EXCEPT !.stage = "run"] \in Locals
    BY <1>1, <1>2, Distinct DEF Locals, Stages
  <2>2. CASE my[r].stage = "scan"
    BY <1>1, <1>2, <1>3, <2>1, <2>2 DEF Locals
  <2>3. CASE my[r].stage = "dialect"
    BY <1>1, <1>2, <1>3, <2>1, <2>3 DEF Locals
  <2>4. CASE my[r].stage = "route"
    BY <1>1, <1>2, <1>3, <2>1, <2>4 DEF Locals
  <2>5. CASE my[r].stage = "run"
    BY <1>1, <1>2, <1>3, <2>1, <2>5 DEF Locals
  <2> QED BY <1>3, <2>2, <2>3, <2>4, <2>5
<1> HIDE DEF w, k, held, has, had
<1>5. /\ pc' = [pc EXCEPT ![r] = p] /\ my' = [my EXCEPT ![r] = m] /\ asked' = asked
      /\ active' = active /\ setting' = setting /\ conns' = conns /\ snaps' = snaps
      /\ lock' = lock /\ tainted' = tainted /\ merged' = merged /\ crossed' = crossed
      /\ adapters' = [adapters EXCEPT ![w][k] = k] /\ Live' = Live /\ There' = There
  BY <1>2, <1>3, <1>4 DEF Goto, At, rows, causes, Live, There, Saved
<1>6. my[r].stage # "scan" => ~Holding(r)
  BY Distinct DEF IInv, TypeOK, Holding
<1>7. TypeOK' /\ AdaptersKeyed'
  <2>1. adapters' \in [Workers -> [Ids -> Ids \cup {None}]] /\ AdaptersKeyed'
    BY <1>1, <1>5 DEF IInv, TypeOK, AdaptersKeyed
  <2>2. pc' \in [Requests -> Steps] /\ my' \in [Requests -> Locals]
    BY <1>4, <1>5 DEF IInv, TypeOK, Steps
  <2>3. ASSUME NEW v \in Workers, lock'[v] # None
        PROVE  my'[lock'[v]].at = v /\ my'[lock'[v]].stage = "scan" /\ pc'[lock'[v]] # "idle"
    <3>1. lock[v] \in Requests /\ my[lock[v]].at = v /\ my[lock[v]].stage = "scan"
          /\ pc[lock[v]] # "idle"
      BY <1>5, <2>3 DEF IInv, TypeOK
    <3>2. CASE lock[v] = r
      BY <1>4, <1>5, <3>1, <3>2 DEF IInv, TypeOK, w
    <3>3. CASE lock[v] # r
      BY <1>5, <3>1, <3>3 DEF IInv, TypeOK
    <3> QED BY <3>2, <3>3
  <2> QED BY <1>5, <2>1, <2>2, <2>3 DEF IInv, TypeOK
<1>8. Placed(r)' /\ Follows(r)'
  BY <1>1, <1>4, <1>5, <1>6 DEF IInv, TypeOK, Placed, Follows, Holding, w, k
<1>9. At(r, p, m) /\ UNCHANGED rows
      /\ \A q \in Requests : q # r => active'[q] = active[q] /\ (Holding(q)' => Holding(q))
  BY <1>4, <1>5 DEF Goto, rows, Holding
<1> QED BY <1>4, <1>7, <1>8, <1>9, Distinct, StepKeeps

(* get_snapshot: whoever takes the lock of its worker starts a scan.       *)
LEMMA TakeLockKeeps ==
    ASSUME IInv, NEW r \in Requests, TakeLock(r)
    PROVE  IInv'
<1> DEFINE w == my[r].at
           hit == [my[r] EXCEPT !.stage = "dialect", !.key = Builtin]
           miss == [my[r] EXCEPT !.stage = "scan"]
           next == IF my[r].op = "report" THEN "setting" ELSE "adapter"
<1>1. pc[r] = "lock" /\ my[r] \in Locals /\ w \in Workers /\ lock[w] = None
  BY DEF IInv, TypeOK, TakeLock, Placed
<1>2. /\ hit \in Locals /\ hit.at = w /\ hit.op = my[r].op /\ hit.want = my[r].want /\ hit.conn = my[r].conn
      /\ hit.stage = "dialect" /\ hit.id = my[r].id
      /\ miss \in Locals /\ miss.at = w /\ miss.op = my[r].op /\ miss.want = my[r].want /\ miss.conn = my[r].conn
      /\ miss.stage = "scan" /\ miss.id = my[r].id
  BY <1>1, Distinct DEF Locals, Stages
<1>3. /\ UNCHANGED << rows, adapters, snaps, active, causes >>
      /\ \/ my[r].op = "report" /\ Goto(r, "setting", hit) /\ UNCHANGED lock
         \/ Goto(r, next, miss) /\ lock' = [lock EXCEPT ![w] = r]
  BY DEF TakeLock
<1> HIDE DEF w, hit, miss
<1>4. ~Holding(r) /\ (my[r].id \in Conns => conns[my[r].id] # Unused)
      /\ Live' = Live /\ There' = There
  BY <1>1, <1>3, Distinct DEF IInv, TypeOK, Placed, NamesKnown, rows, Live, There, Saved
<1>5. CASE my[r].op = "report" /\ Goto(r, "setting", hit) /\ UNCHANGED lock
  <2>1. /\ pc' = [pc EXCEPT ![r] = "setting"] /\ my' = [my EXCEPT ![r] = hit]
        /\ asked' = asked /\ lock' = lock
    BY <1>5 DEF Goto, At
  <2>2. TypeOK' /\ AdaptersKeyed'
    BY <1>1, <1>2, <1>3, <1>4, <2>1 DEF IInv, TypeOK, AdaptersKeyed, Holding, Steps, rows, causes
  <2>3. Placed(r)' /\ Follows(r)'
    BY <1>1, <1>2, <1>3, <1>4, <1>5, <2>1 DEF IInv, TypeOK, Placed, Follows, Holding
  <2>4. \A q \in Requests : q # r => active'[q] = active[q] /\ (Holding(q)' => Holding(q))
    BY <1>3, <2>1 DEF Holding
  <2> QED BY <1>2, <1>3, <1>4, <1>5, <2>2, <2>3, <2>4, StepKeeps DEF Goto
<1>6. CASE Goto(r, next, miss) /\ lock' = [lock EXCEPT ![w] = r]
  <2>1. /\ pc' = [pc EXCEPT ![r] = next] /\ my' = [my EXCEPT ![r] = miss]
        /\ asked' = asked /\ next \in {"setting", "adapter"}
        /\ (next = "adapter" => my[r].op # "report")
    BY <1>6 DEF Goto, At
  <2> HIDE DEF next
  <2>2. TypeOK' /\ AdaptersKeyed'
    <3>1. lock' \in [Workers -> Requests \cup {None}]
      BY <1>1, <1>6 DEF IInv, TypeOK
    <3>2. ASSUME NEW v \in Workers, lock'[v] # None
          PROVE  my'[lock'[v]].at = v /\ my'[lock'[v]].stage = "scan" /\ pc'[lock'[v]] # "idle"
      <4>1. CASE v = w
        BY <1>1, <1>2, <1>6, <2>1, <4>1 DEF IInv, TypeOK
      <4>2. CASE v # w
        BY <1>1, <1>4, <1>6, <2>1, <3>2, <4>2 DEF IInv, TypeOK, Holding
      <4> QED BY <4>1, <4>2
    <3> QED BY <1>1, <1>2, <1>3, <2>1, <3>1, <3>2
            DEF IInv, TypeOK, AdaptersKeyed, Steps, rows, causes
  <2>3. Placed(r)' /\ Follows(r)'
    BY <1>1, <1>2, <1>3, <1>4, <2>1 DEF IInv, TypeOK, Placed, Follows
  <2>4. \A q \in Requests : q # r => active'[q] = active[q] /\ (Holding(q)' => Holding(q))
    BY <1>1, <1>3, <1>6 DEF IInv, TypeOK, Holding
  <2> QED BY <1>2, <1>3, <1>4, <1>6, <2>2, <2>3, <2>4, StepKeeps DEF Goto
<1> QED BY <1>3, <1>5, <1>6

(* A scan's answer is kept and the lock is given back.                     *)
LEMMA IntrospectKeeps ==
    ASSUME IInv, NEW r \in Requests, Introspect(r)
    PROVE  IInv'
<1> DEFINE w == my[r].at
           k == my[r].key
           m == [my[r] EXCEPT !.stage = "dialect", !.key = Builtin, !.held = None]
<1>1. pc[r] = "introspect" /\ my[r] \in Locals /\ w \in Workers /\ k \in Ids
      /\ my[r].held \in Ids \cup {None}
  BY DEF IInv, TypeOK, Introspect, StoreSnapshot, Placed, Locals
<1>2. /\ snaps' = [snaps EXCEPT ![w][k] = my[r].held]
      /\ UNCHANGED << rows, adapters, merged, crossed >>
      /\ \/ /\ my[r].op = "report" /\ Goto(r, "setting", m)
            /\ lock' = [lock EXCEPT ![w] = None] /\ UNCHANGED active
         \/ my[r].op # "report" /\ End(r)
  BY DEF Introspect, StoreSnapshot
<1>3. tainted' \in [Workers -> SUBSET Ids]
  <2>1. tainted' = [tainted EXCEPT ![w] = IF Cardinality(active[r]) <= 1 THEN tainted[w] \ {k}
                                                                     ELSE tainted[w] \cup {k}]
    BY DEF Introspect, StoreSnapshot
  <2> QED BY <1>1, <2>1 DEF IInv, TypeOK
<1>4. snaps' \in [Workers -> [Ids -> Ids \cup {None}]]
  BY <1>1, <1>2 DEF IInv, TypeOK
<1>5. Live' = Live /\ There' = There
  BY <1>2 DEF rows, Live, There, Saved
<1>6. /\ m \in Locals /\ m.at = w /\ m.op = my[r].op /\ m.want = my[r].want /\ m.conn = my[r].conn
      /\ m.stage = "dialect" /\ m.id = my[r].id
  BY <1>1, Distinct DEF Locals, Stages
<1> HIDE DEF m, w, k
<1>7. CASE /\ my[r].op = "report" /\ Goto(r, "setting", m)
           /\ lock' = [lock EXCEPT ![w] = None] /\ UNCHANGED active
  <2>1. /\ pc' = [pc EXCEPT ![r] = "setting"] /\ my' = [my EXCEPT ![r] = m] /\ asked' = asked
    BY <1>7 DEF Goto, At
  <2>2. \A v \in Workers : lock'[v] # None => v # w /\ lock'[v] = lock[v] /\ lock[v] # r
    BY <1>1, <1>7 DEF IInv, TypeOK, w
  <2>3. TypeOK' /\ AdaptersKeyed'
    BY <1>1, <1>2, <1>3, <1>4, <1>6, <1>7, <2>1, <2>2
       DEF IInv, TypeOK, AdaptersKeyed, Steps, rows
  <2>4. ~Holding(r)' /\ \A q \in Requests : q # r => (Holding(q)' => Holding(q))
    BY <1>7, <2>2, Distinct DEF Holding
  <2>5. Placed(r)' /\ Follows(r)'
    BY <1>1, <1>5, <1>6, <1>7, <2>1, <2>4 DEF IInv, TypeOK, Placed, Follows, w
  <2> QED BY <1>2, <1>6, <1>7, <2>3, <2>4, <2>5, StepKeeps DEF Goto, IInv, NamesKnown
<1>8. CASE my[r].op # "report" /\ End(r)
  <2>1. /\ setting' = setting /\ conns' = conns /\ adapters' = adapters
        /\ merged' = merged /\ crossed' = crossed
    BY <1>2 DEF rows
  <2>2. AdaptersKeyed'
    BY <2>1 DEF IInv, AdaptersKeyed
  <2> QED BY <1>3, <1>4, <1>5, <1>8, <2>1, <2>2, EndStepKeeps DEF IInv, TypeOK
<1> QED BY <1>2, <1>7, <1>8

LEMMA ReportEnds ==
    ASSUME IInv, NEW r \in Requests, ScanFails(r) \/ Execute(r)
    PROVE  IInv'
BY EndKeeps DEF ScanFails, Execute

-----------------------------------------------------------------------------
(* The steps of the administrator's operations.                            *)
LEMMA LoadKeeps ==
    ASSUME IInv, NEW r \in Requests, Load(r)
    PROVE  IInv'
<1> DEFINE m == [my[r] EXCEPT !.base = conns[my[r].conn]]
           p == IF my[r].op = "delete" THEN "check" ELSE "probe"
<1>1. my[r] \in Locals /\ pc[r] = "load"
  BY DEF IInv, TypeOK, Load
<1>2. CASE ~Saved(my[r].conn) /\ End(r)
  BY <1>2, EndKeeps DEF Load
<1>3. CASE Saved(my[r].conn) /\ Goto(r, p, m) /\ UNCHANGED << lock, active >>
  <2>1. /\ m \in Locals /\ m.at = my[r].at /\ m.op = my[r].op /\ m.want = my[r].want /\ m.conn = my[r].conn
        /\ m.stage = my[r].stage /\ m.id = my[r].id /\ p \in {"check", "probe"}
    BY <1>1, <1>3 DEF Locals, Saved
  <2> HIDE DEF m, p
  <2>2. UNCHANGED << rows, caches, active, causes >>
    BY <1>3 DEF Load, caches
  <2>3. /\ pc'[r] = p /\ my'[r] = m /\ active'[r] = active[r] /\ Live' = Live /\ lock' = lock
    BY <1>3, <2>2 DEF Goto, At, IInv, TypeOK, rows, Live, There, Saved
  <2>4. Placed(r)' /\ Follows(r)'
    BY <1>1, <2>1, <2>3 DEF IInv, Placed, Follows, Holding
  <2> QED BY <1>1, <1>3, <2>1, <2>2, <2>4, GotoKeeps DEF Steps, IInv, NamesKnown
<1> QED BY <1>2, <1>3 DEF Load

(* The probe and the check let the request pass to its commit or end it.   *)
LEMMA PassKeeps ==
    ASSUME IInv, NEW r \in Requests, Probe(r) \/ Check(r)
    PROVE  IInv'
<1>1. /\ my[r] \in Locals /\ pc[r] \in {"probe", "check"}
      /\ UNCHANGED << rows, adapters, snaps, causes >>
      /\ End(r) \/ (Goto(r, "commit", my[r]) /\ UNCHANGED << lock, active >>)
  BY DEF IInv, TypeOK, Probe, Check
<1>2. CASE End(r)
  BY <1>1, <1>2, EndKeeps
<1>3. CASE Goto(r, "commit", my[r]) /\ UNCHANGED << lock, active >>
  <2>1. UNCHANGED << rows, caches, active, causes >>
    BY <1>1, <1>3 DEF caches
  <2>2. /\ pc'[r] = "commit" /\ my'[r] = my[r] /\ active'[r] = active[r]
        /\ Live' = Live /\ lock' = lock
    BY <1>3, <2>1 DEF Goto, At, IInv, TypeOK, rows, Live, There, Saved
  <2>3. Placed(r)' /\ Follows(r)'
    BY <1>1, <2>2 DEF IInv, Placed, Follows, Holding
  <2> QED BY <1>1, <1>3, <2>1, <2>3, GotoKeeps DEF Steps, IInv, NamesKnown
<1> QED BY <1>1, <1>2, <1>3

(* A new row takes an id that nothing has named yet.                       *)
LEMMA CommitCreateKeeps ==
    ASSUME IInv, NEW r \in Requests, CommitCreate(r)
    PROVE  IInv'
<1>1. PICK c \in Conns : conns[c] = Unused /\ conns' = [conns EXCEPT ![c] = my[r].want]
  BY DEF CommitCreate
<1>2. /\ End(r) /\ UNCHANGED << setting, adapters, snaps, causes >> /\ my[r].want \in Details
  BY DEF CommitCreate, IInv, Placed
<1>3. /\ conns' \in [Conns -> Details \cup {Unused, Gone}]
      /\ \A d \in Conns : conns[d] # Unused => conns'[d] # Unused
      /\ There' = There \cup {c} /\ c \notin There /\ c # setting
      /\ \A q \in Requests : my[q].id # c
  BY <1>1, <1>2, Distinct DEF IInv, TypeOK, NamesKnown, There, Saved
<1>4. Live' = Live /\ AdaptersKeyed'
  BY <1>2, <1>3 DEF Live, IInv, AdaptersKeyed
<1> QED BY <1>2, <1>3, <1>4, EndStepKeeps DEF causes, IInv, TypeOK

(* A commit that changes what is live, or takes a row away: every report    *)
(* notes what is live now, and the builtin connection if a row has gone.   *)
LEMMA NotedKeeps ==
    ASSUME IInv, NEW r \in Requests, pc[r] = "commit", my[r].op # "report",
           NEW v \in Workers \cup {None}, NEW p \in {"idle", "reset"},
           p = "reset" => v \in Workers,
           Goto(r, p, Free(v)), NEW also \in SUBSET Ids, Noted(also),
           setting' \in Ids, setting' \in Conns => conns[setting'] # Unused,
           conns' \in [Conns -> Details \cup {Unused, Gone}],
           \A c \in Conns : conns[c] # Unused => conns'[c] # Unused,
           There' \subseteq There, There' = There \/ Builtin \in also,
           UNCHANGED << caches, tainted >>,
           merged' \in SUBSET Conns, crossed' \in SUBSET Conns
    PROVE  IInv'
<1> USE DEF IInv
<1>1. /\ pc' = [pc EXCEPT ![r] = p] /\ my' = [my EXCEPT ![r] = Free(v)] /\ asked' = asked
      /\ adapters' = adapters /\ snaps' = snaps /\ lock' = lock /\ tainted' = tainted
      /\ active' = [q \in Requests |->
                      IF my[q].op # "report" THEN {} ELSE active[q] \cup {Live'} \cup also]
  BY DEF Goto, At, Noted, caches
<1>2. ~Holding(r) /\ Live' \in Ids
  BY Distinct DEF TypeOK, Placed, Holding, Live
<1>3. TypeOK'
  <2>1. active' \in [Requests -> SUBSET Ids]
    BY <1>1, <1>2 DEF TypeOK
  <2>2. pc' \in [Requests -> Steps] /\ my' \in [Requests -> Locals]
    BY <1>1, FreeType DEF TypeOK, Steps
  <2>3. \A w \in Workers : lock'[w] # None =>
           my'[lock'[w]].at = w /\ my'[lock'[w]].stage = "scan" /\ pc'[lock'[w]] # "idle"
    BY <1>1, <1>2 DEF TypeOK, Holding
  <2> QED BY <1>1, <2>1, <2>2, <2>3 DEF TypeOK
<1>4. NamesKnown' /\ AdaptersKeyed'
  BY <1>1, FreeType, Distinct DEF TypeOK, NamesKnown, AdaptersKeyed
<1>5. ASSUME NEW q \in Requests PROVE Placed(q)' /\ Follows(q)'
  <2>1. CASE q = r
    BY <1>1, <1>2, <2>1, FreeType, Distinct DEF TypeOK, Placed, Follows, Holding
  <2>2. CASE q # r
    <3>1. pc'[q] = pc[q] /\ my'[q] = my[q] /\ (Holding(q)' <=> Holding(q))
      BY <1>1, <2>2 DEF TypeOK, Holding
    <3>2. my[q].op = "report" => active[q] \subseteq active'[q] /\ also \subseteq active'[q]
                                 /\ Live' \in active'[q]
      BY <1>1
    <3> QED BY <3>1, <3>2 DEF Placed, Follows
  <2> QED BY <2>1, <2>2
<1> QED BY <1>3, <1>4, <1>5

LEMMA CommitUpdateKeeps ==
    ASSUME IInv, NEW r \in Requests, CommitUpdate(r)
    PROVE  IInv'
<1> DEFINE c == my[r].conn
<1>1. /\ pc[r] = "commit" /\ my[r].op = "update" /\ my[r].want \in Details
      /\ c \in Conns /\ my[r].at \in Workers /\ my[r] \in Locals
      /\ UNCHANGED << setting, adapters, snaps >>
  BY DEF CommitUpdate, IInv, TypeOK, Placed
<1>2. CASE /\ Saved(c) /\ Goto(r, "reset", Free(my[r].at)) /\ Noted({})
           /\ UNCHANGED << lock, tainted, crossed >>
           /\ \E login \in {my[r].want.login, conns[c].login} :
                conns' = [conns EXCEPT ![c] =
                            [host  |-> IF my[r].want.host # my[r].base.host
                                       THEN my[r].want.host ELSE conns[c].host,
                             login |-> login]]
           /\ merged' = IF conns[c] = my[r].base THEN merged \ {c} ELSE merged \cup {c}
  <2>1. PICK d \in Details : conns' = [conns EXCEPT ![c] = d]
    BY <1>1, <1>2 DEF Saved, Details
  <2>2. c \in Conns => conns[c] \in Details
    BY <1>2 DEF Saved
  <2>3. /\ conns' \in [Conns -> Details \cup {Unused, Gone}]
        /\ \A x \in Conns : conns[x] # Unused => conns'[x] # Unused
        /\ There' = There
    BY <2>1, <2>2, Distinct DEF IInv, TypeOK, There, Saved
  <2>4. merged' \in SUBSET Conns /\ crossed' \in SUBSET Conns /\ setting' \in Ids
        /\ (setting' \in Conns => conns[setting'] # Unused)
    BY <1>1, <1>2 DEF IInv, TypeOK, NamesKnown
  <2> QED BY <1>1, <1>2, <2>3, <2>4, NotedKeeps DEF caches
<1>3. CASE /\ Goto(r, "reset", Free(my[r].at))
           /\ UNCHANGED << conns, lock, active, causes >>
  <2>1. /\ UNCHANGED << rows, caches, active, causes >>
        /\ pc' = [pc EXCEPT ![r] = "reset"] /\ my' = [my EXCEPT ![r] = Free(my[r].at)]
        /\ asked' = asked
    BY <1>1, <1>3 DEF Goto, At, rows, caches
  <2>2. ~Holding(r)
    BY <1>1 DEF IInv, Placed
  <2>3. TypeOK' /\ AdaptersKeyed'
    <3>1. pc' \in [Requests -> Steps] /\ my' \in [Requests -> Locals]
      BY <1>1, <2>1, FreeType DEF IInv, TypeOK, Steps
    <3> QED BY <1>1, <2>1, <2>2, <3>1
            DEF IInv, TypeOK, AdaptersKeyed, Holding, rows, caches, causes
  <2>4. Placed(r)' /\ Follows(r)'
    BY <1>1, <2>1, <2>2, FreeType DEF IInv, TypeOK, Placed, Follows, Holding, caches
  <2>5. \A q \in Requests : q # r => active'[q] = active[q] /\ (Holding(q)' => Holding(q))
    BY <2>1 DEF Holding, caches
  <2> QED BY <1>1, <1>3, <2>1, <2>3, <2>4, <2>5, FreeType, Distinct, StepKeeps DEF Goto
<1>4. CASE End(r) /\ UNCHANGED << conns, causes >>
  BY <1>1, <1>4, EndKeeps DEF rows
<1> QED BY <1>2, <1>3, <1>4 DEF CommitUpdate

LEMMA CommitActivateKeeps ==
    ASSUME IInv, NEW r \in Requests, CommitActivate(r)
    PROVE  IInv'
<1> DEFINE i == my[r].conn
<1>1. /\ pc[r] = "commit" /\ my[r].op = "activate" /\ i \in Ids /\ my[r].at \in Workers
      /\ UNCHANGED << conns, adapters, snaps, tainted, merged >>
  BY DEF CommitActivate, IInv, TypeOK, Placed, Locals
<1>2. CASE /\ i \in There /\ setting' = i /\ Goto(r, "reset", Free(my[r].at)) /\ Noted({})
           /\ UNCHANGED lock /\ crossed' = IF Deleting(i) THEN crossed \cup {i} ELSE crossed
  <2>1. /\ setting' \in Ids /\ (setting' \in Conns => conns[setting'] # Unused)
        /\ There' = There
    BY <1>1, <1>2, Distinct DEF There, Saved
  <2>2. crossed' \in SUBSET Conns
    BY <1>2 DEF IInv, TypeOK, Placed, Deleting
  <2> QED BY <1>1, <1>2, <2>1, <2>2, NotedKeeps DEF caches, IInv, TypeOK
<1>3. CASE End(r) /\ UNCHANGED << setting, crossed >>
  BY <1>1, <1>3, EndKeeps DEF rows, causes
<1> QED BY <1>2, <1>3 DEF CommitActivate

LEMMA CommitDeleteKeeps ==
    ASSUME IInv, NEW r \in Requests, CommitDelete(r)
    PROVE  IInv'
<1> DEFINE c == my[r].conn
<1>1. /\ pc[r] = "commit" /\ my[r].op = "delete" /\ c \in Conns
      /\ conns' = [conns EXCEPT ![c] = Gone] /\ Goto(r, "idle", Free(None))
      /\ UNCHANGED << setting, caches, causes >> /\ Noted({Builtin})
  BY DEF CommitDelete, IInv, Placed
<1>2. /\ conns' \in [Conns -> Details \cup {Unused, Gone}]
      /\ \A x \in Conns : conns[x] # Unused => conns'[x] # Unused
      /\ There' \subseteq There
  BY <1>1, ConstantsAssumption, Distinct DEF IInv, TypeOK, There, Saved
<1> QED BY <1>1, <1>2, NotedKeeps, Distinct DEF causes, IInv, TypeOK, NamesKnown

LEMMA ResetKeeps ==
    ASSUME IInv, NEW r \in Requests, Reset(r)
    PROVE  IInv'
<1>1. /\ pc[r] = "reset" /\ my[r] \in Locals /\ my[r].at \in Workers
      /\ adapters' = [adapters EXCEPT ![my[r].at] = [k \in Ids |-> None]]
      /\ pc' = [pc EXCEPT ![r] = "forget"] /\ my' = [my EXCEPT ![r] = my[r]]
      /\ UNCHANGED << rows, snaps, lock, active, causes, asked >>
  BY DEF Reset, Goto, At, IInv, TypeOK, Placed
<1>2. AdaptersKeyed' /\ adapters' \in [Workers -> [Ids -> Ids \cup {None}]]
  BY <1>1 DEF IInv, TypeOK, AdaptersKeyed
<1>3. TypeOK'
  BY <1>1, <1>2 DEF IInv, TypeOK, Steps, rows, causes
<1>4. Live' = Live /\ There' = There
  BY <1>1 DEF rows, Live, There, Saved
<1>5. Placed(r)' /\ Follows(r)'
  BY <1>1, <1>4 DEF IInv, TypeOK, Placed, Follows, Holding
<1>6. \A q \in Requests : q # r => active'[q] = active[q] /\ (Holding(q)' => Holding(q))
  BY <1>1 DEF Holding
<1>7. At(r, "forget", my[r]) /\ UNCHANGED rows
  BY <1>1 DEF At
<1> QED BY <1>2, <1>3, <1>5, <1>6, <1>7, StepKeeps DEF IInv, NamesKnown

LEMMA EmptiedType ==
    ASSUME IInv, NEW w \in Workers, Emptied(w)
    PROVE  /\ snaps' \in [Workers -> [Ids -> Ids \cup {None}]]
           /\ tainted' \in [Workers -> SUBSET Ids]
BY DEF Emptied, IInv, TypeOK

LEMMA ForgetKeeps ==
    ASSUME IInv, NEW r \in Requests, Forget(r)
    PROVE  IInv'
<1>1. /\ my[r].at \in Workers /\ Emptied(my[r].at) /\ End(r)
      /\ setting' = setting /\ conns' = conns /\ adapters' = adapters
      /\ merged' = merged /\ crossed' = crossed
  BY DEF Forget, rows, IInv, Placed
<1>2. Live' = Live /\ There' = There /\ AdaptersKeyed'
  BY <1>1 DEF Live, There, Saved, IInv, AdaptersKeyed
<1> QED BY <1>1, <1>2, EmptiedType, EndStepKeeps DEF IInv, TypeOK

LEMMA AdministerKeeps ==
    ASSUME IInv, NEW r \in Requests, Administer(r)
    PROVE  IInv'
BY LoadKeeps, PassKeeps, CommitCreateKeeps, CommitUpdateKeeps, CommitActivateKeeps,
   CommitDeleteKeeps, ResetKeeps, ForgetKeeps DEF Administer

LEMMA ReportKeeps ==
    ASSUME IInv, NEW r \in Requests, Report(r)
    PROVE  IInv'
BY ReadSettingKeeps, ReadRowKeeps, ReadUrlKeeps, GetAdapterKeeps, TakeLockKeeps,
   IntrospectKeeps, ReportEnds DEF Report

-----------------------------------------------------------------------------
(* What happens to a worker.                                               *)
LEMMA ConnectorChangeKeeps ==
    ASSUME IInv, NEW w \in Workers, ConnectorChange(w)
    PROVE  IInv'
<1>1. /\ UNCHANGED << rows, adapters, lock, pc, my, asked, active, merged, crossed >>
      /\ snaps' \in [Workers -> [Ids -> Ids \cup {None}]] /\ tainted' \in [Workers -> SUBSET Ids]
  BY EmptiedType DEF ConnectorChange
<1>2. Live' = Live /\ There' = There
  BY <1>1 DEF rows, Live, There, Saved
<1>3. TypeOK' /\ NamesKnown' /\ AdaptersKeyed'
  BY <1>1 DEF IInv, TypeOK, NamesKnown, AdaptersKeyed, rows
<1>4. \A q \in Requests : Placed(q)' /\ Follows(q)'
  BY <1>1, <1>2 DEF IInv, Placed, Follows, Holding
<1> QED BY <1>3, <1>4 DEF IInv

LEMMA RestartKeeps ==
    ASSUME IInv, NEW w \in Workers, Restart(w)
    PROVE  IInv'
<1>1. /\ adapters' = [adapters EXCEPT ![w] = [k \in Ids |-> None]]
      /\ snaps' = [snaps EXCEPT ![w] = [k \in Ids |-> None]]
      /\ lock' = [lock EXCEPT ![w] = None]
      /\ pc' = [q \in Requests |-> IF my[q].at = w THEN "idle" ELSE pc[q]]
      /\ my' = [q \in Requests |-> IF my[q].at = w THEN Free(None) ELSE my[q]]
      /\ active' = [q \in Requests |-> IF my[q].at = w THEN {} ELSE active[q]]
      /\ tainted' = [tainted EXCEPT ![w] = {}]
      /\ setting' = setting /\ conns' = conns
      /\ UNCHANGED << asked, merged, crossed >>
  BY DEF Restart, rows
<1>2. Live' = Live /\ There' = There
  BY <1>1 DEF Live, There, Saved
<1>3. TypeOK'
  <2>1. adapters' \in [Workers -> [Ids -> Ids \cup {None}]]
        /\ snaps' \in [Workers -> [Ids -> Ids \cup {None}]]
        /\ lock' \in [Workers -> Requests \cup {None}] /\ tainted' \in [Workers -> SUBSET Ids]
    BY <1>1 DEF IInv, TypeOK
  <2>2. pc' \in [Requests -> Steps] /\ my' \in [Requests -> Locals]
        /\ active' \in [Requests -> SUBSET Ids]
    BY <1>1, FreeType DEF IInv, TypeOK, Steps
  <2>3. ASSUME NEW v \in Workers, lock'[v] # None
        PROVE  my'[lock'[v]].at = v /\ my'[lock'[v]].stage = "scan" /\ pc'[lock'[v]] # "idle"
    <3>1. v # w /\ lock'[v] = lock[v] /\ lock[v] \in Requests /\ my[lock[v]].at = v
          /\ my[lock[v]].stage = "scan" /\ pc[lock[v]] # "idle"
      BY <1>1, <2>3 DEF IInv, TypeOK
    <3> QED BY <1>1, <3>1
  <2> QED BY <1>1, <2>1, <2>2, <2>3 DEF IInv, TypeOK
<1>4. NamesKnown' /\ AdaptersKeyed'
  BY <1>1, FreeType, Distinct DEF IInv, TypeOK, NamesKnown, AdaptersKeyed
<1>5. ASSUME NEW q \in Requests PROVE Placed(q)' /\ Follows(q)'
  <2>1. Holding(q)' => Holding(q) /\ my[q].at # w
    BY <1>1, Distinct DEF IInv, TypeOK, Holding
  <2>2. CASE my[q].at = w
    BY <1>1, <2>1, <2>2, FreeType, Distinct DEF Placed, Follows
  <2>3. CASE my[q].at # w
    BY <1>1, <1>2, <2>1, <2>3 DEF IInv, Placed, Follows
  <2> QED BY <2>2, <2>3
<1> QED BY <1>3, <1>4, <1>5 DEF IInv

-----------------------------------------------------------------------------
LEMMA InitIInv == Init => IInv
<1> SUFFICES ASSUME Init PROVE IInv
  OBVIOUS
<1>1. /\ setting = Builtin /\ conns \in [Conns -> ReadOnly \cup {Unused}]
      /\ adapters = [w \in Workers |-> [k \in Ids |-> None]]
      /\ snaps = [w \in Workers |-> [k \in Ids |-> None]]
      /\ lock = [w \in Workers |-> None]
      /\ pc = [r \in Requests |-> "idle"] /\ my = [r \in Requests |-> Free(None)] /\ asked = 0
      /\ active = [r \in Requests |-> {}]
      /\ tainted = [w \in Workers |-> {}] /\ merged = {} /\ crossed = {}
  BY DEF Init
<1>2. TypeOK
  <2>1. asked \in 0 .. MaxRequests
    BY <1>1, ConstantsAssumption
  <2>2. conns \in [Conns -> Details \cup {Unused, Gone}]
    BY <1>1, ConstantsAssumption
  <2> QED BY <1>1, <2>1, <2>2, FreeType, Distinct DEF TypeOK, Steps
<1>3. NamesKnown /\ AdaptersKeyed
  BY <1>1, FreeType, Distinct DEF NamesKnown, AdaptersKeyed
<1>4. ASSUME NEW q \in Requests PROVE Placed(q) /\ Follows(q)
  BY <1>1, FreeType, Distinct DEF Placed, Follows, Holding
<1> QED BY <1>2, <1>3, <1>4 DEF IInv

LEMMA NextKeeps == IInv /\ [Next]_vars => IInv'
<1> SUFFICES ASSUME IInv, [Next]_vars PROVE IInv'
  OBVIOUS
<1>1. CASE Next
  BY <1>1, ReportKeeps, AdministerKeeps, AskKeeps, ConnectorChangeKeeps, RestartKeeps DEF Next
<1>2. CASE UNCHANGED vars
  <2>1. /\ setting' = setting /\ conns' = conns /\ adapters' = adapters /\ snaps' = snaps
        /\ lock' = lock /\ pc' = pc /\ my' = my /\ asked' = asked /\ active' = active
        /\ tainted' = tainted /\ merged' = merged /\ crossed' = crossed
    BY <1>2 DEF vars, rows, caches, causes
  <2>2. Live' = Live /\ There' = There
    BY <2>1 DEF Live, There, Saved
  <2>3. TypeOK' /\ NamesKnown' /\ AdaptersKeyed'
    BY <2>1 DEF IInv, TypeOK, NamesKnown, AdaptersKeyed
  <2>4. \A q \in Requests : Placed(q)' /\ Follows(q)'
    BY <2>1, <2>2 DEF IInv, Placed, Follows, Holding
  <2> QED BY <2>3, <2>4 DEF IInv
<1> QED BY <1>1, <1>2

LEMMA Invariance == Spec => []IInv
BY InitIInv, NextKeeps, PTL DEF Spec

(* Every variable keeps its type, and only a scan under way holds a         *)
(* worker's lock: no request that ended, in whatever way, still does.      *)
THEOREM TypeCorrect == Spec => []TypeOK
<1>1. IInv => TypeOK
  BY DEF IInv
<1> QED BY <1>1, Invariance, PTL

(* Whatever a worker has cached, and whenever connections are switched,     *)
(* edited and deleted, a report runs on a connection that was live at some  *)
(* moment of the request (adapter_for, _engine, run).                      *)
THEOREM ReportsFollow == Spec => []ReportsFollowSwitch
<1>1. IInv => ReportsFollowSwitch
  BY DEF IInv, Placed, Follows, ReportsFollowSwitch
<1> QED BY <1>1, Invariance, PTL

-----------------------------------------------------------------------------
(* What is kept, in a worker and in the database.                          *)

(* A scan stores what was live during the request under a key that was     *)
(* live during it; the rescan of an administrator, the builtin one.        *)
Scan(q) ==
    /\ IsFiniteSet(active[q])
    /\ pc[q] \in {"setting", "row", "url"} => my[q].op = "report"
    /\ pc[q] \in {"lock", "adapter", "introspect"} => my[q].op \in {"report", "rescan"}
    /\ my[q].op # "report" => my[q].key = Builtin /\ my[q].id = Builtin
    /\ my[q].op = "report" /\ (pc[q] \in {"lock", "introspect"} \/ my[q].stage = "scan") =>
          my[q].key \in active[q]
    /\ pc[q] = "introspect" => IF my[q].op = "report" THEN my[q].held \in active[q]
                                                      ELSE my[q].held = Builtin

(* What is about to be committed has been probed, or checked: a delete's    *)
(* connection has been chosen since only if that is known.                 *)
Judged(q) ==
    /\ pc[q] = "probe" => my[q].op # "delete"
    /\ pc[q] = "check" => my[q].op = "delete"
    /\ pc[q] = "commit" /\ my[q].op \in {"create", "update"} => my[q].want \in ReadOnly
    /\ pc[q] = "commit" /\ my[q].op = "delete" /\ my[q].conn = setting => setting \in crossed

KInv ==
    /\ IInv
    /\ \A q \in Requests : Scan(q) /\ Judged(q)
    /\ SnapshotNeedsCause /\ SavedIsSound

LEMMA AtMostOne ==
    ASSUME NEW S, IsFiniteSet(S), Cardinality(S) <= 1, NEW x \in S, NEW y \in S
    PROVE  x = y
<1>1. Cardinality(S) \in Nat
  BY FS_CardinalityType
<1>2. Cardinality(S) # 0
  BY FS_EmptySet
<1>3. Cardinality(S) = 1
  BY <1>1, <1>2
<1> QED BY <1>3, FS_Singleton

(* The requests a step is not of stay where they are, and a report forgets  *)
(* none of the connections that were live.                                 *)
Aside(r) ==
    \A q \in Requests \ {r} :
        /\ pc'[q] = pc[q] /\ my'[q] = my[q]
        /\ IsFiniteSet(active'[q])
        /\ my[q].op = "report" => active[q] \subseteq active'[q]

LEMMA StayAside ==
    ASSUME KInv, NEW r \in Requests, NEW p, NEW m, At(r, p, m),
           \A q \in Requests \ {r} : active'[q] = active[q]
    PROVE  Aside(r) /\ pc'[r] = p /\ my'[r] = m
BY DEF KInv, IInv, TypeOK, Scan, Aside, At

LEMMA EndAside ==
    ASSUME KInv, NEW r \in Requests, End(r)
    PROVE  Aside(r) /\ pc'[r] = "idle" /\ my'[r] = Free(None) /\ active'[r] = {}
BY StayAside DEF KInv, IInv, TypeOK, End, Goto

LEMMA NotedAside ==
    ASSUME KInv, NEW r \in Requests, NEW p, NEW m, At(r, p, m), my[r].op # "report",
           NEW also, Noted(also), IsFiniteSet(also)
    PROVE  Aside(r) /\ pc'[r] = p /\ my'[r] = m /\ active'[r] = {}
<1>1. \A q \in Requests : active'[q] = IF my[q].op # "report" THEN {} ELSE active[q] \cup {Live'} \cup also
  BY DEF Noted
<1>2. \A q \in Requests : IsFiniteSet((active[q] \cup {Live'}) \cup also)
  BY FS_AddElement, FS_Union DEF KInv, Scan
<1>3. \A q \in Requests : IsFiniteSet(active'[q])
  BY <1>1, <1>2, FS_EmptySet
<1>4. \A q \in Requests : my[q].op = "report" => active[q] \subseteq active'[q]
  BY <1>1
<1>5. \A q \in Requests \ {r} : pc'[q] = pc[q] /\ my'[q] = my[q]
  BY DEF KInv, IInv, TypeOK, At
<1>6. pc'[r] = p /\ my'[r] = m
  BY DEF KInv, IInv, TypeOK, At
<1> QED BY <1>1, <1>3, <1>4, <1>5, <1>6 DEF Aside

LEMMA DoneScan ==
    ASSUME NEW r \in Requests, pc'[r] \in {"idle", "reset"}, NEW v \in Workers \cup {None},
           my'[r] = Free(v), active'[r] = {}
    PROVE  Scan(r)' /\ Judged(r)'
BY FS_EmptySet DEF Scan, Judged, Free

LEMMA EndScan ==
    ASSUME KInv, NEW r \in Requests, End(r)
    PROVE  Aside(r) /\ Scan(r)' /\ Judged(r)'
BY EndAside, DoneScan

LEMMA AskScan ==
    ASSUME KInv, NEW r \in Requests, NEW w \in Workers, Ask(r, w)
    PROVE  Aside(r) /\ Scan(r)' /\ Judged(r)'
<1> DEFINE Asked(op, c, want) == [Free(w) EXCEPT !.op = op, !.conn = c, !.want = want,
                                     !.stage = IF op = "report" THEN "key" ELSE "none"]
<1>1. ASSUME NEW op \in Ops, NEW c, NEW want, NEW p, Start(r, w, op, c, want, p),
             p \in {"setting", "probe", "load", "commit", "lock"},
             p = "setting" => op = "report", p = "lock" => op = "rescan",
             p = "probe" => op = "create", p = "commit" => op = "activate"
      PROVE  Aside(r) /\ Scan(r)' /\ Judged(r)'
  <2>1. /\ At(r, p, Asked(op, c, want))
        /\ active' = [active EXCEPT ![r] = IF op = "report" THEN {Live} ELSE {}]
    BY <1>1 DEF Start
  <2>2. /\ Aside(r) /\ pc'[r] = p /\ my'[r] = Asked(op, c, want)
        /\ active'[r] = IF op = "report" THEN {Live} ELSE {}
    BY <2>1, StayAside DEF KInv, IInv, TypeOK
  <2>3. /\ Asked(op, c, want).op = op /\ Asked(op, c, want).key = Builtin
        /\ Asked(op, c, want).id = Builtin /\ Asked(op, c, want).stage # "scan"
    BY DEF Free
  <2>4. IsFiniteSet(active'[r])
    <3>1. IsFiniteSet({Live}) /\ IsFiniteSet({})
      BY FS_EmptySet, FS_Singleton
    <3>2. active'[r] = {Live} \/ active'[r] = {}
      BY <2>2
    <3> QED BY <3>1, <3>2
  <2> HIDE DEF Asked
  <2> QED BY <1>1, <2>2, <2>3, <2>4 DEF Scan, Judged
<1> HIDE DEF Asked
<1> USE DEF Ops
<1>2. CASE StartReport(r, w)
  BY <1>1, <1>2 DEF StartReport
<1>3. CASE StartRescan(r, w)
  BY <1>1, <1>3 DEF StartRescan
<1>4. CASE \E d \in Details : StartCreate(r, w, d)
  BY <1>1, <1>4 DEF StartCreate
<1>5. CASE \E d \in Details : \E c \in Conns : StartUpdate(r, w, c, d)
  BY <1>1, <1>5 DEF StartUpdate
<1>6. CASE \E c \in Conns : StartDelete(r, w, c)
  BY <1>1, <1>6 DEF StartDelete
<1>7. CASE \E i \in Ids : StartActivate(r, w, i)
  BY <1>1, <1>7 DEF StartActivate
<1> QED BY <1>2, <1>3, <1>4, <1>5, <1>6, <1>7 DEF Ask

LEMMA ReportScan ==
    ASSUME KInv, NEW r \in Requests, Report(r)
    PROVE  Aside(r) /\ Scan(r)' /\ Judged(r)'
<1>1. my[r] \in Locals /\ Scan(r) /\ Follows(r) /\ Placed(r)
  BY DEF KInv, IInv, TypeOK
<1>2. ASSUME NEW p \in {"row", "lock", "adapter", "url", "setting", "introspect", "execute"}, NEW m,
             Goto(r, p, m), UNCHANGED active
      PROVE  Aside(r) /\ pc'[r] = p /\ my'[r] = m /\ active'[r] = active[r] /\ Judged(r)'
  BY <1>2, StayAside DEF Goto, Judged
<1>3. CASE ReadSetting(r)
  <2>1. Aside(r) /\ pc'[r] = "row" /\ my'[r] = [my[r] EXCEPT !.id = setting]
        /\ active'[r] = active[r] /\ Judged(r)' /\ pc[r] = "setting"
    BY <1>2, <1>3 DEF ReadSetting
  <2>2. my'[r].op = my[r].op /\ my'[r].key = my[r].key /\ my'[r].stage = my[r].stage
    BY <1>1, <2>1 DEF Locals
  <2> QED BY <1>1, <2>1, <2>2 DEF Scan
<1>4. CASE ReadRow(r)
  <2>1. PICK i \in Ids : /\ pc[r] = "row" /\ UNCHANGED active
                         /\ i = IF my[r].id \in There THEN my[r].id ELSE Builtin
                         /\ IF my[r].stage = "key"
                            THEN Goto(r, "lock", [my[r] EXCEPT !.id = Builtin, !.key = i])
                            ELSE Goto(r, IF i = Builtin THEN "adapter" ELSE "url", [my[r] EXCEPT !.id = i])
    BY <1>1, <1>4, Distinct DEF ReadRow, Locals
  <2>2. i \in active[r] /\ my[r].op = "report"
    BY <1>1, <2>1 DEF Follows, Scan
  <2>3. CASE my[r].stage = "key"
    <3>1. Aside(r) /\ pc'[r] = "lock" /\ my'[r] = [my[r] EXCEPT !.id = Builtin, !.key = i]
          /\ active'[r] = active[r] /\ Judged(r)'
      BY <1>2, <2>1, <2>3
    <3>2. my'[r].op = my[r].op /\ my'[r].key = i
      BY <1>1, <3>1 DEF Locals
    <3> QED BY <1>1, <2>2, <3>1, <3>2 DEF Scan
  <2>4. CASE my[r].stage # "key"
    <3>1. Aside(r) /\ pc'[r] \in {"adapter", "url"} /\ my'[r] = [my[r] EXCEPT !.id = i]
          /\ active'[r] = active[r] /\ Judged(r)'
      BY <1>2, <2>1, <2>4
    <3>2. my'[r].op = my[r].op /\ my'[r].key = my[r].key /\ my'[r].stage = my[r].stage
      BY <1>1, <3>1 DEF Locals
    <3> QED BY <1>1, <2>2, <3>1, <3>2 DEF Scan
  <2> QED BY <2>3, <2>4
<1>5. CASE ReadUrl(r)
  <2>1. CASE End(r)
    BY <2>1, EndScan
  <2>2. CASE Goto(r, "adapter", my[r]) /\ UNCHANGED active
    <3>1. Aside(r) /\ pc'[r] = "adapter" /\ my'[r] = my[r] /\ active'[r] = active[r] /\ Judged(r)'
      BY <1>2, <2>2
    <3> QED BY <1>1, <1>5, <3>1 DEF Scan, ReadUrl
  <2> QED BY <1>5, <2>1, <2>2 DEF ReadUrl
<1>6. CASE GetAdapter(r)
  <2>1. /\ pc[r] = "adapter" /\ my[r].at \in Workers /\ my[r].id \in Ids /\ UNCHANGED active
        /\ my[r].op = "report" => my[r].id \in active[r]
    BY <1>1, <1>6 DEF GetAdapter, UseAdapter, Placed, Follows, Locals
  <2>2. PICK held : /\ held = IF adapters[my[r].at][my[r].id] # None
                              THEN adapters[my[r].at][my[r].id] ELSE my[r].id
                    /\ \/ my[r].stage = "scan"
                          /\ Goto(r, "introspect", [my[r] EXCEPT !.id = Builtin, !.held = held])
                       \/ my[r].stage = "dialect"
                          /\ Goto(r, "setting", [my[r] EXCEPT !.id = Builtin, !.stage = "route"])
                       \/ my[r].stage = "route"
                          /\ Goto(r, "setting", [my[r] EXCEPT !.id = Builtin, !.stage = "run"])
                       \/ my[r].stage = "run"
                          /\ Goto(r, "execute", [my[r] EXCEPT !.id = Builtin, !.held = held])
    BY <1>6 DEF GetAdapter, UseAdapter
  <2>3. held = my[r].id
    BY <2>1, <2>2 DEF KInv, IInv, AdaptersKeyed
  <2>4. CASE Goto(r, "introspect", [my[r] EXCEPT !.id = Builtin, !.held = held]) /\ my[r].stage = "scan"
    <3>1. Aside(r) /\ pc'[r] = "introspect" /\ my'[r] = [my[r] EXCEPT !.id = Builtin, !.held = held]
          /\ active'[r] = active[r] /\ Judged(r)'
      BY <1>2, <2>1, <2>4
    <3>2. my'[r].op = my[r].op /\ my'[r].key = my[r].key /\ my'[r].id = Builtin /\ my'[r].held = my[r].id
      BY <1>1, <2>3, <3>1 DEF Locals
    <3> QED BY <1>1, <2>1, <2>4, <3>1, <3>2 DEF Scan
  <2>5. CASE \E st \in {"route", "run"} :
                Goto(r, "setting", [my[r] EXCEPT !.id = Builtin, !.stage = st]) /\ my[r].op = "report"
    <3>1. PICK st \in {"route", "run"} :
             Goto(r, "setting", [my[r] EXCEPT !.id = Builtin, !.stage = st]) /\ my[r].op = "report"
      BY <2>5
    <3>2. Aside(r) /\ pc'[r] = "setting" /\ my'[r] = [my[r] EXCEPT !.id = Builtin, !.stage = st]
          /\ active'[r] = active[r] /\ Judged(r)'
      BY <1>2, <2>1, <3>1
    <3>3. my'[r].op = "report" /\ my'[r].stage = st
      BY <1>1, <3>1, <3>2 DEF Locals
    <3> QED BY <1>1, <3>1, <3>2, <3>3 DEF Scan
  <2>6. CASE Goto(r, "execute", [my[r] EXCEPT !.id = Builtin, !.held = held]) /\ my[r].stage = "run"
    <3>1. Aside(r) /\ pc'[r] = "execute" /\ my'[r] = [my[r] EXCEPT !.id = Builtin, !.held = held]
          /\ active'[r] = active[r] /\ Judged(r)'
      BY <1>2, <2>1, <2>6
    <3>2. my'[r].op = my[r].op /\ my'[r].stage = "run" /\ my[r].op = "report"
      BY <1>1, <2>6, <3>1 DEF Locals, Placed
    <3> QED BY <1>1, <3>1, <3>2 DEF Scan
  <2> QED BY <1>1, <2>2, <2>4, <2>5, <2>6 DEF Placed
<1>7. CASE TakeLock(r)
  <2>1. pc[r] = "lock" /\ UNCHANGED active
    BY <1>7 DEF TakeLock
  <2>2. CASE my[r].op = "report"
             /\ Goto(r, "setting", [my[r] EXCEPT !.stage = "dialect", !.key = Builtin])
    <3>1. Aside(r) /\ pc'[r] = "setting" /\ my'[r] = [my[r] EXCEPT !.stage = "dialect", !.key = Builtin]
          /\ active'[r] = active[r] /\ Judged(r)'
      BY <1>2, <2>1, <2>2
    <3>2. my'[r].op = "report" /\ my'[r].stage = "dialect"
      BY <1>1, <2>2, <3>1 DEF Locals
    <3> QED BY <1>1, <3>1, <3>2 DEF Scan
  <2>3. CASE Goto(r, IF my[r].op = "report" THEN "setting" ELSE "adapter", [my[r] EXCEPT !.stage = "scan"])
    <3>1. Aside(r) /\ pc'[r] = (IF my[r].op = "report" THEN "setting" ELSE "adapter")
          /\ my'[r] = [my[r] EXCEPT !.stage = "scan"] /\ active'[r] = active[r] /\ Judged(r)'
      BY <1>2, <2>1, <2>3
    <3>2. my'[r].op = my[r].op /\ my'[r].key = my[r].key /\ my'[r].id = my[r].id
      BY <1>1, <3>1 DEF Locals
    <3> QED BY <1>1, <2>1, <3>1, <3>2 DEF Scan
  <2> QED BY <1>7, <2>2, <2>3 DEF TakeLock
<1>8. CASE Introspect(r)
  <2>1. CASE my[r].op = "report" /\ UNCHANGED active
             /\ Goto(r, "setting", [my[r] EXCEPT !.stage = "dialect", !.key = Builtin, !.held = None])
    <3>1. Aside(r) /\ pc'[r] = "setting" /\ active'[r] = active[r] /\ Judged(r)'
          /\ my'[r] = [my[r] EXCEPT !.stage = "dialect", !.key = Builtin, !.held = None]
      BY <1>2, <2>1
    <3>2. my'[r].op = "report" /\ my'[r].stage = "dialect"
      BY <1>1, <2>1, <3>1 DEF Locals
    <3> QED BY <1>1, <3>1, <3>2 DEF Scan
  <2> QED BY <1>8, <2>1, EndScan DEF Introspect, StoreSnapshot
<1>9. CASE ScanFails(r) \/ Execute(r)
  BY <1>9, EndScan DEF ScanFails, Execute
<1> QED BY <1>3, <1>4, <1>5, <1>6, <1>7, <1>8, <1>9 DEF Report

LEMMA AdministerScan ==
    ASSUME KInv, NEW r \in Requests, Administer(r)
    PROVE  Aside(r) /\ Scan(r)' /\ Judged(r)'
<1>1. my[r] \in Locals /\ Scan(r) /\ Judged(r) /\ Placed(r)
  BY DEF KInv, IInv, TypeOK
<1>2. CASE Load(r)
  <2>1. CASE End(r)
    BY <2>1, EndScan
  <2>2. CASE UNCHANGED active
             /\ Goto(r, IF my[r].op = "delete" THEN "check" ELSE "probe",
                        [my[r] EXCEPT !.base = conns[my[r].conn]])
    <3>1. /\ Aside(r) /\ pc'[r] = (IF my[r].op = "delete" THEN "check" ELSE "probe")
          /\ my'[r] = [my[r] EXCEPT !.base = conns[my[r].conn]] /\ active'[r] = active[r]
      BY <2>2, StayAside DEF Goto
    <3>2. /\ my'[r].op = my[r].op /\ my'[r].key = my[r].key /\ my'[r].id = my[r].id
          /\ my'[r].stage = my[r].stage
      BY <1>1, <3>1 DEF Locals
    <3> QED BY <1>1, <3>1, <3>2 DEF Scan, Judged
  <2> QED BY <1>2, <2>1, <2>2 DEF Load
<1>3. CASE Probe(r) \/ Check(r)
  <2>1. CASE End(r)
    BY <2>1, EndScan
  <2>2. CASE Goto(r, "commit", my[r]) /\ UNCHANGED active
    <3>1. Aside(r) /\ pc'[r] = "commit" /\ my'[r] = my[r] /\ active'[r] = active[r]
      BY <2>2, StayAside DEF Goto
    <3>2. Scan(r)'
      BY <1>1, <3>1 DEF Scan
    <3>3. CASE Probe(r) /\ Proposed(r) \in ReadOnly
      BY <1>1, <3>1, <3>2, <3>3 DEF Probe, Judged, Proposed
    <3>4. CASE Check(r) /\ setting # my[r].conn
      <4>1. setting' = setting /\ my[r].op = "delete"
        BY <1>1, <3>4 DEF Check, Judged, rows
      <4> QED BY <3>1, <3>2, <3>4, <4>1 DEF Judged
    <3>5. (Probe(r) /\ Proposed(r) \in ReadOnly) \/ (Check(r) /\ setting # my[r].conn) \/ End(r)
      BY <1>3 DEF Probe, Check
    <3> QED BY <2>1, <3>1, <3>2, <3>3, <3>4, <3>5
  <2> QED BY <1>3, <2>1, <2>2 DEF Probe, Check
<1>4. CASE CommitCreate(r) \/ Forget(r)
  BY <1>4, EndScan DEF CommitCreate, Forget
<1>5. CASE CommitUpdate(r)
  <2>1. pc[r] = "commit" /\ my[r].op = "update" /\ my[r].at \in Workers /\ active[r] \in SUBSET Ids
    BY <1>1, <1>5 DEF CommitUpdate, Placed, KInv, IInv, TypeOK
  <2>2. CASE Goto(r, "reset", Free(my[r].at)) /\ Noted({})
    BY <2>1, <2>2, NotedAside, DoneScan, FS_EmptySet DEF Goto
  <2>3. CASE Goto(r, "reset", Free(my[r].at)) /\ UNCHANGED active
    <3>1. Aside(r) /\ pc'[r] = "reset" /\ my'[r] = Free(my[r].at) /\ active'[r] = active[r]
      BY <2>3, StayAside DEF Goto
    <3> QED BY <1>1, <3>1 DEF Scan, Judged, Free
  <2>4. CASE End(r)
    BY <2>4, EndScan
  <2> QED BY <1>5, <2>2, <2>3, <2>4 DEF CommitUpdate
<1>6. CASE CommitActivate(r)
  <2>1. pc[r] = "commit" /\ my[r].op = "activate" /\ my[r].at \in Workers
    BY <1>1, <1>6 DEF CommitActivate, Placed
  <2>2. CASE Goto(r, "reset", Free(my[r].at)) /\ Noted({})
    BY <2>1, <2>2, NotedAside, DoneScan, FS_EmptySet DEF Goto
  <2>3. CASE End(r)
    BY <2>3, EndScan
  <2> QED BY <1>6, <2>2, <2>3 DEF CommitActivate
<1>7. CASE CommitDelete(r)
  <2>1. my[r].op = "delete" /\ Goto(r, "idle", Free(None)) /\ Noted({Builtin})
    BY <1>7 DEF CommitDelete
  <2>2. IsFiniteSet({Builtin}) /\ At(r, "idle", Free(None)) /\ my[r].op # "report"
    BY <2>1, FS_Singleton DEF Goto
  <2>3. Aside(r) /\ pc'[r] = "idle" /\ my'[r] = Free(None) /\ active'[r] = {}
    BY <2>1, <2>2, NotedAside
  <2> QED BY <2>3, DoneScan
<1>8. CASE Reset(r)
  <2>1. pc[r] = "reset" /\ Goto(r, "forget", my[r]) /\ UNCHANGED active
    BY <1>8 DEF Reset
  <2>2. Aside(r) /\ pc'[r] = "forget" /\ my'[r] = my[r] /\ active'[r] = active[r]
    BY <2>1, StayAside DEF Goto
  <2> QED BY <1>1, <2>2 DEF Scan, Judged
<1> QED BY <1>2, <1>3, <1>4, <1>5, <1>6, <1>7, <1>8 DEF Administer

(* A connection activated under a delete is one the delete knows of.       *)
LEMMA OthersKeep ==
    ASSUME KInv, NEW r \in Requests, Aside(r), NEW q \in Requests \ {r},
           Report(r) \/ Administer(r) \/ \E w \in Workers : Ask(r, w)
    PROVE  Scan(q)' /\ Judged(q)'
<1>1. Scan(q) /\ Judged(q) /\ pc'[q] = pc[q] /\ my'[q] = my[q] /\ IsFiniteSet(active'[q])
      /\ (my[q].op = "report" => active[q] \subseteq active'[q])
  BY DEF KInv, Aside
<1>2. Scan(q)'
  BY <1>1 DEF Scan
<1>3. CASE setting' = setting /\ crossed' = crossed
  BY <1>1, <1>2, <1>3 DEF Judged
<1>4. CASE CommitActivate(r)
  <2>1. CASE setting' = my[r].conn
             /\ crossed' = IF Deleting(my[r].conn) THEN crossed \cup {my[r].conn} ELSE crossed
    <3>1. pc[q] = "commit" /\ my[q].op = "delete" /\ my[q].conn = setting' => setting' \in crossed'
      BY <2>1 DEF Deleting
    <3> QED BY <1>1, <1>2, <3>1 DEF Judged
  <2> QED BY <1>3, <1>4, <2>1 DEF CommitActivate
<1>5. CASE Report(r) \/ \E w \in Workers : Ask(r, w)
  <2>1. setting' = setting /\ crossed' = crossed
    BY <1>5 DEF Report, ReadSetting, ReadRow, ReadUrl, GetAdapter, UseAdapter, TakeLock, Introspect,
                StoreSnapshot, ScanFails, Execute, Ask, StartReport, StartRescan, StartCreate,
                StartUpdate, StartDelete, StartActivate, Start, rows, causes
  <2> QED BY <1>3, <2>1
<1>6. CASE Administer(r) /\ ~CommitActivate(r)
  <2>1. setting' = setting /\ crossed' = crossed
    BY <1>6 DEF Administer, Load, Probe, Check, CommitCreate, CommitUpdate, CommitDelete, Reset, Forget,
                rows, causes
  <2> QED BY <1>3, <2>1
<1> QED BY <1>4, <1>5, <1>6

(* The snapshots.                                                          *)
LEMMA SnapshotsKept ==
    ASSUME KInv, snaps' = snaps, tainted' = tainted
    PROVE  SnapshotNeedsCause'
BY DEF KInv, SnapshotNeedsCause

LEMMA SnapshotStored ==
    ASSUME KInv, NEW r \in Requests, Introspect(r)
    PROVE  SnapshotNeedsCause'
<1> DEFINE w == my[r].at
           k == my[r].key
<1>1. /\ w \in Workers /\ k \in Ids /\ pc[r] = "introspect" /\ Scan(r)
      /\ snaps \in [Workers -> [Ids -> Ids \cup {None}]] /\ tainted \in [Workers -> SUBSET Ids]
  BY DEF KInv, IInv, TypeOK, Introspect, StoreSnapshot, Placed, Locals
<1>2. /\ snaps' = [snaps EXCEPT ![w][k] = my[r].held]
      /\ tainted' = [tainted EXCEPT ![w] = IF Cardinality(active[r]) <= 1 THEN tainted[w] \ {k}
                                                                     ELSE tainted[w] \cup {k}]
  BY DEF Introspect, StoreSnapshot
<1>3. Cardinality(active[r]) <= 1 => my[r].held = k
  <2>1. CASE my[r].op = "report"
    <3>1. my[r].held \in active[r] /\ k \in active[r] /\ IsFiniteSet(active[r])
      BY <1>1, <2>1 DEF Scan
    <3> QED BY <3>1, AtMostOne
  <2>2. CASE my[r].op # "report"
    BY <1>1, <2>2 DEF Scan
  <2> QED BY <2>1, <2>2
<1> HIDE DEF w, k
<1>4. ASSUME NEW v \in Workers, NEW i \in Ids, snaps'[v][i] \notin {None, i}
      PROVE  i \in tainted'[v]
  <2>1. CASE v = w /\ i = k
    BY <1>1, <1>2, <1>3, <1>4, <2>1
  <2>2. CASE v # w \/ i # k
    <3>1. snaps'[v][i] = snaps[v][i] /\ (i \in tainted[v] => i \in tainted'[v])
      BY <1>1, <1>2, <2>2
    <3> QED BY <1>4, <3>1 DEF KInv, SnapshotNeedsCause
  <2> QED BY <2>1, <2>2
<1> QED BY <1>4 DEF SnapshotNeedsCause

LEMMA SnapshotsEmptied ==
    ASSUME KInv, NEW w \in Workers, tainted' = [tainted EXCEPT ![w] = {}],
           snaps' = [snaps EXCEPT ![w] = [k \in Ids |-> None]]
    PROVE  SnapshotNeedsCause'
BY DEF KInv, IInv, TypeOK, SnapshotNeedsCause

LEMMA SnapshotsStep ==
    ASSUME KInv, NEW r \in Requests, Report(r) \/ Administer(r) \/ \E w \in Workers : Ask(r, w)
    PROVE  SnapshotNeedsCause'
<1>1. CASE Introspect(r)
  BY <1>1, SnapshotStored
<1>2. CASE Forget(r)
  <2>1. my[r].at \in Workers
    BY <1>2 DEF Forget, KInv, IInv, Placed
  <2> QED BY <1>2, <2>1, SnapshotsEmptied DEF Forget, Emptied
<1>3. CASE (Report(r) /\ ~Introspect(r)) \/ \E w \in Workers : Ask(r, w)
  <2>1. snaps' = snaps /\ tainted' = tainted
    BY <1>3 DEF Report, ReadSetting, ReadRow, ReadUrl, GetAdapter, UseAdapter, TakeLock,
                ScanFails, Execute, Ask, StartReport, StartRescan, StartCreate,
                StartUpdate, StartDelete, StartActivate, Start, caches, causes
  <2> QED BY <2>1, SnapshotsKept
<1>4. CASE Administer(r) /\ ~Forget(r)
  <2>1. snaps' = snaps /\ tainted' = tainted
    BY <1>4 DEF Administer, Load, Probe, Check, CommitCreate, CommitUpdate, CommitActivate, CommitDelete,
                Reset, caches, causes
  <2> QED BY <2>1, SnapshotsKept
<1> QED BY <1>1, <1>2, <1>3, <1>4

(* The rows and the setting.                                               *)
LEMMA RowsKept ==
    ASSUME KInv, UNCHANGED rows, merged' = merged, crossed' = crossed
    PROVE  SavedIsSound'
BY DEF KInv, SavedIsSound, rows, There, Saved

LEMMA RowUpdated ==
    ASSUME KInv, NEW r \in Requests, CommitUpdate(r)
    PROVE  SavedIsSound'
<1> DEFINE c == my[r].conn
           base == my[r].base
           want == my[r].want
<1>1. /\ pc[r] = "commit" /\ my[r].op = "update" /\ want \in Details /\ c \in Conns
      /\ want \in ReadOnly /\ setting' = setting
      /\ conns \in [Conns -> Details \cup {Unused, Gone}]
  BY DEF CommitUpdate, KInv, IInv, TypeOK, Placed, Judged
<1>2. CASE /\ Saved(c)
           /\ \E login \in {want.login} \cup (IF want.login = base.login THEN {conns[c].login} ELSE {}) :
                 conns' = [conns EXCEPT ![c] =
                             [host  |-> IF want.host # base.host THEN want.host ELSE conns[c].host,
                              login |-> login]]
           /\ merged' = IF conns[c] = base THEN merged \ {c} ELSE merged \cup {c}
           /\ crossed' = crossed
  <2>1. PICK login \in {want.login} \cup (IF want.login = base.login THEN {conns[c].login} ELSE {}) :
                 conns' = [conns EXCEPT ![c] =
                             [host  |-> IF want.host # base.host THEN want.host ELSE conns[c].host,
                              login |-> login]]
    BY <1>2
  <2>2. conns[c] \in Details
    BY <1>2 DEF Saved
  <2>3. conns[c] = base => conns'[c] = want
    <3>1. want = [host |-> want.host, login |-> want.login]
      BY <1>1 DEF Details
    <3> QED BY <1>1, <2>1, <3>1
  <2>4. conns'[c] \in Details /\ \A d \in Conns \ {c} : conns'[d] = conns[d]
    BY <1>1, <2>1, <2>2 DEF Details
  <2>5. There' = There
    BY <2>2, <2>4 DEF There, Saved
  <2> QED BY <1>1, <1>2, <2>3, <2>4, <2>5 DEF KInv, SavedIsSound, Saved
<1>3. CASE UNCHANGED << conns, causes >>
  BY <1>1, <1>3, RowsKept DEF rows, causes
<1> QED BY <1>2, <1>3 DEF CommitUpdate

LEMMA RowsStep ==
    ASSUME KInv, NEW r \in Requests, Report(r) \/ Administer(r) \/ \E w \in Workers : Ask(r, w)
    PROVE  SavedIsSound'
<1> USE DEF KInv
<1>1. conns \in [Conns -> Details \cup {Unused, Gone}] /\ Judged(r) /\ Placed(r)
  BY DEF IInv, TypeOK
<1>2. CASE CommitCreate(r)
  <2>1. PICK c \in Conns : conns[c] = Unused /\ conns' = [conns EXCEPT ![c] = my[r].want]
    BY <1>2 DEF CommitCreate
  <2>2. my[r].want \in ReadOnly /\ UNCHANGED << setting, merged, crossed >>
    BY <1>1, <1>2 DEF CommitCreate, Judged, causes
  <2>3. conns'[c] = my[r].want /\ \A d \in Conns \ {c} : conns'[d] = conns[d]
    BY <1>1, <2>1
  <2>4. There \subseteq There'
    BY <2>1, <2>3, Distinct DEF There, Saved
  <2> QED BY <2>2, <2>3, <2>4 DEF SavedIsSound, Saved
<1>3. CASE CommitUpdate(r)
  BY <1>3, RowUpdated
<1>4. CASE CommitActivate(r)
  <2>1. CASE my[r].conn \in There /\ setting' = my[r].conn
    <3>1. conns' = conns /\ merged' = merged
      BY <1>4 DEF CommitActivate
    <3>2. There' = There
      BY <3>1 DEF There, Saved
    <3> QED BY <2>1, <3>1, <3>2 DEF SavedIsSound, Saved
  <2> QED BY <1>4, <2>1, RowsKept DEF CommitActivate, rows
<1>5. CASE CommitDelete(r)
  <2>1. /\ pc[r] = "commit" /\ my[r].op = "delete" /\ my[r].conn \in Conns
        /\ conns' = [conns EXCEPT ![my[r].conn] = Gone] /\ UNCHANGED << setting, merged, crossed >>
    BY <1>1, <1>5 DEF CommitDelete, Placed, causes
  <2>2. Gone \notin Details
    BY Distinct
  <2>3. \A d \in Conns : IF d = my[r].conn THEN ~Saved(d)' ELSE conns'[d] = conns[d]
    BY <1>1, <2>1, <2>2 DEF Saved
  <2>4. setting \in There /\ setting \notin There' => setting = my[r].conn
    BY <2>3 DEF There, Saved
  <2> QED BY <1>1, <2>1, <2>3, <2>4 DEF SavedIsSound, Saved, Judged
<1>6. CASE Report(r) \/ \E w \in Workers : Ask(r, w)
  <2>1. UNCHANGED rows /\ merged' = merged /\ crossed' = crossed
    BY <1>6 DEF Report, ReadSetting, ReadRow, ReadUrl, GetAdapter, UseAdapter, TakeLock, Introspect,
                StoreSnapshot, ScanFails, Execute, Ask, StartReport, StartRescan, StartCreate,
                StartUpdate, StartDelete, StartActivate, Start, causes
  <2> QED BY <2>1, RowsKept
<1>7. CASE Load(r) \/ Probe(r) \/ Check(r) \/ Reset(r) \/ Forget(r)
  <2>1. UNCHANGED rows /\ merged' = merged /\ crossed' = crossed
    BY <1>7 DEF Load, Probe, Check, Reset, Forget, causes
  <2> QED BY <2>1, RowsKept
<1> QED BY <1>2, <1>3, <1>4, <1>5, <1>6, <1>7 DEF Administer

LEMMA RestartScan ==
    ASSUME KInv, NEW w \in Workers, Restart(w)
    PROVE  \A q \in Requests : Scan(q)' /\ Judged(q)'
<1>1. /\ pc' = [q \in Requests |-> IF my[q].at = w THEN "idle" ELSE pc[q]]
      /\ my' = [q \in Requests |-> IF my[q].at = w THEN Free(None) ELSE my[q]]
      /\ active' = [q \in Requests |-> IF my[q].at = w THEN {} ELSE active[q]]
      /\ setting' = setting /\ crossed' = crossed
  BY DEF Restart, rows
<1> SUFFICES ASSUME NEW q \in Requests PROVE Scan(q)' /\ Judged(q)'
  OBVIOUS
<1>2. CASE my[q].at = w
  BY <1>1, <1>2, DoneScan
<1>3. CASE my[q].at # w
  BY <1>1, <1>3 DEF KInv, Scan, Judged
<1> QED BY <1>2, <1>3

-----------------------------------------------------------------------------
LEMMA InitKInv == Init => KInv
<1> SUFFICES ASSUME Init PROVE KInv
  OBVIOUS
<1>1. \A q \in Requests : Scan(q) /\ Judged(q)
  BY FS_EmptySet DEF Init, Scan, Judged, Free
<1>2. SnapshotNeedsCause
  BY DEF Init, SnapshotNeedsCause
<1>3. SavedIsSound
  BY Distinct DEF Init, SavedIsSound, Saved, There
<1> QED BY <1>1, <1>2, <1>3, InitIInv DEF KInv

LEMMA NextKInv == KInv /\ [Next]_vars => KInv'
<1> SUFFICES ASSUME KInv, [Next]_vars PROVE KInv'
  OBVIOUS
<1>1. IInv'
  BY NextKeeps DEF KInv
<1>2. ASSUME NEW r \in Requests, Report(r) \/ Administer(r) \/ \E w \in Workers : Ask(r, w)
      PROVE  KInv'
  <2>1. Aside(r) /\ Scan(r)' /\ Judged(r)'
    BY <1>2, ReportScan, AdministerScan, AskScan
  <2>2. \A q \in Requests : Scan(q)' /\ Judged(q)'
    BY <1>2, <2>1, OthersKeep
  <2> QED BY <1>1, <1>2, <2>2, SnapshotsStep, RowsStep DEF KInv
<1>3. ASSUME NEW w \in Workers, ConnectorChange(w) PROVE KInv'
  <2>1. \A q \in Requests : Scan(q)' /\ Judged(q)'
    BY <1>3 DEF ConnectorChange, KInv, Scan, Judged, rows
  <2>2. SnapshotNeedsCause'
    BY <1>3, SnapshotsEmptied DEF ConnectorChange, Emptied
  <2>3. SavedIsSound'
    BY <1>3, RowsKept DEF ConnectorChange
  <2> QED BY <1>1, <2>1, <2>2, <2>3 DEF KInv
<1>4. ASSUME NEW w \in Workers, Restart(w) PROVE KInv'
  <2>1. SnapshotNeedsCause'
    BY <1>4, SnapshotsEmptied DEF Restart
  <2>2. SavedIsSound'
    BY <1>4, RowsKept DEF Restart
  <2> QED BY <1>1, <1>4, <2>1, <2>2, RestartScan DEF KInv
<1>5. CASE UNCHANGED vars
  <2>1. UNCHANGED rows /\ UNCHANGED << snaps, pc, my, active, tainted, merged, crossed >>
    BY <1>5 DEF vars, caches, causes
  <2>2. \A q \in Requests : Scan(q)' /\ Judged(q)'
    BY <2>1 DEF KInv, Scan, Judged, rows
  <2> QED BY <1>1, <2>1, <2>2, SnapshotsKept, RowsKept DEF KInv
<1> QED BY <1>2, <1>3, <1>4, <1>5 DEF Next

LEMMA KInvariance == Spec => []KInv
BY InitKInv, NextKInv, PTL DEF Spec

(* get_snapshot reads the key before it scans, each time from the setting:  *)
(* what it stores under a connection was taken from that connection, or the *)
(* live connection changed in the middle of that scan (schema_service.py).  *)
THEOREM SnapshotsFollow == Spec => []SnapshotNeedsCause
BY KInvariance, PTL DEF KInv

(* Probes and commits are steps of their own: what they let through is      *)
(* still sound at the commit, unless two updates of a row crossed, or an    *)
(* activation and a delete of a connection did (connection_service.py).    *)
THEOREM SavedStaysSound == Spec => []SavedIsSound
BY KInvariance, PTL DEF KInv

=============================================================================
