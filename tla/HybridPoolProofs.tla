--------------------------- MODULE HybridPoolProofs ---------------------------
(***************************************************************************)
(* Proofs about HybridPool, for any number of requests, tables, reports    *)
(* and connections: the pool's accounting, and what a mixed report reads.  *)
(***************************************************************************)
EXTENDS HybridPool, FiniteSetTheorems, TLAPS

-----------------------------------------------------------------------------
(***************************************************************************)
(* The inductive invariant.                                                *)
(***************************************************************************)
Queued == {idle[i] : i \in 1 .. Len(idle)}

Occupied(c) == \E r \in Requests : c = sess[r] \/ c = second[r]

(* No connection is twice in the queue, in the queue and held, or held     *)
(* twice; those that are somewhere are the ones that exist.                *)
Owned ==
    /\ \A i, k \in 1 .. Len(idle) : idle[i] = idle[k] => i = k
    /\ \A r \in Requests : sess[r] \notin Queued /\ second[r] \notin Queued
    /\ \A r, q \in Requests :
          /\ sess[r] = second[q] => sess[r] = NoConn
          /\ r # q /\ sess[r] = sess[q] => sess[r] = NoConn
          /\ r # q /\ second[r] = second[q] => second[r] = NoConn
    /\ \A c \in Conns : c \in open <=> c \in Queued \/ Occupied(c)

(* A request holds its session's connection from the first query to the    *)
(* commit of the history, and again around the audit; its executor's while *)
(* it stages and executes.                                                 *)
Phased ==
    \A r \in Requests :
        /\ sess[r] # NoConn <=> pc[r] \notin {"idle", "begin", "audit"}
        /\ second[r] # NoConn <=> pc[r] \in {"stage", "copy", "execute"}
        /\ pc[r] # "copy" => cur[r] = {}

(* What has not been taken up yet, or is being copied.                     *)
Unstaged(r) == IF pc[r] = "execute" THEN {} ELSE todo[r] \cup cur[r]

(* Every other operational table of the plan is on the executor's          *)
(* connection, whole.                                                      *)
Staging ==
    \A r \in Requests : second[r] # NoConn =>
        \A t \in Staged(r) \ Unstaged(r) : tx[second[r]].temps[t] = "whole"

PoolInv == TypeOK /\ Owned /\ Phased /\ Staging

-----------------------------------------------------------------------------
(***************************************************************************)
(* Sessions, and the pool's queue.                                         *)
(***************************************************************************)
LEMMA ConnsType == Conns \subseteq Nat \ {0} /\ NoConn \notin Conns
BY ConstantsAssumption DEF Conns, NoConn

LEMMA FreshType == Fresh \in Session
BY DEF Fresh, Session, Copies

LEMMA AgedType ==
    ASSUME NEW s \in Session
    PROVE  Aged(s) \in Session
BY DEF Aged, Session, Copies

LEMMA StagedType ==
    ASSUME NEW s \in Session, NEW t \in OpTables
    PROVE  [s EXCEPT !.temps[t] = "part"] \in Session
BY DEF Session, Copies

(* A checkout takes a connection nobody has out of the queue, or opens it. *)
LEMMA TakeOutQueue ==
    ASSUME TypeOK, Owned, NEW c, TakeOut(c)
    PROVE  /\ c \in Conns /\ ~Occupied(c)
           /\ idle' \in Seq(Conns) /\ Len(idle') <= PoolSize
           /\ open' \in SUBSET Conns
           /\ Queued' = Queued \ {c}
           /\ \A i, k \in 1 .. Len(idle') : idle'[i] = idle'[k] => i = k
           /\ open' = open \cup {c}
<1>0. /\ idle \in Seq(Conns) /\ Len(idle) <= PoolSize /\ open \in SUBSET Conns
      /\ Len(idle) \in Nat /\ PoolSize \in Nat
      /\ \A i, k \in 1 .. Len(idle) : idle[i] = idle[k] => i = k
  BY ConstantsAssumption DEF TypeOK, Owned
<1>1. CASE idle # << >>
  <2>1. c = idle[1] /\ idle' = Tail(idle) /\ open' = open \cup {c} /\ Len(idle) >= 1
    BY <1>0, <1>1 DEF TakeOut, Available
  <2>2. Len(idle') = Len(idle) - 1 /\ \A i \in 1 .. Len(idle') : idle'[i] = idle[i + 1]
    BY <1>0, <1>1, <2>1
  <2>3. c \in Conns /\ c \in Queued
    BY <1>0, <2>1 DEF Queued
  <2>4. ~Occupied(c)
    BY <2>3 DEF Occupied, Owned
  <2>5. idle' \in Seq(Conns) /\ Len(idle') <= PoolSize
    BY <1>0, <1>1, <2>1, <2>2
  <2>6. \A i, k \in 1 .. Len(idle') : idle'[i] = idle'[k] => i = k
    BY <1>0, <2>1, <2>2
  <2>7. Queued' = Queued \ {c}
    <3>1. ASSUME NEW x \in Queued' PROVE x \in Queued \ {c}
      <4>1. PICK i \in 1 .. Len(idle') : x = idle'[i]
        BY <3>1 DEF Queued
      <4>2. i + 1 \in 1 .. Len(idle) /\ x = idle[i + 1] /\ i + 1 # 1 /\ 1 \in 1 .. Len(idle)
        BY <1>0, <2>1, <2>2, <4>1
      <4> QED
        BY <1>0, <2>1, <4>2 DEF Queued
    <3>2. ASSUME NEW x \in Queued \ {c} PROVE x \in Queued'
      <4>1. PICK i \in 1 .. Len(idle) : x = idle[i]
        BY <3>2 DEF Queued
      <4>2. i # 1
        BY <2>1, <3>2, <4>1
      <4>3. i - 1 \in 1 .. Len(idle') /\ x = idle'[i - 1]
        BY <1>0, <2>1, <2>2, <4>1, <4>2
      <4> QED
        BY <4>3 DEF Queued
    <3> QED
      BY <3>1, <3>2
  <2> QED
    BY <1>0, <2>1, <2>3, <2>4, <2>5, <2>6, <2>7
<1>2. CASE idle = << >>
  <2>1. c \in Conns \ open /\ idle' = idle /\ open' = open \cup {c}
    BY <1>2 DEF TakeOut, Available
  <2>2. ~Occupied(c) /\ c \notin Queued
    BY <2>1 DEF Owned
  <2>3. Queued' = Queued
    BY <2>1 DEF Queued
  <2> QED
    BY <1>0, <2>1, <2>2, <2>3
<1> QED
  BY <1>1, <1>2

(* A connection given back is queued, or closed when the queue is full.    *)
LEMMA PutBackQueue ==
    ASSUME TypeOK, Owned, NEW c \in Conns, c \in open, c \notin Queued, PutBack(c)
    PROVE  /\ idle' \in Seq(Conns) /\ Len(idle') <= PoolSize
           /\ \A i, k \in 1 .. Len(idle') : idle'[i] = idle'[k] => i = k
           /\ \/ Queued' = Queued \cup {c} /\ open' = open
              \/ Queued' = Queued /\ open' = open \ {c}
           /\ conn' \in [Conns -> Session] /\ tx' \in [Conns -> Session]
           /\ \A d \in Conns \ {c} : tx'[d] = tx[d]
<1>0. /\ idle \in Seq(Conns) /\ Len(idle) <= PoolSize /\ open \in SUBSET Conns
      /\ Len(idle) \in Nat /\ PoolSize \in Nat
      /\ \A i, k \in 1 .. Len(idle) : idle[i] = idle[k] => i = k
      /\ \A i \in 1 .. Len(idle) : idle[i] # c
  BY ConstantsAssumption DEF TypeOK, Owned, Queued
<1>a. conn' \in [Conns -> Session] /\ tx' \in [Conns -> Session]
  <2> DEFINE back == IF Len(idle) < PoolSize THEN Aged(conn[c]) ELSE Fresh
  <2>1. back \in Session
    BY FreshType, AgedType DEF TypeOK
  <2>2. conn' = [conn EXCEPT ![c] = back] /\ tx' = [tx EXCEPT ![c] = back]
    BY DEF PutBack
  <2> HIDE DEF back
  <2> QED
    BY <2>1, <2>2 DEF TypeOK
<1>b. \A d \in Conns \ {c} : tx'[d] = tx[d]
  BY DEF PutBack, TypeOK
<1>1. CASE Len(idle) < PoolSize
  <2>1. idle' = Append(idle, c) /\ open' = open
    BY <1>1 DEF PutBack
  <2>2. /\ Len(idle') = Len(idle) + 1 /\ idle'[Len(idle) + 1] = c
        /\ \A i \in 1 .. Len(idle) : idle'[i] = idle[i]
        /\ idle' \in Seq(Conns)
    BY <1>0, <2>1
  <2>3. \A i \in 1 .. Len(idle') : i \in 1 .. Len(idle) \/ i = Len(idle) + 1
    BY <1>0, <2>2
  <2>4. \A i, k \in 1 .. Len(idle') : idle'[i] = idle'[k] => i = k
    BY <1>0, <2>2, <2>3
  <2>5. Queued' = Queued \cup {c}
    <3>1. ASSUME NEW x \in Queued' PROVE x \in Queued \cup {c}
      BY <2>2, <2>3 DEF Queued
    <3>2. ASSUME NEW x \in Queued \cup {c} PROVE x \in Queued'
      <4>1. (\E i \in 1 .. Len(idle) : x = idle[i]) \/ x = c
        BY DEF Queued
      <4>2. Len(idle) + 1 \in 1 .. Len(idle') /\ 1 .. Len(idle) \subseteq 1 .. Len(idle')
        BY <1>0, <2>2
      <4> QED
        BY <2>2, <4>1, <4>2 DEF Queued
    <3> QED
      BY <3>1, <3>2
  <2> QED
    BY <1>0, <1>1, <1>a, <1>b, <2>1, <2>2, <2>4, <2>5
<1>2. CASE ~(Len(idle) < PoolSize)
  <2>1. idle' = idle /\ open' = open \ {c}
    BY <1>2 DEF PutBack
  <2>2. Queued' = Queued
    BY <2>1 DEF Queued
  <2> QED
    BY <1>0, <1>a, <1>b, <2>1, <2>2
<1> QED
  BY <1>1, <1>2

(* Owned, when a request takes a connection for its session or its executor. *)
LEMMA OwnedTake ==
    ASSUME TypeOK, Owned, NEW c, TakeOut(c), NEW r \in Requests,
           \/ sess[r] = NoConn /\ sess' = [sess EXCEPT ![r] = c] /\ second' = second
           \/ second[r] = NoConn /\ second' = [second EXCEPT ![r] = c] /\ sess' = sess
    PROVE  Owned'
<1>1. /\ c \in Conns /\ ~Occupied(c) /\ c # NoConn
      /\ Queued' = Queued \ {c} /\ open' = open \cup {c}
      /\ \A i, k \in 1 .. Len(idle') : idle'[i] = idle'[k] => i = k
  BY TakeOutQueue, ConnsType
<1>2. \A q \in Requests : sess[q] # c /\ second[q] # c
  BY <1>1 DEF Occupied
<1>3. /\ sess' \in [Requests -> Conns \cup {NoConn}] /\ second' \in [Requests -> Conns \cup {NoConn}]
      /\ \A q \in Requests \ {r} : sess'[q] = sess[q] /\ second'[q] = second[q]
      /\ \/ sess[r] = NoConn /\ sess'[r] = c /\ second'[r] = second[r]
         \/ second[r] = NoConn /\ second'[r] = c /\ sess'[r] = sess[r]
  BY <1>1 DEF TypeOK
<1>4. \A q \in Requests : sess'[q] \notin Queued' /\ second'[q] \notin Queued'
  BY <1>1, <1>2, <1>3 DEF Owned
<1>5. \A p, q \in Requests :
          /\ sess'[p] = second'[q] => sess'[p] = NoConn
          /\ p # q /\ sess'[p] = sess'[q] => sess'[p] = NoConn
          /\ p # q /\ second'[p] = second'[q] => second'[p] = NoConn
  BY <1>1, <1>2, <1>3 DEF Owned
<1>6. \A d \in Conns : d \in open' <=> d \in Queued' \/ Occupied(d)'
  <2> SUFFICES ASSUME NEW d \in Conns PROVE d \in open' <=> d \in Queued' \/ Occupied(d)'
    OBVIOUS
  <2>1. Occupied(d)' <=> Occupied(d) \/ d = c
    BY <1>1, <1>3, ConnsType DEF Occupied
  <2> QED
    BY <1>1, <2>1 DEF Owned
<1> QED
  BY <1>1, <1>4, <1>5, <1>6 DEF Owned

(* And when it gives one back.                                             *)
LEMMA OwnedPut ==
    ASSUME TypeOK, Owned, NEW c \in Conns, PutBack(c), NEW r \in Requests,
           \/ sess[r] = c /\ sess' = [sess EXCEPT ![r] = NoConn] /\ second' = second
           \/ second[r] = c /\ second' = [second EXCEPT ![r] = NoConn] /\ sess' = sess
    PROVE  /\ Owned'
           /\ idle' \in Seq(Conns) /\ Len(idle') <= PoolSize /\ open' \in SUBSET Conns
           /\ conn' \in [Conns -> Session] /\ tx' \in [Conns -> Session]
           /\ \A d \in Conns \ {c} : tx'[d] = tx[d]
           /\ sess' \in [Requests -> Conns \cup {NoConn}]
           /\ second' \in [Requests -> Conns \cup {NoConn}]
<1>1. c \in open /\ c \notin Queued /\ Occupied(c) /\ c # NoConn
  BY ConnsType DEF Owned, Occupied
<1>2. /\ idle' \in Seq(Conns) /\ Len(idle') <= PoolSize
      /\ \A i, k \in 1 .. Len(idle') : idle'[i] = idle'[k] => i = k
      /\ \/ Queued' = Queued \cup {c} /\ open' = open
         \/ Queued' = Queued /\ open' = open \ {c}
      /\ conn' \in [Conns -> Session] /\ tx' \in [Conns -> Session]
      /\ \A d \in Conns \ {c} : tx'[d] = tx[d]
  BY <1>1, PutBackQueue
<1>3. /\ sess' \in [Requests -> Conns \cup {NoConn}] /\ second' \in [Requests -> Conns \cup {NoConn}]
      /\ \A q \in Requests \ {r} : sess'[q] = sess[q] /\ second'[q] = second[q]
      /\ \/ sess[r] = c /\ sess'[r] = NoConn /\ second'[r] = second[r]
         \/ second[r] = c /\ second'[r] = NoConn /\ sess'[r] = sess[r]
  BY <1>1 DEF TypeOK
<1>4. \A q \in Requests : sess'[q] # c /\ second'[q] # c
  BY <1>1, <1>3 DEF Owned
<1>4a. NoConn \notin Queued'
  BY <1>2, ConnsType DEF Queued
<1>5. \A q \in Requests : sess'[q] \notin Queued' /\ second'[q] \notin Queued'
  BY <1>2, <1>3, <1>4, <1>4a DEF Owned
<1>6. \A p, q \in Requests :
          /\ sess'[p] = second'[q] => sess'[p] = NoConn
          /\ p # q /\ sess'[p] = sess'[q] => sess'[p] = NoConn
          /\ p # q /\ second'[p] = second'[q] => second'[p] = NoConn
  BY <1>1, <1>3 DEF Owned
<1>7. \A d \in Conns : d \in open' <=> d \in Queued' \/ Occupied(d)'
  <2> SUFFICES ASSUME NEW d \in Conns PROVE d \in open' <=> d \in Queued' \/ Occupied(d)'
    OBVIOUS
  <2>1. d # c => (Occupied(d)' <=> Occupied(d))
    BY <1>1, <1>3, ConnsType DEF Occupied
  <2>2. ~Occupied(c)'
    BY <1>4 DEF Occupied
  <2> QED
    BY <1>1, <1>2, <2>1, <2>2 DEF Owned
<1>8. open' \in SUBSET Conns
  BY <1>2 DEF TypeOK
<1> QED
  BY <1>2, <1>3, <1>5, <1>6, <1>7, <1>8 DEF Owned

LEMMA OwnedKept ==
    ASSUME Owned, UNCHANGED << idle, open, sess, second >>
    PROVE  Owned'
BY DEF Owned, Occupied, Queued

-----------------------------------------------------------------------------
(***************************************************************************)
(* The steps of a request.                                                 *)
(***************************************************************************)
(* It leaves the other requests, and their executors' connections, alone.  *)
Apart(r) ==
    \A q \in Requests \ {r} :
        /\ pc'[q] = pc[q] /\ job'[q] = job[q] /\ sess'[q] = sess[q] /\ second'[q] = second[q]
        /\ todo'[q] = todo[q] /\ cur'[q] = cur[q]
        /\ second[q] # NoConn => tx'[second[q]] = tx[second[q]]

(* So the phases and the staging have to be checked for itself only.       *)
LEMMA ApartKeeps ==
    ASSUME Phased, Staging, NEW r \in Requests, Apart(r),
           sess'[r] # NoConn <=> pc'[r] \notin {"idle", "begin", "audit"},
           second'[r] # NoConn <=> pc'[r] \in {"stage", "copy", "execute"},
           pc'[r] # "copy" => cur'[r] = {},
           second'[r] # NoConn =>
               \A t \in Staged(r)' \ Unstaged(r)' : tx'[second'[r]].temps[t] = "whole"
    PROVE  Phased' /\ Staging'
<1>1. Phased'
  BY DEF Phased, Apart
<1>2. ASSUME NEW q \in Requests \ {r} PROVE Staged(q)' = Staged(q) /\ Unstaged(q)' = Unstaged(q)
  BY DEF Apart, Staged, Unstaged
<1>3. ASSUME NEW q \in Requests \ {r}, second'[q] # NoConn
      PROVE  \A t \in Staged(q)' \ Unstaged(q)' : tx'[second'[q]].temps[t] = "whole"
  <2>1. second'[q] = second[q] /\ tx'[second[q]] = tx[second[q]]
    BY <1>3 DEF Apart
  <2> QED
    BY <1>2, <1>3, <2>1 DEF Staging
<1> QED
  BY <1>1, <1>3 DEF Staging

Outcomes == {"none"} \cup Refusals \cup Crashes

(* The executor's connection goes back, whatever the outcome.              *)
LEMMA LeaveStep ==
    ASSUME PoolInv, NEW r \in Requests, NEW why \in Outcomes, Leave(r, why),
           pc[r] \in {"stage", "copy", "execute"}
    PROVE  PoolInv'
<1> USE DEF PoolInv
<1>1. /\ second[r] # NoConn /\ second[r] \in Conns /\ sess[r] # NoConn
  BY DEF Phased, TypeOK
<1>2. /\ PutBack(second[r]) /\ second' = [second EXCEPT ![r] = NoConn] /\ sess' = sess
      /\ job' = job /\ todo' = [todo EXCEPT ![r] = {}] /\ cur' = [cur EXCEPT ![r] = {}]
      /\ cause' = [cause EXCEPT ![r] = why]
      /\ pc' = [pc EXCEPT ![r] = IF why \in Crashes THEN "unwind" ELSE "record"]
  BY DEF Leave, Answer, Goto
<1>3. /\ Owned'
      /\ idle' \in Seq(Conns) /\ Len(idle') <= PoolSize /\ open' \in SUBSET Conns
      /\ conn' \in [Conns -> Session] /\ tx' \in [Conns -> Session]
      /\ \A d \in Conns \ {second[r]} : tx'[d] = tx[d]
      /\ sess' \in [Requests -> Conns \cup {NoConn}]
      /\ second' \in [Requests -> Conns \cup {NoConn}]
  BY <1>1, <1>2, OwnedPut
<1>4. TypeOK'
  BY <1>2, <1>3 DEF TypeOK, Outcomes, Steps
<1>5. \A q \in Requests \ {r} : second[q] # NoConn => second[q] \in Conns \ {second[r]}
  BY <1>1 DEF Owned, TypeOK
<1>6. Apart(r)
  BY <1>2, <1>3, <1>5 DEF Apart, TypeOK
<1>7. sess'[r] # NoConn /\ second'[r] = NoConn /\ pc'[r] \in {"unwind", "record"} /\ cur'[r] = {}
  BY <1>1, <1>2 DEF TypeOK
<1>8. Phased' /\ Staging'
  BY <1>6, <1>7, ApartKeeps
<1> QED
  BY <1>3, <1>4, <1>8

(* The session's connection goes back.                                     *)
LEMMA EndSessionStep ==
    ASSUME PoolInv, NEW r \in Requests, EndSession(r), NEW step \in {"idle", "audit"},
           Goto(r, step), pc[r] \in {"record", "unwind"}
    PROVE  PoolInv'
<1> USE DEF PoolInv
<1>1. sess[r] # NoConn /\ sess[r] \in Conns /\ second[r] = NoConn /\ cur[r] = {}
  BY DEF Phased, TypeOK
<1>2. /\ PutBack(sess[r]) /\ sess' = [sess EXCEPT ![r] = NoConn]
      /\ UNCHANGED << job, second, todo, cur, cause >> /\ pc' = [pc EXCEPT ![r] = step]
  BY DEF EndSession, Goto
<1>3. /\ Owned'
      /\ idle' \in Seq(Conns) /\ Len(idle') <= PoolSize /\ open' \in SUBSET Conns
      /\ conn' \in [Conns -> Session] /\ tx' \in [Conns -> Session]
      /\ \A d \in Conns \ {sess[r]} : tx'[d] = tx[d]
      /\ sess' \in [Requests -> Conns \cup {NoConn}]
      /\ second' \in [Requests -> Conns \cup {NoConn}]
  BY <1>1, <1>2, OwnedPut
<1>4. TypeOK'
  BY <1>2, <1>3 DEF TypeOK, Steps
<1>5. \A q \in Requests \ {r} : second[q] # NoConn => second[q] \in Conns \ {sess[r]}
  BY <1>1 DEF Owned, TypeOK
<1>6. Apart(r)
  BY <1>2, <1>3, <1>5 DEF Apart, TypeOK
<1>7. sess'[r] = NoConn /\ second'[r] = NoConn /\ pc'[r] = step /\ cur'[r] = {}
  BY <1>1, <1>2 DEF TypeOK
<1>8. Phased' /\ Staging'
  BY <1>6, <1>7, ApartKeeps
<1> QED
  BY <1>3, <1>4, <1>8

(* A connection for the session, for the first query or for the audit.     *)
LEMMA SessionStep ==
    ASSUME PoolInv, NEW r \in Requests, NEW c, TakeOut(c),
           pc[r] \in {"begin", "audit"}, sess' = [sess EXCEPT ![r] = c],
           NEW step \in {"built", "unwind"}, Goto(r, step), NEW why \in Outcomes,
           cause' \in {cause, [cause EXCEPT ![r] = why]},
           UNCHANGED << conn, tx, job, second, todo, cur >>
    PROVE  PoolInv'
<1> USE DEF PoolInv
<1>1. sess[r] = NoConn /\ second[r] = NoConn /\ cur[r] = {}
  BY DEF Phased, TypeOK
<1>2. /\ c \in Conns /\ c # NoConn /\ idle' \in Seq(Conns) /\ Len(idle') <= PoolSize
      /\ open' \in SUBSET Conns
  BY TakeOutQueue, ConnsType
<1>3. Owned'
  BY <1>1, OwnedTake
<1>4. TypeOK'
  BY <1>2 DEF TypeOK, Steps, Outcomes, Goto
<1>5. Apart(r)
  BY DEF Apart, TypeOK, Goto
<1>6. sess'[r] # NoConn /\ second'[r] = NoConn /\ pc'[r] = step /\ cur'[r] = {}
  BY <1>1, <1>2 DEF TypeOK, Goto
<1>7. Phased' /\ Staging'
  BY <1>5, <1>6, ApartKeeps
<1> QED
  BY <1>3, <1>4, <1>7

(* A step that has nothing to do with the pool, outside the executor.      *)
LEMMA AnswerStep ==
    ASSUME PoolInv, NEW r \in Requests, UNCHANGED << poolVars, sess, second, todo, cur >>,
           job' \in [Requests -> [rep : Reports, mode : Modes]],
           \A q \in Requests \ {r} : job'[q] = job[q],
           NEW step \in Steps, Goto(r, step), NEW why \in Outcomes,
           cause' = [cause EXCEPT ![r] = why],
           \/ pc[r] \in {"idle", "begin", "audit"} /\ step \in {"idle", "begin", "audit"}
           \/ pc[r] = "built" /\ step \in {"unwind", "record"}
    PROVE  PoolInv'
<1> USE DEF PoolInv, poolVars, Goto
<1>1. TypeOK'
  BY DEF TypeOK, Outcomes
<1>2. Owned'
  BY OwnedKept
<1>3. Apart(r)
  BY DEF Apart, TypeOK
<1>4. second[r] = NoConn /\ cur[r] = {} /\ pc'[r] = step
  BY DEF Phased, TypeOK
<1>5. sess'[r] # NoConn <=> pc'[r] \notin {"idle", "begin", "audit"}
  BY <1>4 DEF Phased
<1>6. Phased' /\ Staging'
  BY <1>3, <1>4, <1>5, ApartKeeps
<1> QED
  BY <1>1, <1>2, <1>6

(* The executor takes a connection of its own; nothing is staged on it.    *)
LEMMA OpenSecondStep ==
    ASSUME PoolInv, NEW r \in Requests, OpenSecond(r)
    PROVE  PoolInv'
<1> USE DEF PoolInv
<1>1. PICK c \in Available :
        TakeOut(c) /\ second' = [second EXCEPT ![r] = c] /\ tx' = [tx EXCEPT ![c].path = "local"]
  BY DEF OpenSecond
<1>2. /\ pc[r] = "built" /\ ~Operational(r) /\ todo' = [todo EXCEPT ![r] = Staged(r)]
      /\ pc' = [pc EXCEPT ![r] = IF Hybrid(r) THEN "stage" ELSE "execute"]
      /\ UNCHANGED << conn, job, sess, cur, cause >>
  BY DEF OpenSecond, Goto
<1>3. sess[r] # NoConn /\ second[r] = NoConn /\ cur[r] = {}
  BY <1>2 DEF Phased
<1>4. /\ c \in Conns /\ c # NoConn /\ idle' \in Seq(Conns) /\ Len(idle') <= PoolSize
      /\ open' \in SUBSET Conns /\ ~Occupied(c)
  BY <1>1, TakeOutQueue, ConnsType
<1>5. Owned'
  BY <1>1, <1>2, <1>3, OwnedTake
<1>6. tx' \in [Conns -> Session] /\ \A d \in Conns \ {c} : tx'[d] = tx[d]
  <2>1. tx' = [tx EXCEPT ![c] = [tx[c] EXCEPT !.path = "local"]] /\ tx[c] \in Session
    BY <1>1, <1>4 DEF TypeOK
  <2>2. [tx[c] EXCEPT !.path = "local"] \in Session
    BY <2>1 DEF Session
  <2> QED
    BY <2>1, <2>2 DEF TypeOK
<1>7. TypeOK'
  BY <1>1, <1>2, <1>4, <1>6 DEF TypeOK, Steps, Staged
<1>8. \A q \in Requests \ {r} : second[q] # NoConn => second[q] \in Conns \ {c}
  BY <1>4 DEF Occupied, TypeOK
<1>9. Apart(r)
  BY <1>1, <1>2, <1>6, <1>8 DEF Apart, TypeOK
<1>10. /\ sess'[r] # NoConn /\ second'[r] # NoConn /\ pc'[r] \in {"stage", "execute"}
       /\ cur'[r] = {} /\ todo'[r] = Staged(r) /\ Staged(r)' = Staged(r)
       /\ pc'[r] = "execute" => Staged(r) = {}
  BY <1>1, <1>2, <1>3, <1>4 DEF TypeOK, Hybrid, Operational, Staged
<1>11. Staged(r)' \ Unstaged(r)' = {}
  BY <1>10 DEF Unstaged
<1>12. Phased' /\ Staging'
  BY <1>9, <1>10, <1>11, ApartKeeps
<1> QED
  BY <1>5, <1>7, <1>12

(* A table is created, filled, or all of it committed: only the executor's *)
(* own connection changes.                                                 *)
LEMMA StagingStep ==
    ASSUME PoolInv, NEW r \in Requests, pc[r] \in {"stage", "copy"},
           UNCHANGED << idle, open, job, sess, second, cause >>,
           conn' \in [Conns -> Session], tx' \in [Conns -> Session],
           \A d \in Conns \ {second[r]} : tx'[d] = tx[d],
           todo' \in [Requests -> SUBSET OpTables], cur' \in [Requests -> SUBSET OpTables],
           \A q \in Requests \ {r} : todo'[q] = todo[q] /\ cur'[q] = cur[q],
           NEW step \in {"stage", "copy", "execute"}, Goto(r, step),
           step # "copy" => cur'[r] = {},
           \A t \in Staged(r) \ Unstaged(r)' : tx'[second[r]].temps[t] = "whole"
    PROVE  PoolInv'
<1> USE DEF PoolInv
<1>1. TypeOK'
  BY DEF TypeOK, Goto, Steps
<1>2. Owned'
  BY OwnedKept
<1>3. second[r] # NoConn /\ sess[r] # NoConn /\ pc'[r] = step
  BY DEF Phased, Goto, TypeOK
<1>4. \A q \in Requests \ {r} : second[q] # NoConn => second[q] \in Conns \ {second[r]}
  BY <1>3 DEF Owned, TypeOK
<1>5. Apart(r)
  BY <1>4 DEF Apart, TypeOK, Goto
<1>6. Staged(r)' = Staged(r)
  BY DEF Staged
<1>7. Phased' /\ Staging'
  BY <1>3, <1>5, <1>6, ApartKeeps
<1> QED
  BY <1>1, <1>2, <1>7

LEMMA StageCreateStep ==
    ASSUME PoolInv, NEW r \in Requests, NEW t \in OpTables, StageCreate(r, t)
    PROVE  PoolInv'
<1> USE DEF PoolInv
<1>1. pc[r] = "stage" /\ t \in todo[r]
  BY DEF StageCreate
<1>2. second[r] # NoConn /\ second[r] \in Conns /\ cur[r] = {}
  BY <1>1 DEF Phased, TypeOK
<1>3. CASE Leave(r, "exists")
  BY <1>1, <1>3, LeaveStep DEF Outcomes, Crashes
<1>4. CASE ~Leave(r, "exists")
  <2>1. /\ tx' = [tx EXCEPT ![second[r]].temps[t] = "part"]
        /\ todo' = [todo EXCEPT ![r] = @ \ {t}] /\ cur' = [cur EXCEPT ![r] = {t}]
        /\ Goto(r, "copy") /\ UNCHANGED << idle, open, conn, job, sess, second, cause >>
    BY <1>4 DEF StageCreate
  <2>2. tx' \in [Conns -> Session] /\ conn' \in [Conns -> Session]
    BY <1>2, <2>1, StagedType DEF TypeOK
  <2>3. \A d \in Conns \ {second[r]} : tx'[d] = tx[d]
    BY <1>2, <2>1 DEF TypeOK
  <2>4. /\ todo' \in [Requests -> SUBSET OpTables] /\ cur' \in [Requests -> SUBSET OpTables]
        /\ \A q \in Requests \ {r} : todo'[q] = todo[q] /\ cur'[q] = cur[q]
        /\ todo'[r] = todo[r] \ {t} /\ cur'[r] = {t} /\ pc'[r] = "copy"
    BY <2>1 DEF TypeOK, Goto
  <2>5. Unstaged(r)' = Unstaged(r)
    BY <1>1, <1>2, <2>4 DEF Unstaged
  <2>6. \A u \in Staged(r) \ Unstaged(r) : tx[second[r]].temps[u] = "whole" /\ u \in OpTables /\ u # t
    BY <1>1, <1>2 DEF Staging, Unstaged, Staged
  <2>7. \A u \in Staged(r) \ Unstaged(r) : tx'[second[r]].temps[u] = "whole"
    BY <1>2, <2>1, <2>6 DEF TypeOK, Session
  <2> QED
    BY <1>1, <2>1, <2>2, <2>3, <2>4, <2>5, <2>7, StagingStep
<1> QED
  BY <1>3, <1>4

LEMMA StageCopyStep ==
    ASSUME PoolInv, NEW r \in Requests, StageCopy(r)
    PROVE  PoolInv'
<1> USE DEF PoolInv
<1>1. pc[r] = "copy"
  BY DEF StageCopy
<1>2. second[r] # NoConn /\ second[r] \in Conns /\ cur[r] \in SUBSET OpTables
  BY <1>1 DEF Phased, TypeOK
<1>3. CASE \E why \in {"database", "missing", "limit"} : Leave(r, why)
  BY <1>1, <1>3, LeaveStep DEF Outcomes, Refusals
<1>4. CASE ~\E why \in {"database", "missing", "limit"} : Leave(r, why)
  <2> DEFINE copied == [tx[second[r]] EXCEPT !.temps =
                           [t \in OpTables |-> IF t \in cur[r] THEN "whole" ELSE @[t]]]
  <2>1. /\ tx' = [tx EXCEPT ![second[r]] = copied]
        /\ cur' = [cur EXCEPT ![r] = {}] /\ todo' = todo
        /\ Goto(r, "stage") /\ UNCHANGED << idle, open, conn, job, sess, second, cause >>
    BY <1>4 DEF StageCopy
  <2>2. /\ copied \in Session
        /\ \A t \in OpTables : copied.temps[t] = IF t \in cur[r] THEN "whole"
                                                 ELSE tx[second[r]].temps[t]
    <3>1. tx[second[r]] \in Session
      BY <1>2 DEF TypeOK
    <3> QED
      BY <1>2, <3>1 DEF Session, Copies
  <2> HIDE DEF copied
  <2>3. /\ tx' \in [Conns -> Session] /\ conn' \in [Conns -> Session]
        /\ \A d \in Conns \ {second[r]} : tx'[d] = tx[d]
        /\ tx'[second[r]] = copied
    BY <1>2, <2>1, <2>2 DEF TypeOK
  <2>4. /\ todo' \in [Requests -> SUBSET OpTables] /\ cur' \in [Requests -> SUBSET OpTables]
        /\ \A q \in Requests \ {r} : todo'[q] = todo[q] /\ cur'[q] = cur[q]
        /\ cur'[r] = {} /\ pc'[r] = "stage"
    BY <2>1 DEF TypeOK, Goto
  <2>5. Unstaged(r)' = todo[r] /\ Unstaged(r) = todo[r] \cup cur[r]
    BY <1>1, <2>1, <2>4 DEF Unstaged
  <2>6. \A u \in Staged(r) \ Unstaged(r) : tx[second[r]].temps[u] = "whole"
    BY <1>2 DEF Staging
  <2>7. \A u \in Staged(r) \ Unstaged(r)' : tx'[second[r]].temps[u] = "whole"
    BY <2>2, <2>3, <2>5, <2>6 DEF Staged
  <2> QED
    BY <1>1, <2>1, <2>3, <2>4, <2>7, StagingStep
<1> QED
  BY <1>3, <1>4

LEMMA StageCommitStep ==
    ASSUME PoolInv, NEW r \in Requests, StageCommit(r)
    PROVE  PoolInv'
<1> USE DEF PoolInv
<1>1. /\ pc[r] = "stage" /\ todo[r] = {} /\ Goto(r, "execute")
      /\ conn' = [conn EXCEPT ![second[r]] = tx[second[r]]]
      /\ UNCHANGED << idle, open, tx, job, sess, second, todo, cur, cause >>
  BY DEF StageCommit
<1>2. second[r] # NoConn /\ second[r] \in Conns /\ cur[r] = {}
  BY <1>1 DEF Phased, TypeOK
<1>3. conn' \in [Conns -> Session] /\ tx' \in [Conns -> Session]
  BY <1>1, <1>2 DEF TypeOK
<1>4. \A t \in Staged(r) : tx'[second[r]].temps[t] = "whole"
  BY <1>1, <1>2 DEF Staging, Unstaged
<1>5. todo' \in [Requests -> SUBSET OpTables] /\ cur' \in [Requests -> SUBSET OpTables]
  BY <1>1 DEF TypeOK
<1> QED
  BY <1>1, <1>2, <1>3, <1>4, <1>5, StagingStep

(* Nobody gives the audit a connection in time: the request just ends.     *)
LEMMA AuditMissed ==
    ASSUME PoolInv, NEW r \in Requests, pc[r] = "audit", Goto(r, "idle"),
           UNCHANGED << idle, open, sess, conn, tx, job, second, todo, cur, cause >>
    PROVE  PoolInv'
<1> USE DEF PoolInv
<1>1. TypeOK' /\ Apart(r) /\ pc'[r] = "idle"
  BY DEF TypeOK, Goto, Steps, Apart
<1>2. Owned'
  BY OwnedKept
<1>3. sess[r] = NoConn /\ second[r] = NoConn /\ cur[r] = {}
  BY DEF Phased
<1>4. Phased' /\ Staging'
  BY <1>1, <1>3, ApartKeeps
<1> QED
  BY <1>1, <1>2, <1>4

LEMMA PoolInvInit == Init => PoolInv
<1> SUFFICES ASSUME Init PROVE PoolInv
  OBVIOUS
<1>1. Requests # {} => AnyJob \in [rep : Reports, mode : Modes]
  BY ConstantsAssumption DEF AnyJob, Modes
<1>2. TypeOK
  BY <1>1, FreshType, ConstantsAssumption DEF Init, TypeOK, Steps
<1>3. Queued = {}
  BY DEF Init, Queued
<1>4. \A c \in Conns : ~Occupied(c)
  BY ConnsType DEF Init, Occupied
<1>5. Owned
  BY <1>3, <1>4 DEF Init, Owned
<1>6. Phased /\ Staging
  BY DEF Init, Phased, Staging
<1> QED
  BY <1>2, <1>5, <1>6 DEF PoolInv

LEMMA PoolInvNext == PoolInv /\ [Next]_vars => PoolInv'
<1> SUFFICES ASSUME PoolInv, [Next]_vars PROVE PoolInv'
  OBVIOUS
<1>t. job \in [Requests -> [rep : Reports, mode : Modes]]
  BY DEF PoolInv, TypeOK
<1>1. ASSUME NEW r \in Requests, NEW rep \in Reports, NEW mode \in Modes, Ask(r, rep, mode)
      PROVE  PoolInv'
  <2>1. /\ job' \in [Requests -> [rep : Reports, mode : Modes]]
        /\ \A q \in Requests \ {r} : job'[q] = job[q]
    BY <1>1, <1>t DEF Ask
  <2> QED
    BY <1>1, <2>1, AnswerStep DEF Ask, Steps, Outcomes
<1>2. ASSUME NEW r \in Requests, OpenSession(r) PROVE PoolInv'
  <2>1. PICK c \in Available : TakeOut(c) /\ sess' = [sess EXCEPT ![r] = c]
    BY <1>2 DEF OpenSession
  <2>2. PICK step \in {"built", "unwind"} :
          Goto(r, step) /\ cause' \in {cause, [cause EXCEPT ![r] = "shadowed"]}
    BY <1>2 DEF OpenSession
  <2>3. pc[r] = "begin" /\ UNCHANGED << conn, tx, job, second, todo, cur >>
    BY <1>2 DEF OpenSession
  <2> QED
    BY <2>1, <2>2, <2>3, SessionStep DEF Outcomes, Crashes
<1>3. ASSUME NEW r \in Requests, SessionTimeout(r) PROVE PoolInv'
  BY <1>3, <1>t, AnswerStep DEF SessionTimeout, Steps, Outcomes, Crashes
<1>4. ASSUME NEW r \in Requests, RunOperational(r) \/ SecondTimeout(r) PROVE PoolInv'
  <2>1. PICK why \in Outcomes : Answer(r, why)
    BY <1>4 DEF RunOperational, SecondTimeout, Outcomes, Refusals, Crashes
  <2>2. pc[r] = "built" /\ UNCHANGED << poolVars, job, sess, second, todo, cur >>
    BY <1>4 DEF RunOperational, SecondTimeout
  <2>3. PICK step \in {"unwind", "record"} : Goto(r, step) /\ cause' = [cause EXCEPT ![r] = why]
    BY <2>1 DEF Answer
  <2> QED
    BY <1>t, <2>2, <2>3, AnswerStep DEF Steps
<1>5. ASSUME NEW r \in Requests, Execute(r) PROVE PoolInv'
  <2>1. PICK why \in Outcomes : Leave(r, why)
    BY <1>5 DEF Execute, Outcomes, Refusals
  <2> QED
    BY <1>5, <2>1, LeaveStep DEF Execute
<1>6. ASSUME NEW r \in Requests, Record(r) \/ Unwind(r) PROVE PoolInv'
  BY <1>6, EndSessionStep DEF Record, Unwind
<1>7. ASSUME NEW r \in Requests, Audit(r) PROVE PoolInv'
  <2>1. CASE \E c \in Available : TakeOut(c) /\ sess' = [sess EXCEPT ![r] = c]
    <3>1. PICK c \in Available : TakeOut(c) /\ sess' = [sess EXCEPT ![r] = c]
      BY <2>1
    <3>2. CASE Goto(r, "unwind")
      BY <1>7, <3>1, <3>2, SessionStep DEF Audit, Outcomes
    <3>3. CASE ~Goto(r, "unwind")
      BY <1>7, <3>3, AuditMissed DEF Audit
    <3> QED
      BY <3>2, <3>3
  <2>2. CASE ~\E c \in Available : TakeOut(c) /\ sess' = [sess EXCEPT ![r] = c]
    BY <1>7, <2>2, AuditMissed DEF Audit
  <2> QED
    BY <2>1, <2>2
<1>8. CASE UNCHANGED vars
  BY <1>8 DEF vars, PoolInv, TypeOK, Owned, Occupied, Queued, Phased, Staging, Staged, Unstaged
<1> QED
  BY <1>1, <1>2, <1>3, <1>4, <1>5, <1>6, <1>7, <1>8, OpenSecondStep, StageCreateStep,
     StageCopyStep, StageCommitStep DEF Next, Work

-----------------------------------------------------------------------------
(***************************************************************************)
(* What follows from it.                                                   *)
(***************************************************************************)
LEMMA PoolInvReads == PoolInv => ReadsOwnStaging
BY DEF PoolInv, Phased, Staging, ReadsOwnStaging, Unstaged

(* A set with exactly one element, or none.                                *)
LEMMA PoolInvCounts ==
    ASSUME PoolInv, NEW c \in Conns
    PROVE  Cardinality(InQueue(c)) + Cardinality(Holders(c)) = IF c \in open THEN 1 ELSE 0
<1> USE DEF PoolInv
<1>1. c \in Queued <=> InQueue(c) # {}
  BY DEF Queued, InQueue
<1>2. Occupied(c) <=> Holders(c) # {}
  BY DEF Occupied, Holders
<1>3. \A i \in InQueue(c) : InQueue(c) = {i}
  BY DEF InQueue, Owned
<1>4. \A r \in Holders(c) : Holders(c) = {r}
  BY ConnsType DEF Holders, Owned
<1>5. ~(c \in Queued /\ Occupied(c))
  BY DEF Owned, Occupied
<1>6. Cardinality(InQueue(c)) = IF c \in Queued THEN 1 ELSE 0
  BY <1>1, <1>3, FS_Singleton, FS_EmptySet
<1>7. Cardinality(Holders(c)) = IF Occupied(c) THEN 1 ELSE 0
  BY <1>2, <1>4, FS_Singleton, FS_EmptySet
<1> QED
  BY <1>5, <1>6, <1>7 DEF Owned

LEMMA PoolInvLeaks == PoolInv => NothingLeaks
BY PoolInvCounts DEF NothingLeaks, PoolInv, Phased

(* Every variable of the pool and of the requests keeps its type.          *)
THEOREM PoolTypeCorrect == Spec => []TypeOK
BY PoolInvInit, PoolInvNext, PTL DEF Spec, PoolInv

(* hybrid_executor: the statement of a mixed report finds every            *)
(* operational table of its plan among the temporary tables of its own     *)
(* connection, copied whole by this very run, whatever other requests left *)
(* there or do meanwhile.                                                  *)
THEOREM ReportsReadOwnStaging == Spec => []ReadsOwnStaging
BY PoolInvInit, PoolInvNext, PoolInvReads, PTL DEF Spec

(* The context managers of hybrid_executor and get_session: whichever way  *)
(* a request fails, each connection of the pool is queued or held by one   *)
(* request under way, and none is both, or lost.                           *)
THEOREM NothingEverLeaks == Spec => []NothingLeaks
BY PoolInvInit, PoolInvNext, PoolInvLeaks, PTL DEF Spec

=============================================================================
