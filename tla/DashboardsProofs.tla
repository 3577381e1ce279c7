-------------------------- MODULE DashboardsProofs --------------------------
(***************************************************************************)
(* Proofs about the two parts of the dashboards, which share no variable.  *)
(* Dashboards, for any number of dashboards, applications, other clients,  *)
(* edits and requests.  And DashboardView, for any definition, any rows    *)
(* and dates, and however many rows come and go and days end between two   *)
(* queries: what a card or a panel says it was measured over is what it    *)
(* was measured over.                                                      *)
(***************************************************************************)
EXTENDS Dashboards, DashboardView, FiniteSetTheorems, TLAPS

Sources == {"new", "cache", "read", "late", "other"}
Drafts  == [app : Apps \cup {None}, edits : SUBSET Nat]
Defs    == [app : Apps, edits : SUBSET Nat]
RowType    == [life : {"unborn", "live", "archived"}, app : Apps \cup {None},
            def : Defs \cup {None}, default : BOOLEAN]
Bodies  == [def : Defs, default : BOOLEAN, src : Sources]
Reqs    == [op : {"create", "update", "delete"}, id : Ids, body : Bodies \cup {None},
            stage : {"begun", "cleared", "answered"}, base : RowType \cup {None}, clears : SUBSET Ids]
Tabs    == [page : {"list", "builder"}, url : Ids \cup {None}, copying : BOOLEAN,
            id : Ids \cup {None}, def : Drafts]
Fetches == [at : {"none", "sent", "read"}, def : Defs \cup {None}]
Copies  == [def : Defs, fresh : BOOLEAN]

ServerTypes ==
    /\ row \in [Ids -> RowType]
    /\ req \in [Clients -> Reqs \cup {None}]
    /\ \A c \in Clients : req[c] # None => req[c] \in Reqs
    /\ \A c \in Clients : Writing(c) => req[c].body \in Bodies /\ req[c].base \in RowType
    /\ restored \subseteq Nat

TabTypes ==
    /\ tab \in Tabs /\ src \in Sources \ {"other"}
    /\ cache \in [Ids -> Copies \cup {None}]
    /\ \A d \in Ids : cache[d] # None => cache[d] \in Copies
    /\ fetch \in [Ids -> Fetches]
    /\ \A d \in Ids : fetch[d].at = "read" => fetch[d].def \in Defs
    /\ edits \in Nat

(* Which dashboards there are: a row is written once its id is given, and  *)
(* until then nobody else knows of it.                                     *)
Rowed(d)   == IF Exists(d) THEN row[d].def \in Defs ELSE row[d].default = FALSE
Creating(c) == Writing(c) /\ req[c].op = "create"
Secret(c)  == Creating(c) =>
                 /\ ~Exists(req[c].id) /\ req[c].base = row[req[c].id]
                 /\ \A o \in Clients \ {c} : req[o] # None => req[o].id # req[c].id
Known(c)   == req[c] # None /\ ~Creating(c) => Exists(req[c].id)

ServerBorn == (\A d \in Ids : Rowed(d)) /\ (\A c \in Clients : Secret(c) /\ Known(c))
TabBorn ==
    /\ \A d \in Ids : fetch[d].at # "none" => Exists(d)
    /\ tab.id # None => Exists(tab.id)

TInv == ServerTypes /\ TabTypes /\ ServerBorn /\ TabBorn

LEMMA Constants == "tab" \in Clients /\ "tab" \notin Others /\ Others \subseteq Clients /\ None \notin Ids
BY DashboardsAssumption DEF Clients

(* A request that is sent: what it is about, and that nobody else is where *)
(* it makes something.                                                     *)
LEMMA SendType ==
    ASSUME TInv, NEW c \in Clients, NEW op \in {"create", "update", "delete"}, NEW id,
           op # "create" => id \in Ids /\ Exists(id),
           NEW body, op # "delete" => body \in Bodies, op = "delete" => body = None,
           Send(c, op, id, body), row' = row, restored' = restored
    PROVE  ServerTypes' /\ ServerBorn'
<1> USE DEF TInv, ServerTypes
<1>1. PICK d \in IF op = "create" THEN Unused ELSE {id} :
          req' = [req EXCEPT ![c] = [op |-> op, id |-> d, body |-> body, stage |-> "begun",
                                     base |-> row[d], clears |-> {}]]
  BY DEF Send
<1>2. PICK new : new = [op |-> op, id |-> d, body |-> body, stage |-> "begun",
                        base |-> row[d], clears |-> {}]
  OBVIOUS
<1>3. d \in Ids /\ row[d] \in RowType
  BY <1>1 DEF Unused
<1>4. new \in Reqs /\ req'[c] = new /\ \A o \in Clients \ {c} : req'[o] = req[o]
  BY <1>1, <1>2, <1>3 DEF Reqs
<1>5. /\ new.op = op /\ new.id = d /\ new.body = body /\ new.stage = "begun" /\ new.base = row[d]
  BY <1>2
<1>6. \A o \in Clients \ {c} : Writing(o)' <=> Writing(o)
  BY <1>4 DEF Writing
<1>7. \A e \in Ids : Exists(e)' <=> Exists(e)
  BY DEF Exists
<1>8. ServerTypes'
  <2>1. req' \in [Clients -> Reqs \cup {None}]
    BY <1>1, <1>2, <1>4
  <2>2. Writing(c)' => req'[c].body \in Bodies /\ req'[c].base \in RowType
    BY <1>3, <1>4, <1>5 DEF Writing
  <2> QED
    BY <1>4, <1>6, <2>1, <2>2
<1>9. op = "create" => ~Exists(d) /\ \A o \in Clients : req[o] # None => req[o].id # d
  BY <1>1 DEF Unused
<1>10. op # "create" => Exists(d)
  BY <1>1
<1>11. \A e \in Ids : Rowed(e)'
  BY <1>7 DEF ServerBorn, Rowed
<1>12. ASSUME NEW o \in Clients PROVE Secret(o)'
  <2>1. CASE o = c
    BY <1>3, <1>4, <1>5, <1>7, <1>9, <2>1 DEF ServerBorn, Rowed, Secret, Creating, Writing
  <2>2. CASE o # c /\ Creating(o)
    <3>1. req'[o] = req[o] /\ req[o] # None /\ req[o].id \in Ids
      BY <1>4, <2>2 DEF Creating, Writing, Reqs
    <3>2. d # req[o].id
      BY <1>9, <1>10, <2>2, <3>1 DEF ServerBorn, Secret
    <3> QED
      BY <1>4, <1>5, <1>7, <2>2, <3>1, <3>2 DEF ServerBorn, Secret
  <2>3. CASE o # c /\ ~Creating(o)
    BY <1>4, <1>6, <2>3 DEF Secret, Creating
  <2> QED
    BY <2>1, <2>2, <2>3
<1>13. ASSUME NEW o \in Clients PROVE Known(o)'
  <2>1. CASE o = c
    BY <1>3, <1>4, <1>5, <1>7, <1>10, <2>1 DEF Known, Creating, Writing
  <2>2. CASE o # c /\ req[o] # None
    <3>1. req'[o] = req[o] /\ req[o].id \in Ids /\ (Creating(o)' <=> Creating(o))
      BY <1>4, <1>6, <2>2 DEF Reqs, Creating
    <3> QED
      BY <1>7, <2>2, <3>1 DEF ServerBorn, Known
  <2>3. CASE o # c /\ req[o] = None
    BY <1>4, <2>3 DEF Known
  <2> QED
    BY <2>1, <2>2, <2>3
<1> QED
  BY <1>8, <1>11, <1>12, <1>13 DEF ServerBorn

LEMMA ServerQuiet ==
    ASSUME TInv, row' = row, req' = req, restored' = restored
    PROVE  ServerTypes' /\ ServerBorn'
BY DEF TInv, ServerTypes, ServerBorn, Rowed, Secret, Known, Creating, Writing, Exists

LEMMA ClearType ==
    ASSUME TInv, NEW c \in Clients, ClearDefault(c)
    PROVE  ServerTypes' /\ ServerBorn'
<1> USE DEF TInv, ServerTypes
<1>1. PICK found \in SUBSET Ids : /\ req' = [req EXCEPT ![c].stage = "cleared", ![c].clears = found]
                                  /\ row' = row /\ restored' = restored /\ Writing(c)
  BY DEF ClearDefault, Defaults
<1>2. req[c] \in Reqs /\ req[c] # None /\ req[c].op # "delete"
  BY <1>1 DEF Writing
<1>3. PICK new : new = [req[c] EXCEPT !.stage = "cleared", !.clears = found]
  OBVIOUS
<1>4. /\ new \in Reqs /\ new.op = req[c].op /\ new.id = req[c].id /\ new.body = req[c].body
      /\ new.base = req[c].base /\ new.stage = "cleared"
  BY <1>1, <1>2, <1>3 DEF Reqs
<1>5. req' = [req EXCEPT ![c] = new] /\ req'[c] = new /\ \A o \in Clients \ {c} : req'[o] = req[o]
  BY <1>1, <1>3
<1>6. \A o \in Clients : /\ Writing(o)' => Writing(o)
                         /\ o # c => (Writing(o) <=> Writing(o)')
                         /\ req'[o] # None => req[o] # None
                         /\ req[o] # None => req'[o].op = req[o].op /\ req'[o].id = req[o].id
                         /\ Writing(o) => req'[o].body = req[o].body /\ req'[o].base = req[o].base
  BY <1>1, <1>2, <1>4, <1>5 DEF Writing
<1>7. req'[c] # None => Writing(c)'
  BY <1>2, <1>4, <1>5 DEF Writing
<1>8. ServerTypes'
  <2>1. req' \in [Clients -> Reqs \cup {None}]
    BY <1>4, <1>5
  <2>2. \A o \in Clients : req'[o] # None => req'[o] \in Reqs
    BY <1>4, <1>5
  <2> QED
    BY <1>1, <1>6, <2>1, <2>2
<1>9. \A d \in Ids : Rowed(d)' /\ (Exists(d)' <=> Exists(d))
  BY <1>1 DEF ServerBorn, Rowed, Exists
<1>10. \A o \in Clients : Creating(o)' => Creating(o)
  BY <1>6 DEF Creating, Writing
<1>11. ASSUME NEW o \in Clients PROVE Secret(o)'
  <2> SUFFICES ASSUME Creating(o)' PROVE Secret(o)'
    BY DEF Secret
  <2>1. Creating(o) /\ req[o] # None /\ req'[o].id = req[o].id /\ req[o].id \in Ids
        /\ req'[o].base = req[o].base
    BY <1>6, <1>10 DEF Creating, Writing, Reqs
  <2> QED
    BY <1>1, <1>6, <1>9, <2>1 DEF ServerBorn, Secret
<1>12. ASSUME NEW o \in Clients PROVE Known(o)'
  <2> SUFFICES ASSUME req'[o] # None, ~Creating(o)' PROVE Known(o)'
    BY DEF Known
  <2>1. req[o] # None /\ ~Creating(o) /\ req'[o].id = req[o].id /\ req[o].id \in Ids
    BY <1>6, <1>7 DEF Creating, Reqs
  <2> QED
    BY <1>9, <2>1 DEF ServerBorn, Known
<1> QED
  BY <1>8, <1>9, <1>11, <1>12 DEF ServerBorn

(* What a commit leaves: the row of its dashboard, and the flags of the    *)
(* others, which it only takes away.                                       *)
LEMMA CommitRow ==
    ASSUME TInv, NEW c \in Clients, Commit(c)
    PROVE  /\ Writing(c) /\ req[c] \in Reqs /\ req[c].body \in Bodies /\ req[c].base \in RowType
           /\ req[c].id \in Ids /\ Written(c) \in RowType
           /\ Written(c).life # "unborn" /\ Written(c).def \in Defs
           /\ row'[req[c].id] = Written(c)
           /\ row' \in [Ids -> RowType]
           /\ \A d \in Ids \ {req[c].id} :
                 /\ row'[d].life = row[d].life /\ row'[d].app = row[d].app /\ row'[d].def = row[d].def
                 /\ row'[d].default = (row[d].default /\ d \notin req[c].clears)
           /\ \A d \in Ids \ {req[c].id} : row[d].default = FALSE => row'[d] = row[d]
           /\ \A o \in Clients \ {c} : req'[o] = req[o]
<1> USE DEF TInv, ServerTypes
<1>1. Writing(c) /\ req[c] \in Reqs /\ req[c].body \in Bodies /\ req[c].base \in RowType /\ req[c].id \in Ids
  BY DEF Commit, Writing, Reqs
<1>2. row[req[c].id] \in RowType /\ req[c].body.def \in Defs
  BY <1>1 DEF Bodies
<1>3. Written(c).life # "unborn" /\ Written(c).life \in {"live", "archived"}
  <2>1. req[c].op # "create" => Exists(req[c].id)
    BY <1>1 DEF ServerBorn, Known, Creating, Writing
  <2> QED
    BY <1>2, <2>1 DEF Written, Exists, RowType
<1>4. Written(c).def \in Defs
  <2>1. CASE req[c].op = "create"
    BY <1>1, <1>2, <2>1 DEF ServerBorn, Secret, Creating, Written, Net
  <2>2. CASE req[c].op # "create"
    BY <1>1, <1>2, <2>2 DEF ServerBorn, Known, Creating, Rowed, Written, Net, Writing
  <2> QED
    BY <2>1, <2>2
<1>5. Written(c).app \in Apps \cup {None} /\ Written(c).default \in BOOLEAN
  BY <1>1, <1>2 DEF Written, Net, RowType, Bodies, Defs
<1>6. Written(c) \in RowType
  BY <1>3, <1>4, <1>5 DEF Written, RowType
<1>7. row' = [d \in Ids |-> IF d = req[c].id THEN Written(c)
                             ELSE [row[d] EXCEPT !.default = @ /\ d \notin req[c].clears]]
  BY DEF Commit
<1> HIDE DEF TInv, ServerTypes
<1>8. \A d \in Ids : row[d] \in RowType
  BY DEF TInv, ServerTypes
<1>9. row' \in [Ids -> RowType] /\ row'[req[c].id] = Written(c)
  <2>1. \A d \in Ids : [row[d] EXCEPT !.default = @ /\ d \notin req[c].clears] \in RowType
    BY <1>8 DEF RowType
  <2> QED
    BY <1>1, <1>6, <1>7, <2>1
<1>10. ASSUME NEW d \in Ids \ {req[c].id}
       PROVE  /\ row'[d].life = row[d].life /\ row'[d].app = row[d].app /\ row'[d].def = row[d].def
              /\ row'[d].default = (row[d].default /\ d \notin req[c].clears)
              /\ row[d].default = FALSE => row'[d] = row[d]
  <2>1. row'[d] = [row[d] EXCEPT !.default = @ /\ d \notin req[c].clears]
    BY <1>7
  <2> QED
    BY <1>8, <2>1 DEF RowType
<1>11. \A o \in Clients \ {c} : req'[o] = req[o]
  BY DEF Commit, TInv, ServerTypes
<1> QED
  BY <1>1, <1>3, <1>4, <1>6, <1>9, <1>10, <1>11

(* A request that is answered, or gone, and no longer writes.              *)
LEMMA AnsweredIs ==
    ASSUME NEW q \in Reqs
    PROVE  /\ Answered(q) \in Reqs /\ Answered(q).id = q.id /\ Answered(q).op = q.op
           /\ Answered(q).stage = "answered"
BY DEF Answered, Reqs

LEMMA CommitType ==
    ASSUME TInv, NEW c \in Clients, Commit(c)
    PROVE  ServerTypes' /\ ServerBorn'
<1>1. /\ Writing(c) /\ req[c] \in Reqs /\ req[c].id \in Ids
      /\ Written(c) \in RowType /\ Written(c).life # "unborn" /\ Written(c).def \in Defs
      /\ row'[req[c].id] = Written(c) /\ row' \in [Ids -> RowType]
      /\ \A d \in Ids \ {req[c].id} : row'[d].life = row[d].life /\ row'[d].def = row[d].def
      /\ \A d \in Ids \ {req[c].id} : row[d].default = FALSE => row'[d] = row[d]
      /\ \A o \in Clients \ {c} : req'[o] = req[o]
  BY CommitRow
<1>2. /\ req'[c] \in {Answered(req[c]), None} /\ req' \in [Clients -> Reqs \cup {None}]
      /\ req'[c] # None => req'[c] = Answered(req[c])
  BY <1>1, AnsweredIs DEF Commit, TInv, ServerTypes
<1>3. ~Writing(c)' /\ (req'[c] # None => req'[c] \in Reqs /\ req'[c].id = req[c].id)
  BY <1>1, <1>2, AnsweredIs DEF Writing
<1>4. \A o \in Clients \ {c} : (Writing(o)' <=> Writing(o)) /\ (Creating(o)' <=> Creating(o))
  BY <1>1 DEF Writing, Creating
<1>5. restored' \subseteq Nat
  BY <1>1 DEF Commit, PutBack, TInv, ServerTypes, Defs
<1>6. ServerTypes'
  BY <1>1, <1>2, <1>3, <1>4, <1>5 DEF TInv, ServerTypes
<1>7. \A d \in Ids : Exists(d)' <=> (Exists(d) \/ d = req[c].id)
  BY <1>1 DEF Exists
<1>8. ASSUME NEW d \in Ids PROVE Rowed(d)'
  <2>1. CASE d = req[c].id
    BY <1>1, <1>7, <2>1 DEF Rowed
  <2>2. CASE d # req[c].id
    BY <1>1, <1>7, <2>2 DEF Rowed, TInv, ServerBorn
  <2> QED
    BY <2>1, <2>2
<1>9. ASSUME NEW o \in Clients PROVE Secret(o)'
  <2> SUFFICES ASSUME Creating(o)' PROVE Secret(o)'
    BY DEF Secret
  <2>1. o # c /\ Creating(o) /\ req'[o] = req[o] /\ req[o].id \in Ids /\ req[o] # None /\ req[c] # None
    BY <1>1, <1>3, <1>4 DEF Creating, Writing, TInv, ServerTypes, Reqs
  <2>2. ~Exists(req[o].id) /\ req[o].base = row[req[o].id] /\ req[c].id # req[o].id
        /\ \A p \in Clients \ {o} : req[p] # None => req[p].id # req[o].id
    BY <2>1 DEF TInv, ServerBorn, Secret
  <2>3. row[req[o].id].default = FALSE
    BY <2>1, <2>2 DEF TInv, ServerBorn, Rowed
  <2>4. row'[req[o].id] = row[req[o].id]
    BY <1>1, <2>1, <2>2, <2>3
  <2>5. \A p \in Clients \ {o} : req'[p] # None => req'[p].id # req[o].id
    BY <1>1, <1>3, <2>2
  <2> QED
    BY <1>7, <2>1, <2>2, <2>4, <2>5 DEF Secret
<1>10. ASSUME NEW o \in Clients PROVE Known(o)'
  <2> SUFFICES ASSUME req'[o] # None, ~Creating(o)' PROVE Known(o)'
    BY DEF Known
  <2>1. CASE o = c
    BY <1>1, <1>3, <1>7, <2>1 DEF Known
  <2>2. CASE o # c
    <3>1. req'[o] = req[o] /\ req[o] # None /\ ~Creating(o) /\ req[o].id \in Ids
      BY <1>1, <1>4, <2>2 DEF TInv, ServerTypes, Reqs
    <3> QED
      BY <1>7, <3>1 DEF TInv, ServerBorn, Known
  <2> QED
    BY <2>1, <2>2
<1> QED
  BY <1>6, <1>8, <1>9, <1>10 DEF ServerBorn

LEMMA ArchiveType ==
    ASSUME TInv, NEW c \in Clients, Archive(c)
    PROVE  ServerTypes' /\ ServerBorn'
<1>1. /\ req[c] # None /\ req[c] \in Reqs /\ req[c].op = "delete" /\ req[c].id \in Ids
      /\ ~Writing(c) /\ ~Creating(c)
      /\ row' = [row EXCEPT ![req[c].id].life = "archived"]
      /\ req' = [req EXCEPT ![c] = Answered(req[c])] /\ restored' = restored
  BY DEF Archive, TInv, ServerTypes, Reqs, Writing, Creating
<1>2. /\ row \in [Ids -> RowType] /\ row' \in [Ids -> RowType]
      /\ \A d \in Ids : row'[d].def = row[d].def /\ row'[d].default = row[d].default
      /\ \A d \in Ids \ {req[c].id} : row'[d] = row[d]
      /\ row'[req[c].id].life = "archived"
  BY <1>1 DEF TInv, ServerTypes, RowType
<1>3. Exists(req[c].id)
  BY <1>1 DEF TInv, ServerBorn, Known
<1>4. \A d \in Ids : Exists(d)' <=> Exists(d)
  BY <1>1, <1>2, <1>3 DEF Exists
<1>5. /\ req'[c] = Answered(req[c]) /\ \A o \in Clients \ {c} : req'[o] = req[o]
      /\ req' \in [Clients -> Reqs \cup {None}] /\ ~Writing(c)'
  BY <1>1, AnsweredIs DEF TInv, ServerTypes, Writing
<1>6. \A o \in Clients \ {c} : (Writing(o)' <=> Writing(o)) /\ (Creating(o)' <=> Creating(o))
  BY <1>5 DEF Writing, Creating
<1>7. ServerTypes'
  BY <1>1, <1>2, <1>5, <1>6, AnsweredIs DEF TInv, ServerTypes
<1>8. \A d \in Ids : Rowed(d)'
  BY <1>2, <1>4 DEF Rowed, TInv, ServerBorn
<1>9. ASSUME NEW o \in Clients PROVE Secret(o)'
  <2> SUFFICES ASSUME Creating(o)' PROVE Secret(o)'
    BY DEF Secret
  <2>1. o # c /\ Creating(o) /\ req'[o] = req[o] /\ req[o].id \in Ids
    BY <1>5, <1>6 DEF Creating, Writing, TInv, ServerTypes, Reqs
  <2>2. ~Exists(req[o].id) /\ req[o].base = row[req[o].id] /\ req[c].id # req[o].id
        /\ \A p \in Clients \ {o} : req[p] # None => req[p].id # req[o].id
    BY <1>1, <2>1 DEF TInv, ServerBorn, Secret
  <2>3. \A p \in Clients \ {o} : req'[p] # None => req'[p].id # req[o].id
    BY <1>1, <1>5, <2>2, AnsweredIs
  <2> QED
    BY <1>2, <1>4, <2>1, <2>2, <2>3 DEF Secret
<1>10. ASSUME NEW o \in Clients PROVE Known(o)'
  <2>1. CASE o = c
    BY <1>1, <1>3, <1>4, <1>5, <2>1, AnsweredIs DEF Known
  <2>2. CASE o # c /\ req[o] # None
    BY <1>4, <1>5, <1>6, <2>2 DEF TInv, ServerBorn, ServerTypes, Known, Reqs
  <2>3. CASE o # c /\ req[o] = None
    BY <1>5, <2>3 DEF Known
  <2> QED
    BY <2>1, <2>2, <2>3
<1> QED
  BY <1>7, <1>8, <1>9, <1>10 DEF ServerBorn

LEMMA ForgetType ==
    ASSUME TInv, row' = row, restored' = restored, req' = [req EXCEPT !["tab"] = None]
    PROVE  ServerTypes' /\ ServerBorn'
<1>1. req'["tab"] = None /\ \A o \in Clients \ {"tab"} : req'[o] = req[o]
  BY Constants DEF TInv, ServerTypes
<1>2. /\ \A o \in Clients : Writing(o)' => Writing(o) /\ req'[o] = req[o]
      /\ \A o \in Clients : Creating(o)' => Creating(o) /\ req'[o] = req[o]
      /\ \A o \in Clients : req'[o] # None => req'[o] = req[o] /\ o # "tab"
  BY <1>1 DEF Writing, Creating
<1>3. ServerTypes'
  BY <1>2 DEF TInv, ServerTypes
<1>4. \A d \in Ids : (Exists(d)' <=> Exists(d)) /\ Rowed(d)'
  BY DEF TInv, ServerBorn, Rowed, Exists
<1>5. ASSUME NEW o \in Clients PROVE Secret(o)'
  <2> SUFFICES ASSUME Creating(o)' PROVE Secret(o)'
    BY DEF Secret
  <2>1. Creating(o) /\ req'[o] = req[o] /\ req[o].id \in Ids
    BY <1>2 DEF Creating, Writing, TInv, ServerTypes, Reqs
  <2> QED
    BY <1>2, <1>4, <2>1 DEF Secret, TInv, ServerBorn
<1>6. ASSUME NEW o \in Clients PROVE Known(o)'
  <2> SUFFICES ASSUME req'[o] # None, ~Creating(o)' PROVE Known(o)'
    BY DEF Known
  <2>1. req'[o] = req[o] /\ o # "tab" /\ req[o].id \in Ids /\ ~Creating(o)
    BY <1>2 DEF TInv, ServerTypes, Reqs, Creating, Writing
  <2> QED
    BY <1>4, <2>1 DEF Known, TInv, ServerBorn
<1> QED
  BY <1>3, <1>4, <1>5, <1>6 DEF ServerBorn

-----------------------------------------------------------------------------
(* The tab, its cache and its reads.                                       *)
LEMMA TabQuiet ==
    ASSUME TInv, UNCHANGED <<tab, cache, fetch, edits, src>>,
           \A d \in Ids : Exists(d) => Exists(d)'
    PROVE  TabTypes' /\ TabBorn'
BY DEF TInv, TabTypes, TabBorn, Tabs

LEMMA MountType ==
    ASSUME TInv, NEW t \in Tabs, t.id # None => Exists(t.id), NEW d \in Ids, Exists(d), Mount(t, d),
           row' = row, cache' = cache, edits' = edits
    PROVE  TabTypes' /\ TabBorn'
<1> USE DEF TInv, TabTypes
<1>1. \A e \in Ids : Exists(e)' <=> Exists(e)
  BY DEF Exists
<1>2. tab' \in Tabs /\ src' \in Sources \ {"other"} /\ (tab'.id = d \/ tab'.id = t.id)
  BY DEF Mount, Loaded, Copies, Defs, Drafts, Tabs, Sources
<1>3. tab'.id # None => Exists(tab'.id)
  BY <1>2
<1>4. /\ fetch' \in [Ids -> Fetches]
      /\ \A e \in Ids : /\ fetch'[e].at = "read" => fetch'[e] = fetch[e]
                        /\ fetch'[e].at # "none" => e = d \/ fetch'[e] = fetch[e]
  <2>1. CASE fetch' = fetch
    BY <2>1
  <2>2. CASE fetch' = [fetch EXCEPT ![d].at = "sent"]
    BY <2>2 DEF Fetches
  <2> QED
    BY <2>1, <2>2 DEF Mount
<1>5. TabTypes'
  BY <1>2, <1>4
<1>6. tab'.id # None => tab'.id \in Ids
  BY <1>2 DEF Tabs
<1> QED
  BY <1>1, <1>3, <1>4, <1>5, <1>6 DEF TabBorn, Exists

LEMMA ReloadType ==
    ASSUME TInv, NEW d \in Ids, NEW copying \in BOOLEAN, Reload(d, copying)
    PROVE  TabTypes' /\ TabBorn'
<1>1. tab' \in Tabs /\ tab'.id = None
  BY DEF Reload, EmptyTab, Tabs, Drafts
<1>2. cache' = [i \in Ids |-> None] /\ src' = "new" /\ edits' = edits /\ row' = row
  BY DEF Reload
<1>3. fetch' = [i \in Ids |-> IF i = d THEN [at |-> "sent", def |-> None] ELSE [at |-> "none", def |-> None]]
  BY DEF Reload, NoFetch
<1>4. Exists(d)
  BY Constants DEF Reload, TInv, TabBorn, Exists
<1>5. fetch' \in [Ids -> Fetches]
  BY <1>3 DEF Fetches
<1>6. \A e \in Ids : fetch'[e].at # "read" /\ (fetch'[e].at # "none" => e = d)
  BY <1>3
<1>7. \A e \in Ids : cache'[e] = None
  BY <1>2
<1>8. cache' \in [Ids -> Copies \cup {None}]
  BY <1>2
<1>9. TabTypes'
  <2>1. edits' \in Nat /\ src' \in Sources \ {"other"}
    BY <1>2 DEF TInv, TabTypes, Sources
  <2> QED
    BY <1>1, <1>5, <1>6, <1>7, <1>8, <2>1 DEF TabTypes
<1>10. \A e \in Ids : Exists(e)' <=> Exists(e)
  BY <1>2 DEF Exists
<1>11. \A e \in Ids : (fetch[e].at # "none")' => Exists(e)'
  BY <1>4, <1>6, <1>10
<1> QED
  BY <1>1, <1>9, <1>11 DEF TabBorn

LEMMA ReceiveType ==
    ASSUME TInv, NEW d \in Ids, Receive(d)
    PROVE  TabTypes' /\ TabBorn'
<1> USE DEF TInv, TabTypes
<1>1. fetch[d].at = "read" /\ fetch[d].def \in Defs /\ Exists(d) /\ row' = row /\ edits' = edits
  BY DEF Receive, TabBorn
<1>2. \A e \in Ids : Exists(e)' <=> Exists(e)
  BY <1>1 DEF Exists
<1>3. /\ fetch' \in [Ids -> Fetches] /\ fetch'[d].at = "none"
      /\ \A e \in Ids \ {d} : fetch'[e] = fetch[e]
  BY DEF Receive, NoFetch, Fetches
<1>4. /\ cache' \in [Ids -> Copies \cup {None}]
      /\ \A e \in Ids : cache'[e] # None => cache'[e] \in Copies
  BY <1>1 DEF Receive, Copies
<1>5. tab' \in Tabs /\ src' \in Sources \ {"other"} /\ tab'.id \in {tab.id, d, None}
  BY <1>1 DEF Receive, Loaded, Tabs, Defs, Drafts, Sources
<1>6. TabTypes'
  BY <1>1, <1>3, <1>4, <1>5
<1>7. tab'.id # None => tab'.id \in Ids /\ Exists(tab'.id)
  BY <1>1, <1>5 DEF TabBorn, Tabs
<1> QED
  BY <1>1, <1>2, <1>3, <1>6, <1>7 DEF TabBorn, Exists

(* The steps of the tab that only move it, or change what is in the store. *)
LEMMA StoreType ==
    ASSUME TInv, New \/ Edit \/ Leave \/ SaveAs \/ \E app \in Apps : SetApp(app)
    PROVE  TabTypes' /\ TabBorn'
<1> USE DEF TInv, TabTypes
<1>1. /\ row' = row /\ cache' = cache /\ fetch' = fetch
      /\ src' \in Sources \ {"other"} /\ edits' \in Nat
  <2>1. CASE New
    BY <2>1 DEF New, Sources
  <2>2. CASE Edit
    BY <2>2 DEF Edit
  <2>3. CASE Leave \/ SaveAs
    BY <2>3 DEF Leave, SaveAs
  <2>4. CASE \E app \in Apps : SetApp(app)
    BY <2>4 DEF SetApp
  <2> QED
    BY <2>1, <2>2, <2>3, <2>4
<1>2. tab' \in Tabs /\ tab'.id \in {tab.id, None}
  <2>1. CASE New
    BY <2>1 DEF New, EmptyTab, Tabs, Drafts
  <2>2. CASE Edit
    BY <2>2 DEF Edit, Tabs, Drafts
  <2>3. CASE Leave
    BY <2>3 DEF Leave, Tabs
  <2>4. CASE SaveAs
    BY <2>4 DEF SaveAs, Loaded, Tabs
  <2>5. CASE \E app \in Apps : SetApp(app)
    BY <2>5 DEF SetApp, Tabs, Drafts
  <2> QED
    BY <2>1, <2>2, <2>3, <2>4, <2>5
<1> QED
  BY <1>1, <1>2 DEF TabBorn, Exists

LEMMA AgeType ==
    ASSUME TInv, NEW d \in Ids, Age(d)
    PROVE  TabTypes' /\ TabBorn'
<1>1. cache[d] \in Copies /\ UNCHANGED <<row, tab, fetch, edits, src>>
  BY DEF Age, TInv, TabTypes
<1>2. /\ cache' \in [Ids -> Copies \cup {None}]
      /\ \A e \in Ids : cache'[e] # None => cache'[e] \in Copies
  BY <1>1 DEF Age, TInv, TabTypes, Copies
<1> QED
  BY <1>1, <1>2 DEF TInv, TabTypes, TabBorn, Exists

LEMMA ReadType ==
    ASSUME TInv, NEW d \in Ids, Read(d)
    PROVE  TabTypes' /\ TabBorn'
<1>1. Exists(d) /\ UNCHANGED <<row, tab, cache, edits, src>>
      /\ fetch' = [fetch EXCEPT ![d] = [at |-> "read", def |-> row[d].def]]
  BY DEF Read, TInv, TabBorn
<1>2. row[d].def \in Defs
  BY <1>1 DEF TInv, ServerBorn, Rowed
<1>3. /\ fetch' \in [Ids -> Fetches] /\ fetch'[d].def \in Defs
      /\ \A e \in Ids \ {d} : fetch'[e] = fetch[e]
  BY <1>1, <1>2 DEF TInv, TabTypes, Fetches
<1> QED
  BY <1>1, <1>3 DEF TInv, TabTypes, TabBorn, Exists

(* What the tab and the others send.                                       *)
LEMMA BodyType ==
    ASSUME TInv, CanSave
    PROVE  Body \in Bodies /\ Body.default = FALSE /\ Body.src = src /\ Body.def = tab.def
<1>1. tab.def \in Drafts /\ src \in Sources
  BY DEF TInv, TabTypes, Tabs
<1>2. tab.def \in Defs
  BY <1>1 DEF CanSave, Drafts, Defs
<1> QED
  BY <1>1, <1>2 DEF Body, Bodies

LEMMA SaveType ==
    ASSUME TInv, Save
    PROVE  ServerTypes' /\ ServerBorn' /\ TabTypes' /\ TabBorn'
<1>1. row' = row /\ restored' = restored /\ Body \in Bodies /\ UNCHANGED <<tab, cache, fetch, edits, src>>
  BY BodyType DEF Save
<1>2. tab.id # None => tab.id \in Ids /\ Exists(tab.id)
  BY DEF TInv, TabTypes, TabBorn, Tabs
<1>3. PICK op \in {"create", "update"} : Send("tab", op, tab.id, Body) /\ (op # "create" => tab.id # None)
  BY DEF Save
<1>4. ServerTypes' /\ ServerBorn'
  BY <1>1, <1>2, <1>3, SendType, Constants
<1>5. \A d \in Ids : Exists(d) => Exists(d)'
  BY <1>1 DEF Exists
<1> QED
  BY <1>1, <1>4, <1>5, TabQuiet

LEMMA SaveAsType ==
    ASSUME TInv, SaveAs
    PROVE  ServerTypes' /\ ServerBorn'
<1>1. row' = row /\ restored' = restored /\ Body \in Bodies /\ Send("tab", "create", None, Body)
  BY BodyType DEF SaveAs
<1> QED
  BY <1>1, SendType, Constants

LEMMA DeleteType ==
    ASSUME TInv, NEW d \in Ids, Delete(d)
    PROVE  ServerTypes' /\ ServerBorn' /\ TabTypes' /\ TabBorn'
<1>1. /\ row' = row /\ restored' = restored /\ Send("tab", "delete", d, None) /\ Exists(d)
      /\ UNCHANGED <<tab, cache, fetch, edits, src>>
  BY DEF Delete, Exists
<1>2. \A e \in Ids : Exists(e) => Exists(e)'
  BY <1>1 DEF Exists
<1> QED
  BY <1>1, <1>2, SendType, TabQuiet, Constants

LEMMA OtherType ==
    ASSUME TInv, Other
    PROVE  ServerTypes' /\ ServerBorn' /\ TabTypes' /\ TabBorn'
<1>1. PICK o \in Others :
         \/ \E d \in Ids, app \in Apps, default \in BOOLEAN : OtherUpdates(o, d, app, default)
         \/ \E app \in Apps : OtherCreates(o, app)
  BY DEF Other
<1>2. UNCHANGED <<row, tab, cache, fetch, edits, src, restored>>
  BY <1>1 DEF OtherUpdates, OtherCreates
<1>3. o \in Clients
  BY Constants
<1>4. ServerTypes' /\ ServerBorn'
  <2>1. CASE \E d \in Ids, app \in Apps, default \in BOOLEAN : OtherUpdates(o, d, app, default)
    <3>1. PICK d \in Ids, app \in Apps, default \in BOOLEAN : OtherUpdates(o, d, app, default)
      BY <2>1
    <3>2. PICK body : body = [def |-> [row[d].def EXCEPT !.app = app], default |-> default, src |-> "other"]
      OBVIOUS
    <3>3. Exists(d) /\ row[d].def \in Defs
      BY <3>1 DEF OtherUpdates, TInv, ServerBorn, Rowed
    <3>4. body \in Bodies
      BY <3>2, <3>3 DEF Bodies, Defs, Sources
    <3> QED
      BY <1>2, <1>3, <3>1, <3>2, <3>3, <3>4, SendType DEF OtherUpdates
  <2>2. CASE \E app \in Apps : OtherCreates(o, app)
    <3>1. PICK app \in Apps : OtherCreates(o, app)
      BY <2>2
    <3>2. PICK body : body = [def |-> [app |-> app, edits |-> {}], default |-> TRUE, src |-> "other"]
      OBVIOUS
    <3>3. body \in Bodies
      BY <3>2 DEF Bodies, Defs, Sources
    <3> QED
      BY <1>2, <1>3, <3>1, <3>2, <3>3, SendType DEF OtherCreates
  <2> QED
    BY <1>1, <2>1, <2>2
<1>5. \A e \in Ids : Exists(e) => Exists(e)'
  BY <1>2 DEF Exists
<1> QED
  BY <1>2, <1>4, <1>5, TabQuiet

LEMMA AnsweredType ==
    ASSUME TInv, SaveAnswered
    PROVE  ServerTypes' /\ ServerBorn' /\ TabTypes' /\ TabBorn'
<1>1. /\ row' = row /\ restored' = restored /\ req' = [req EXCEPT !["tab"] = None]
      /\ cache' = cache /\ edits' = edits
      /\ req["tab"] # None /\ req["tab"].stage = "answered"
  BY DEF SaveAnswered
<1>2. req["tab"].id \in Ids /\ Exists(req["tab"].id)
  BY <1>1, Constants DEF TInv, ServerTypes, ServerBorn, Known, Creating, Writing, Reqs
<1>3. \A e \in Ids : Exists(e) => Exists(e)'
  BY <1>1 DEF Exists
<1>4. CASE tab.id = None /\ Mount([tab EXCEPT !.url = req["tab"].id, !.copying = FALSE], req["tab"].id)
  <2>1. PICK t : t = [tab EXCEPT !.url = req["tab"].id, !.copying = FALSE]
    OBVIOUS
  <2>2. t \in Tabs /\ t.id = None
    BY <1>2, <1>4, <2>1 DEF TInv, TabTypes, Tabs
  <2> QED
    BY <1>1, <1>2, <1>4, <2>1, <2>2, MountType, ForgetType
<1>5. CASE UNCHANGED <<tab, fetch, src>>
  BY <1>1, <1>3, <1>5, TabQuiet, ForgetType
<1> QED
  BY <1>4, <1>5 DEF SaveAnswered

LEMMA OpenType ==
    ASSUME TInv, NEW d \in Ids, Open(d)
    PROVE  TabTypes' /\ TabBorn'
<1>1. PICK t : t = [tab EXCEPT !.page = "builder", !.url = d, !.copying = FALSE]
  OBVIOUS
<1>2. t \in Tabs /\ t.id = tab.id /\ (tab.id # None => Exists(tab.id))
  BY <1>1 DEF TInv, TabTypes, TabBorn, Tabs
<1>3. Mount(t, d) /\ row' = row /\ cache' = cache /\ edits' = edits /\ Exists(d)
  BY <1>1 DEF Open
<1> QED
  BY <1>2, <1>3, MountType

LEMMA InitTInv == Init => TInv
<1> SUFFICES ASSUME Init PROVE TInv
  OBVIOUS
<1>1. PICK old \in SUBSET Ids, app \in [Ids -> Apps], default \in [Ids -> BOOLEAN] :
          row = [d \in Ids |->
                   IF d \notin old THEN Unborn
                   ELSE [life |-> "live", app |-> app[d], default |-> default[d],
                         def |-> [app |-> app[d], edits |-> {}]]]
  BY DEF Init
<1>2. \A d \in Ids : Rowed(d) /\ row[d] \in RowType
  BY <1>1 DEF Rowed, Exists, RowType, Defs, Unborn
<1>3. ServerTypes
  BY <1>1, <1>2 DEF Init, ServerTypes, Writing
<1>4. ServerBorn
  BY <1>2 DEF Init, ServerBorn, Secret, Known, Creating, Writing
<1>5. tab \in Tabs /\ tab.id = None /\ src \in Sources \ {"other"} /\ edits \in Nat
  BY DEF Init, EmptyTab, Tabs, Drafts, Sources
<1>6. fetch = [d \in Ids |-> [at |-> "none", def |-> None]] /\ cache = [d \in Ids |-> None]
  BY DEF Init, NoFetch
<1>7. fetch \in [Ids -> Fetches] /\ \A d \in Ids : fetch[d].at = "none"
  BY <1>6 DEF Fetches
<1>8. TabTypes
  BY <1>5, <1>6, <1>7 DEF TabTypes
<1>9. TabBorn
  BY <1>5, <1>7 DEF TabBorn
<1> QED
  BY <1>3, <1>4, <1>8, <1>9 DEF TInv

LEMMA NextTInv == TInv /\ [Next]_vars => TInv'
<1> SUFFICES ASSUME TInv, [Next]_vars PROVE TInv'
  OBVIOUS
<1>1. ASSUME row' = row, req' = req, restored' = restored, TabTypes' /\ TabBorn' PROVE TInv'
  BY <1>1, ServerQuiet DEF TInv
<1>2. ASSUME ServerTypes' /\ ServerBorn', UNCHANGED <<tab, cache, fetch, edits, src>>,
             \A d \in Ids : Exists(d) => Exists(d)'
      PROVE  TInv'
  BY <1>2, TabQuiet DEF TInv
<1>3. ASSUME NEW c \in Clients, ClearDefault(c) \/ Commit(c) \/ Archive(c) PROVE TInv'
  <2>1. UNCHANGED <<tab, cache, fetch, edits, src>>
    BY <1>3 DEF ClearDefault, Commit, Archive
  <2>2. CASE ClearDefault(c)
    <3>1. \A d \in Ids : Exists(d) => Exists(d)'
      BY <2>2 DEF ClearDefault, Exists
    <3> QED
      BY <1>2, <2>1, <2>2, <3>1, ClearType
  <2>3. CASE Commit(c)
    <3>1. \A d \in Ids : Exists(d) => Exists(d)'
      BY <2>3, CommitRow DEF Exists
    <3> QED
      BY <1>2, <2>1, <2>3, <3>1, CommitType
  <2>4. CASE Archive(c)
    <3>1. \A d \in Ids : Exists(d) => Exists(d)'
      BY <2>4 DEF Archive, Exists, TInv, ServerTypes, RowType
    <3> QED
      BY <1>2, <2>1, <2>4, <3>1, ArchiveType
  <2> QED
    BY <1>3, <2>2, <2>3, <2>4
<1>4. ASSUME NEW d \in Ids, Read(d) \/ Open(d) \/ Receive(d) \/ Age(d) PROVE TInv'
  <2>1. row' = row /\ req' = req /\ restored' = restored
    BY <1>4 DEF Read, Open, Receive, Age
  <2> QED
    BY <1>1, <1>4, <2>1, ReadType, OpenType, ReceiveType, AgeType
<1>5. ASSUME NEW d \in Ids, NEW copying \in BOOLEAN, Reload(d, copying) PROVE TInv'
  BY <1>1, <1>5, ReloadType DEF Reload
<1>6. CASE New \/ Edit \/ Leave \/ \E app \in Apps : SetApp(app)
  <2>1. row' = row /\ req' = req /\ restored' = restored
    BY <1>6 DEF New, Edit, Leave, SetApp
  <2> QED
    BY <1>1, <1>6, <2>1, StoreType
<1>7. CASE SaveAs
  BY <1>7, SaveAsType, StoreType DEF TInv
<1>8. CASE Save \/ SaveAnswered \/ Other \/ \E d \in Ids : Delete(d)
  BY <1>8, SaveType, AnsweredType, OtherType, DeleteType DEF TInv
<1>9. CASE UNCHANGED vars
  <2>1. UNCHANGED <<tab, cache, fetch, edits, src>> /\ \A d \in Ids : Exists(d) => Exists(d)'
    BY <1>9 DEF vars, Exists
  <2> QED
    BY <1>9, <2>1, ServerQuiet, TabQuiet DEF vars, TInv
<1> QED
  BY <1>3, <1>4, <1>5, <1>6, <1>7, <1>8, <1>9 DEF Next, Server, Browser

(***************************************************************************)
(* Two defaults need a cause                                               *)
(***************************************************************************)

(* What is so of a transaction, unless its application has a cause: the    *)
(* row is filed where it was read, is not the default where it was read    *)
(* not to be, and the clear has found every default.                       *)
Filed(c)   == Writing(c) => \/ row[req[c].id].app = req[c].base.app
                            \/ row[req[c].id].app \in blame
Flagged(c) == Writing(c) /\ row[req[c].id].default /\ ~req[c].base.default =>
                 req[c].body.def.app \in blame
Cleared(c) == Writing(c) /\ req[c].stage = "cleared" =>
                 /\ BecomesDefault(c)
                 /\ \/ req[c].body.def.app \in blame
                    \/ Defaults(req[c].body.def.app) \subseteq req[c].clears
Paired(a)  == \A d, e \in Defaults(a) : d # e => a \in blame

BInv == /\ TInv
        /\ \A c \in Clients : Filed(c) /\ Flagged(c) /\ Cleared(c)
        /\ \A a \in Apps : Paired(a)

LEMMA QuietBlame ==
    ASSUME BInv, TInv', row' = row, blame' = blame,
           \A c \in Clients : Writing(c)' => Writing(c) /\ req'[c] = req[c]
    PROVE  BInv'
<1>1. \A a : Defaults(a)' = Defaults(a)
  BY DEF Defaults, Exists
<1>2. ASSUME NEW c \in Clients PROVE Filed(c)' /\ Flagged(c)' /\ Cleared(c)'
  <2>1. CASE Writing(c)'
    BY <1>1, <2>1 DEF BInv, Filed, Flagged, Cleared, BecomesDefault
  <2>2. CASE ~Writing(c)'
    BY <2>2 DEF Filed, Flagged, Cleared
  <2> QED
    BY <2>1, <2>2
<1>3. \A a \in Apps : Paired(a)'
  BY <1>1 DEF BInv, Paired
<1> QED
  BY <1>2, <1>3 DEF BInv

LEMMA SendBlame ==
    ASSUME BInv, TInv', row' = row, blame' = blame,
           NEW c \in Clients, NEW op, NEW id, NEW body, Send(c, op, id, body)
    PROVE  BInv'
<1>1. PICK d \in IF op = "create" THEN Unused ELSE {id} :
          req' = [req EXCEPT ![c] = [op |-> op, id |-> d, body |-> body, stage |-> "begun",
                                     base |-> row[d], clears |-> {}]]
  BY DEF Send
<1>2. PICK new : new = [op |-> op, id |-> d, body |-> body, stage |-> "begun",
                        base |-> row[d], clears |-> {}]
  OBVIOUS
<1>3. /\ req'[c] = new /\ \A o \in Clients \ {c} : req'[o] = req[o]
      /\ new.id = d /\ new.stage = "begun" /\ new.base = row[d]
  BY <1>1, <1>2 DEF BInv, TInv, ServerTypes
<1>4. \A a : Defaults(a)' = Defaults(a)
  BY DEF Defaults, Exists
<1>5. ASSUME NEW o \in Clients PROVE Filed(o)' /\ Flagged(o)' /\ Cleared(o)'
  <2>1. CASE o = c
    BY <1>3, <2>1 DEF Filed, Flagged, Cleared
  <2>2. CASE o # c
    <3>1. req'[o] = req[o] /\ (Writing(o)' <=> Writing(o))
      BY <1>3, <2>2 DEF Writing
    <3> QED
      BY <1>4, <3>1 DEF BInv, Filed, Flagged, Cleared, BecomesDefault
  <2> QED
    BY <2>1, <2>2
<1>6. \A a \in Apps : Paired(a)'
  BY <1>4 DEF BInv, Paired
<1> QED
  BY <1>5, <1>6 DEF BInv

LEMMA ClearBlame ==
    ASSUME BInv, TInv', NEW c \in Clients, ClearDefault(c)
    PROVE  BInv'
<1>1. PICK found : /\ found = Defaults(req[c].body.def.app)
                   /\ req' = [req EXCEPT ![c].stage = "cleared", ![c].clears = found]
  BY DEF ClearDefault
<1>2. row' = row /\ blame' = blame /\ Writing(c) /\ BecomesDefault(c) /\ req[c] \in Reqs
  BY DEF ClearDefault, BInv, TInv, ServerTypes, Writing
<1>3. PICK new : new = [req[c] EXCEPT !.stage = "cleared", !.clears = found]
  OBVIOUS
<1>4. /\ new.op = req[c].op /\ new.id = req[c].id /\ new.body = req[c].body
      /\ new.base = req[c].base /\ new.stage = "cleared" /\ new.clears = found
  BY <1>2, <1>3 DEF Reqs
<1>5. req'[c] = new /\ \A o \in Clients \ {c} : req'[o] = req[o]
  BY <1>1, <1>3 DEF BInv, TInv, ServerTypes
<1>6. \A a : Defaults(a)' = Defaults(a)
  BY <1>2 DEF Defaults, Exists
<1>7. ASSUME NEW o \in Clients PROVE Filed(o)' /\ Flagged(o)' /\ Cleared(o)'
  <2>1. CASE o = c
    <3>1. Filed(c)' /\ Flagged(c)'
      BY <1>2, <1>4, <1>5 DEF BInv, Filed, Flagged
    <3>2. BecomesDefault(c)'
      BY <1>2, <1>4, <1>5 DEF BecomesDefault
    <3>3. Defaults(req[c].body.def.app)' \subseteq req'[c].clears
      BY <1>1, <1>2, <1>4, <1>5, <1>6 DEF Defaults, Exists
    <3>4. Cleared(c)'
      BY <1>1, <1>4, <1>5, <1>6, <3>2 DEF Cleared
    <3> QED
      BY <2>1, <3>1, <3>4
  <2>2. CASE o # c
    <3>1. req'[o] = req[o] /\ (Writing(o)' <=> Writing(o))
      BY <1>5, <2>2 DEF Writing
    <3> QED
      BY <1>2, <1>6, <3>1 DEF BInv, Filed, Flagged, Cleared, BecomesDefault
  <2> QED
    BY <2>1, <2>2
<1>8. \A a \in Apps : Paired(a)'
  BY <1>2, <1>6 DEF BInv, Paired
<1> QED
  BY <1>7, <1>8 DEF BInv

LEMMA ArchiveBlame ==
    ASSUME BInv, TInv', NEW c \in Clients, Archive(c)
    PROVE  BInv'
<1>1. /\ req[c] \in Reqs /\ req[c].op = "delete" /\ req[c].id \in Ids /\ blame' = blame
      /\ req' = [req EXCEPT ![c] = Answered(req[c])]
      /\ row' = [row EXCEPT ![req[c].id].life = "archived"]
  BY DEF Archive, BInv, TInv, ServerTypes, Reqs
<1>2. /\ row \in [Ids -> RowType]
      /\ \A d \in Ids : row'[d].default = row[d].default /\ row'[d].app = row[d].app
      /\ \A d \in Ids \ {req[c].id} : row'[d] = row[d]
      /\ row'[req[c].id].life = "archived"
  BY <1>1 DEF BInv, TInv, ServerTypes, RowType
<1>3. \A d \in Ids : Exists(d)' <=> Exists(d)
  <2>1. Exists(req[c].id)
    BY <1>1 DEF Archive, BInv, TInv, ServerBorn, Known, Creating, Writing
  <2> QED
    BY <1>2, <2>1 DEF Exists
<1>4. \A a : Defaults(a)' = Defaults(a)
  BY <1>2, <1>3 DEF Defaults
<1>5. \A o \in Clients : Writing(o)' => Writing(o) /\ req'[o] = req[o] /\ req[o].id \in Ids
  BY <1>1, AnsweredIs DEF Writing, BInv, TInv, ServerTypes, Reqs
<1>6. ASSUME NEW o \in Clients PROVE Filed(o)' /\ Flagged(o)' /\ Cleared(o)'
  <2>1. CASE Writing(o)'
    BY <1>1, <1>2, <1>4, <1>5, <2>1 DEF BInv, Filed, Flagged, Cleared, BecomesDefault
  <2>2. CASE ~Writing(o)'
    BY <2>2 DEF Filed, Flagged, Cleared
  <2> QED
    BY <2>1, <2>2
<1>7. \A a \in Apps : Paired(a)'
  BY <1>1, <1>4 DEF BInv, Paired
<1> QED
  BY <1>6, <1>7 DEF BInv

(* A commit blames what overlaps with it.                                  *)
LEMMA CommitBlame ==
    ASSUME BInv, TInv', NEW c \in Clients, Commit(c)
    PROVE  BInv'
<1>1. /\ Writing(c) /\ req[c] \in Reqs /\ req[c].body \in Bodies /\ req[c].base \in RowType
      /\ req[c].id \in Ids /\ Written(c) \in RowType
      /\ row'[req[c].id] = Written(c)
      /\ \A d \in Ids \ {req[c].id} :
            /\ row'[d].life = row[d].life /\ row'[d].app = row[d].app
            /\ row'[d].default = (row[d].default /\ d \notin req[c].clears)
      /\ \A o \in Clients \ {c} : req'[o] = req[o]
  BY CommitRow DEF BInv
<1>2. blame' = blame \cup Causes(c) /\ Causes(c) \subseteq blame'
  BY DEF Commit
<1>3. ~Writing(c)'
  <2>1. req'[c] \in {Answered(req[c]), None}
    BY DEF Commit, BInv, TInv, ServerTypes
  <2> QED
    BY <1>1, <2>1, AnsweredIs DEF Writing
<1>4. req[c].body.def.app \in Apps
  BY <1>1 DEF Bodies, Defs
<1>5. ASSUME NEW o \in Clients PROVE Filed(o)' /\ Flagged(o)' /\ Cleared(o)'
  <2> SUFFICES ASSUME Writing(o)' PROVE Filed(o)' /\ Flagged(o)' /\ Cleared(o)'
    BY DEF Filed, Flagged, Cleared
  <2>1. o # c /\ req'[o] = req[o] /\ Writing(o) /\ req[o].id \in Ids /\ req[o].body \in Bodies
    BY <1>1, <1>3 DEF Writing, BInv, TInv, ServerTypes, Reqs
  <2>2. req[o].body.def.app \in Apps
    BY <2>1 DEF Bodies, Defs
  <2>3. CASE req[o].id = req[c].id
    <3>1. req[o].body.def.app \in blame' /\ req[c].body.def.app \in blame'
      BY <1>2, <1>4, <2>1, <2>2, <2>3 DEF Causes
    <3>2. Filed(o)'
      <4>1. CASE req[c].body.def.app = req[c].base.app
        <5>1. Written(c).app = row[req[c].id].app
          BY <4>1 DEF Written, Net
        <5> QED
          BY <1>1, <1>2, <2>1, <2>3, <5>1 DEF BInv, Filed
      <4>2. CASE req[c].body.def.app # req[c].base.app
        <5>1. Written(c).app = req[c].body.def.app
          BY <4>2 DEF Written, Net
        <5> QED
          BY <1>1, <2>1, <2>3, <3>1, <5>1 DEF Filed
      <4> QED
        BY <4>1, <4>2
    <3>3. Flagged(o)'
      BY <2>1, <3>1 DEF Flagged
    <3>4. Cleared(o)'
      BY <2>1, <3>1 DEF BInv, Cleared, BecomesDefault
    <3> QED
      BY <3>2, <3>3, <3>4
  <2>4. CASE req[o].id # req[c].id
    <3>1. /\ row'[req[o].id].app = row[req[o].id].app
          /\ row'[req[o].id].default => row[req[o].id].default
      BY <1>1, <2>1, <2>4
    <3>2. Filed(o)' /\ Flagged(o)'
      BY <1>2, <2>1, <3>1 DEF BInv, Filed, Flagged
    <3>3. CASE req[o].stage = "cleared"
      <4>1. BecomesDefault(o) /\ req[o].body.default
        BY <2>1, <3>3 DEF BInv, Cleared, BecomesDefault
      <4>2. req[o].body.def.app \in blame'
        BY <1>2, <2>1, <2>2, <4>1 DEF Causes
      <4>3. Cleared(o)'
        BY <2>1, <4>1, <4>2 DEF Cleared, BecomesDefault
      <4> QED
        BY <3>2, <4>3
    <3>4. CASE req[o].stage # "cleared"
      BY <2>1, <3>2, <3>4 DEF Cleared
    <3> QED
      BY <3>3, <3>4
  <2> QED
    BY <2>3, <2>4
<1>6. ASSUME NEW a \in Apps, NEW e \in Defaults(a)', e # req[c].id
      PROVE  e \in Defaults(a) /\ e \notin req[c].clears
  BY <1>1, <1>6 DEF Defaults, Exists
<1>7. ASSUME NEW a \in Apps, req[c].id \in Defaults(a)',
             NEW e \in Defaults(a)', e # req[c].id
      PROVE  a \in blame'
  <2>1. e \in Defaults(a) /\ e \notin req[c].clears
    BY <1>6, <1>7
  <2>2. Written(c).app = a /\ Written(c).default
    BY <1>1, <1>7 DEF Defaults
  <2>3. CASE req[c].id \in Defaults(a)
    BY <1>2, <1>7, <2>1, <2>3 DEF BInv, Paired
  <2>4. CASE req[c].id \notin Defaults(a) /\ req[c].body.def.app # a
    <3>1. req[c].body.def.app = req[c].base.app /\ row[req[c].id].app = a
      BY <2>2, <2>4 DEF Written, Net
    <3> QED
      BY <1>1, <1>2, <2>4, <3>1 DEF BInv, Filed
  <2>5. CASE req[c].id \notin Defaults(a) /\ req[c].body.def.app = a
    <3>1. /\ req[c].body.default \in BOOLEAN /\ req[c].base.default \in BOOLEAN
          /\ row[req[c].id].default \in BOOLEAN
      BY <1>1 DEF Bodies, RowType, BInv, TInv, ServerTypes
    <3>2. CASE req[c].body.default # req[c].base.default
      <4>1. BecomesDefault(c)
        BY <2>2, <3>1, <3>2 DEF BecomesDefault, Written, Net
      <4>2. req[c].stage = "cleared"
        BY <4>1 DEF Commit
      <4> QED
        BY <1>1, <1>2, <2>1, <2>5, <4>2 DEF BInv, Cleared
    <3>3. CASE req[c].body.default = req[c].base.default
      <4>1. row[req[c].id].default
        BY <2>2, <3>3 DEF Written, Net
      <4>2. CASE ~req[c].base.default
        BY <1>1, <1>2, <2>5, <4>1, <4>2 DEF BInv, Flagged
      <4>3. CASE req[c].base.default
        <5>1. req[c].op = "update" /\ Exists(req[c].id)
          <6>1. req[c].op # "create"
            BY <1>1, <4>3 DEF BInv, TInv, ServerBorn, Secret, Creating, Rowed
          <6> QED
            BY <1>1, <6>1 DEF BInv, TInv, ServerBorn, Known, Creating, Writing, Reqs
        <5>2. CASE req[c].base.app = a
          <6>1. row[req[c].id].app = a
            BY <2>2, <2>5, <5>2 DEF Written, Net
          <6> QED
            BY <1>1, <2>5, <4>1, <5>1, <6>1 DEF Defaults
        <5>3. CASE req[c].base.app # a
          BY <1>2, <2>5, <4>3, <5>1, <5>3 DEF Causes
        <5> QED
          BY <5>2, <5>3
      <4> QED
        BY <4>2, <4>3
    <3> QED
      BY <3>2, <3>3
  <2> QED
    BY <2>3, <2>4, <2>5
<1>8. ASSUME NEW a \in Apps PROVE Paired(a)'
  <2> SUFFICES ASSUME NEW d \in Defaults(a)', NEW e \in Defaults(a)', d # e PROVE a \in blame'
    BY DEF Paired
  <2>1. CASE d = req[c].id
    BY <1>7, <2>1
  <2>2. CASE e = req[c].id
    BY <1>7, <2>2
  <2>3. CASE d # req[c].id /\ e # req[c].id
    BY <1>2, <1>6, <2>3 DEF BInv, Paired
  <2> QED
    BY <2>1, <2>2, <2>3
<1> QED
  BY <1>5, <1>8 DEF BInv

LEMMA DefaultsFinite == \A a : IsFiniteSet(Defaults(a))
BY DashboardsAssumption, FS_Subset DEF Defaults

LEMMA InitBInv == Init => BInv
<1> SUFFICES ASSUME Init PROVE BInv
  OBVIOUS
<1>1. \A c \in Clients : ~Writing(c)
  BY DEF Init, Writing
<1>2. \A c \in Clients : Filed(c) /\ Flagged(c) /\ Cleared(c)
  BY <1>1 DEF Filed, Flagged, Cleared
<1>3. ASSUME NEW a \in Apps, NEW d \in Defaults(a), NEW e \in Defaults(a) PROVE d = e
  <2>1. Cardinality(Defaults(a)) =< 1 /\ Cardinality(Defaults(a)) \in Nat
    BY DefaultsFinite, FS_CardinalityType DEF Init
  <2>2. Cardinality(Defaults(a)) # 0
    BY DefaultsFinite, FS_EmptySet
  <2>3. Cardinality(Defaults(a)) = 1
    BY <2>1, <2>2
  <2> QED
    BY <2>3, DefaultsFinite, FS_Singleton
<1> QED
  BY <1>2, <1>3, InitTInv DEF BInv, Paired

LEMMA NextBInv == BInv /\ [Next]_vars => BInv'
<1> SUFFICES ASSUME BInv, [Next]_vars PROVE BInv'
  OBVIOUS
<1>1. TInv'
  BY NextTInv DEF BInv
<1>2. ASSUME NEW c \in Clients, ClearDefault(c) \/ Commit(c) \/ Archive(c) PROVE BInv'
  BY <1>1, <1>2, ClearBlame, CommitBlame, ArchiveBlame
<1>3. ASSUME UNCHANGED <<row, req, blame>> PROVE BInv'
  <2>1. \A c \in Clients : Writing(c)' => Writing(c) /\ req'[c] = req[c]
    BY <1>3 DEF Writing
  <2> QED
    BY <1>1, <1>3, <2>1, QuietBlame
<1>4. CASE Browser
  <2>1. ASSUME NEW d \in Ids, Delete(d) PROVE BInv'
    BY <1>1, <2>1, SendBlame, Constants DEF Delete
  <2>2. CASE Save \/ SaveAs
    BY <1>1, <2>2, SendBlame, Constants DEF Save, SaveAs
  <2>3. CASE SaveAnswered
    <3>1. row' = row /\ blame' = blame /\ req' = [req EXCEPT !["tab"] = None]
      BY <2>3 DEF SaveAnswered
    <3>2. \A c \in Clients : Writing(c)' => Writing(c) /\ req'[c] = req[c]
      BY <3>1 DEF Writing, BInv, TInv, ServerTypes
    <3> QED
      BY <1>1, <3>1, <3>2, QuietBlame
  <2>4. CASE \E d \in Ids : Open(d) \/ Receive(d) \/ Age(d)
    BY <1>3, <2>4 DEF Open, Receive, Age
  <2>5. CASE (\E d \in Ids, copying \in BOOLEAN : Reload(d, copying)) \/ New
    BY <1>3, <2>5 DEF Reload, New
  <2>6. CASE Edit \/ (\E app \in Apps : SetApp(app)) \/ Leave
    BY <1>3, <2>6 DEF Edit, SetApp, Leave
  <2> QED
    BY <1>4, <2>1, <2>2, <2>3, <2>4, <2>5, <2>6 DEF Browser
<1>5. CASE Other
  <2>1. ASSUME NEW o \in Others, NEW d \in Ids, NEW app \in Apps, NEW default \in BOOLEAN,
               OtherUpdates(o, d, app, default)
        PROVE  BInv'
    BY <1>1, <2>1, SendBlame, Constants DEF OtherUpdates
  <2>2. ASSUME NEW o \in Others, NEW app \in Apps, OtherCreates(o, app) PROVE BInv'
    BY <1>1, <2>2, SendBlame, Constants DEF OtherCreates
  <2> QED
    BY <1>5, <2>1, <2>2 DEF Other
<1>6. CASE \E d \in Ids : Read(d)
  BY <1>3, <1>6 DEF Read
<1>7. CASE UNCHANGED vars
  BY <1>3, <1>7 DEF vars
<1> QED
  BY <1>2, <1>4, <1>5, <1>6, <1>7 DEF Next, Server

(* Wherever two dashboards of an application are its default, the          *)
(* application was blamed for it: two transactions that each made one      *)
(* overlapped there, or a dashboard that was the default was filed there.  *)
(* _clear_default misses no row, and no stale read is written back.        *)
THEOREM TwoDefaultsAreBlamed == Spec => []TwoDefaultsNeedCause
<1>1. BInv => TwoDefaultsNeedCause
  <2> SUFFICES ASSUME BInv, NEW a \in Apps, Cardinality(Defaults(a)) > 1 PROVE a \in blame
    BY DEF TwoDefaultsNeedCause
  <2>1. PICK d \in Defaults(a) : TRUE
    BY FS_EmptySet
  <2>2. Defaults(a) # {d}
    BY FS_Singleton
  <2>3. PICK e \in Defaults(a) : e # d
    BY <2>1, <2>2
  <2> QED
    BY <2>1, <2>3 DEF BInv, Paired
<1> QED
  BY <1>1, InitBInv, NextBInv, PTL DEF Spec

(***************************************************************************)
(* Saved edits undone need a cause                                         *)
(***************************************************************************)

(* Edits that are in the row of d, but for those others have put back.     *)
Kept(d) == row[d].def.edits \ restored

(* The tab's copy: a copy that is read, and nothing has overtaken, has all *)
(* that is kept.                                                           *)
Named == /\ tab.id # None => src # "new"
         /\ tab.copying => tab.id = None
Held  == tab.id # None /\ src = "read" => Kept(tab.id) \subseteq tab.def.edits

(* What the tab has sent, and what it shows until it is answered: what it  *)
(* has saved, or what an answer that was overtaken has put in its place.   *)
Updating  == Writing("tab") /\ req["tab"].op = "update"
Sent      == Writing("tab") => InBuilder /\ req["tab"].body.src # "other"
SentWhole == Updating /\ req["tab"].body.src = "read" =>
                Kept(req["tab"].id) \subseteq req["tab"].body.def.edits
SentNamed == Updating => req["tab"].body.src # "new" /\ ~tab.copying
SentFrom  == Updating => \/ tab.id = req["tab"].id
                         \/ tab.id = Shown /\ Shown # req["tab"].id
SentShown == Updating /\ req["tab"].id = tab.id =>
                \/ req["tab"].body.def.edits \subseteq tab.def.edits
                \/ src = "late" /\ fetch[tab.id].at = "none"
Theirs    == \A o \in Others : Writing(o) => req[o].body.src = "other"

InFlight == Sent /\ SentWhole /\ SentNamed /\ SentFrom /\ SentShown

EInv == TInv /\ Named /\ Held /\ InFlight /\ Theirs

LEMMA TabTyped ==
    ASSUME TInv
    PROVE  /\ tab \in Tabs /\ (tab.id # None => tab.id \in Ids /\ Exists(tab.id))
           /\ (Updating => req["tab"].id \in Ids /\ Exists(req["tab"].id))
<1>1. tab \in Tabs /\ (tab.id # None => tab.id \in Ids /\ Exists(tab.id))
  BY DEF TInv, TabTypes, TabBorn, Tabs
<1>2. Updating => req["tab"].id \in Ids /\ Exists(req["tab"].id)
  BY Constants DEF TInv, ServerTypes, ServerBorn, Known, Creating, Updating, Writing, Reqs
<1> QED
  BY <1>1, <1>2

(* A step of the server that writes nothing for the tab.                   *)
LEMMA SteadyEdits ==
    ASSUME EInv, TInv', UNCHANGED <<tab, src, fetch>>,
           \A d \in Ids : Exists(d) => Kept(d)' \subseteq Kept(d),
           Writing("tab")' => /\ Writing("tab") /\ req'["tab"].op = req["tab"].op
                              /\ req'["tab"].id = req["tab"].id
                              /\ req'["tab"].body = req["tab"].body,
           Theirs'
    PROVE  EInv'
<1>1. Named' /\ Held'
  <2>1. tab.id # None => Kept(tab.id)' \subseteq Kept(tab.id)
    BY TabTyped DEF EInv
  <2> QED
    BY <2>1 DEF EInv, Named, Held, Kept
<1>2. CASE ~Writing("tab")'
  BY <1>1, <1>2 DEF EInv, InFlight, Sent, SentWhole, SentNamed, SentFrom, SentShown, Updating
<1>3. CASE Writing("tab")'
  <2>1. Writing("tab") /\ (Updating' <=> Updating)
    BY <1>3 DEF Updating
  <2>2. \A d \in Ids : d = req["tab"].id /\ Updating => Kept(d)' \subseteq Kept(d)
    BY TabTyped DEF EInv
  <2>3. SentWhole'
    BY <1>3, <2>1, <2>2, TabTyped DEF EInv, InFlight, SentWhole, Kept
  <2>4. Sent' /\ SentNamed' /\ SentFrom' /\ SentShown'
    BY <1>3, <2>1 DEF EInv, InFlight, Sent, SentNamed, SentFrom, SentShown, Shown, InBuilder
  <2> QED
    BY <1>1, <2>3, <2>4 DEF EInv, InFlight
<1> QED
  BY <1>2, <1>3

(* A step of the tab with nothing on its way to the server afterwards.     *)
LEMMA IdleEdits ==
    ASSUME EInv, TInv', row' = row, restored' = restored, ~Writing("tab")', Theirs',
           Named',
           tab'.id # None /\ src' = "read" =>
               tab'.id = tab.id /\ src = "read" /\ tab.def.edits \subseteq tab'.def.edits
    PROVE  EInv'
<1>1. Held'
  BY DEF EInv, Held, Kept
<1> QED
  BY <1>1 DEF EInv, InFlight, Sent, SentWhole, SentNamed, SentFrom, SentShown, Updating

LEMMA TheirsStay ==
    ASSUME EInv, \A o \in Others : Writing(o)' => Writing(o) /\ req'[o].body = req[o].body
    PROVE  Theirs'
BY DEF EInv, Theirs

(* A commit of another client takes edits out, and puts back the others.   *)
LEMMA OtherKeeps ==
    ASSUME TInv, NEW c \in Others, Commit(c), NEW d \in Ids, Exists(d)
    PROVE  Kept(d)' \subseteq Kept(d)
<1>1. c \in Clients /\ c # "tab"
  BY Constants
<1>2. /\ row'[req[c].id] = Written(c) /\ Writing(c)
      /\ \A e \in Ids \ {req[c].id} : row'[e].def = row[e].def
  BY <1>1, CommitRow
<1>3. restored' = restored \cup PutBack(c)
  BY DEF Commit
<1>4. CASE d # req[c].id
  BY <1>2, <1>3, <1>4 DEF Kept
<1>5. CASE d = req[c].id
  <2>1. req[c].op # "create"
    BY <1>1, <1>2, <1>5 DEF TInv, ServerBorn, Secret, Creating
  <2>2. PutBack(c) = Written(c).def.edits \ row[d].def.edits
    BY <1>1, <1>5, <2>1 DEF PutBack
  <2> QED
    BY <1>2, <1>3, <1>5, <2>2 DEF Kept
<1> QED
  BY <1>4, <1>5

LEMMA CommitEdits ==
    ASSUME EInv, TInv', NEW c \in Clients, Commit(c)
    PROVE  EInv'
<1>1. /\ Writing(c) /\ req[c] \in Reqs /\ req[c].id \in Ids
      /\ row'[req[c].id] = Written(c)
      /\ \A d \in Ids \ {req[c].id} : row'[d].def = row[d].def
      /\ \A o \in Clients \ {c} : req'[o] = req[o]
  BY CommitRow DEF EInv
<1>2. UNCHANGED <<tab, src, fetch>> /\ restored' = restored \cup PutBack(c)
  BY DEF Commit
<1>3. ~Writing(c)'
  <2>1. req'[c] \in {Answered(req[c]), None}
    BY DEF Commit, EInv, TInv, ServerTypes
  <2> QED
    BY <1>1, <2>1, AnsweredIs DEF Writing
<1>4. \A o \in Clients : Writing(o)' => Writing(o) /\ req'[o] = req[o]
  BY <1>1, <1>3 DEF Writing
<1>5. Theirs'
  BY <1>4, TheirsStay, Constants
<1>6. CASE c \in Others
  BY <1>2, <1>4, <1>5, <1>6, OtherKeeps, SteadyEdits, Constants DEF EInv
<1>7. CASE c = "tab"
  <2>1. restored' = restored
    BY <1>2, <1>7 DEF PutBack
  <2>2. Held'
    <3> SUFFICES ASSUME tab.id # None, src = "read" PROVE Kept(tab.id)' \subseteq tab.def.edits
      BY <1>2 DEF Held, Kept
    <3>1. tab.id \in Ids /\ Exists(tab.id) /\ Kept(tab.id) \subseteq tab.def.edits
      BY TabTyped DEF EInv, Held
    <3>2. CASE tab.id # req["tab"].id
      BY <1>1, <1>2, <1>7, <2>1, <3>1, <3>2 DEF Kept
    <3>3. CASE tab.id = req["tab"].id
      <4>1. req["tab"].op # "create"
        BY <1>1, <1>7, <3>1, <3>3 DEF EInv, TInv, ServerBorn, Secret, Creating
      <4>2. Updating
        BY <1>1, <1>7, <4>1 DEF Updating, Writing, Reqs
      <4>3. req["tab"].body.def.edits \subseteq tab.def.edits
        BY <3>3, <4>2 DEF EInv, InFlight, SentShown
      <4>4. Written("tab").def \in {req["tab"].body.def, row[tab.id].def}
        BY <3>3 DEF Written, Net
      <4> QED
        BY <1>1, <1>2, <1>7, <2>1, <3>1, <3>3, <4>3, <4>4 DEF Kept
    <3> QED
      BY <3>2, <3>3
  <2>3. Named'
    BY <1>2 DEF EInv, Named
  <2> QED
    BY <1>3, <1>5, <1>7, <2>2, <2>3 DEF EInv, InFlight, Sent, SentWhole, SentNamed, SentFrom, SentShown, Updating
<1> QED
  BY <1>6, <1>7 DEF Clients

LEMMA ClearEdits ==
    ASSUME EInv, TInv', NEW c \in Clients, ClearDefault(c) \/ Archive(c)
    PROVE  EInv'
<1>1. UNCHANGED <<tab, src, fetch, restored>>
  BY DEF ClearDefault, Archive
<1>2. \A d \in Ids : row'[d].def = row[d].def
  <2>1. CASE ClearDefault(c)
    BY <2>1 DEF ClearDefault
  <2>2. CASE Archive(c)
    BY <2>2 DEF Archive, EInv, TInv, ServerTypes, RowType
  <2> QED
    BY <2>1, <2>2
<1>3. \A o \in Clients : Writing(o)' => /\ Writing(o) /\ req'[o].op = req[o].op
                                        /\ req'[o].id = req[o].id /\ req'[o].body = req[o].body
  <2>1. CASE ClearDefault(c)
    <3>1. PICK found : req' = [req EXCEPT ![c].stage = "cleared", ![c].clears = found]
      BY <2>1 DEF ClearDefault
    <3>2. Writing(c) /\ req[c] \in Reqs
      BY <2>1 DEF ClearDefault, Writing, EInv, TInv, ServerTypes
    <3>3. PICK new : new = [req[c] EXCEPT !.stage = "cleared", !.clears = found]
      OBVIOUS
    <3>4. new.op = req[c].op /\ new.id = req[c].id /\ new.body = req[c].body
      BY <3>2, <3>3 DEF Reqs
    <3>5. req'[c] = new /\ \A o \in Clients \ {c} : req'[o] = req[o]
      BY <3>1, <3>3 DEF EInv, TInv, ServerTypes
    <3> QED
      BY <3>2, <3>4, <3>5 DEF Writing
  <2>2. CASE Archive(c)
    <3>1. req[c] \in Reqs /\ req' = [req EXCEPT ![c] = Answered(req[c])]
      BY <2>2 DEF Archive, EInv, TInv, ServerTypes
    <3> QED
      BY <3>1, AnsweredIs DEF Writing, EInv, TInv, ServerTypes
  <2> QED
    BY <2>1, <2>2
<1>4. \A d \in Ids : Kept(d)' \subseteq Kept(d)
  BY <1>1, <1>2 DEF Kept
<1>5. Theirs'
  BY <1>3, TheirsStay, Constants
<1> QED
  BY <1>1, <1>3, <1>4, <1>5, SteadyEdits, Constants

(* What is sent: by the tab, what it shows; by the others, their own.      *)
LEMMA SendIs ==
    ASSUME TInv, NEW c \in Clients, NEW op, NEW id, NEW body, Send(c, op, id, body)
    PROVE  /\ req[c] = None /\ req'[c].op = op /\ req'[c].body = body
           /\ op # "create" => req'[c].id = id
           /\ \A o \in Clients \ {c} : req'[o] = req[o]
           /\ Writing(c)' => op # "delete"
           /\ \A o \in Clients \ {c} : Writing(o)' <=> Writing(o)
<1>1. PICK d \in IF op = "create" THEN Unused ELSE {id} :
          req' = [req EXCEPT ![c] = [op |-> op, id |-> d, body |-> body, stage |-> "begun",
                                     base |-> row[d], clears |-> {}]]
  BY DEF Send
<1>2. PICK new : new = [op |-> op, id |-> d, body |-> body, stage |-> "begun",
                        base |-> row[d], clears |-> {}]
  OBVIOUS
<1>3. req'[c] = new /\ \A o \in Clients \ {c} : req'[o] = req[o]
  BY <1>1, <1>2 DEF TInv, ServerTypes
<1>4. new.op = op /\ new.id = d /\ new.body = body
  BY <1>2
<1> QED
  BY <1>1, <1>3, <1>4 DEF Send, Writing

LEMMA SaveEdits ==
    ASSUME EInv, TInv', Save
    PROVE  EInv'
<1>1. UNCHANGED <<row, tab, src, fetch, restored>> /\ CanSave
  BY DEF Save
<1>2. PICK op \in {"create", "update"} :
          Send("tab", op, tab.id, Body) /\ (op # "create" => tab.id # None)
  BY DEF Save
<1>3. Body.src = src /\ Body.def = tab.def /\ src # "other"
  BY <1>1, BodyType DEF EInv, TInv, TabTypes
<1>4. /\ req'["tab"].op = op /\ req'["tab"].body = Body
      /\ op # "create" => req'["tab"].id = tab.id
      /\ \A o \in Others : req'[o] = req[o] /\ (Writing(o)' <=> Writing(o))
  BY <1>2, SendIs, Constants DEF EInv
<1>5. Named' /\ Held'
  BY <1>1 DEF EInv, Named, Held, Kept
<1>6. Theirs'
  BY <1>4, TheirsStay
<1>7. Sent'
  BY <1>1, <1>3, <1>4 DEF Sent, InBuilder, CanSave
<1>8. Updating' => tab.id # None /\ req'["tab"].id = tab.id
  BY <1>2, <1>4 DEF Updating
<1>9. SentWhole' /\ SentNamed' /\ SentFrom' /\ SentShown'
  BY <1>1, <1>3, <1>4, <1>8 DEF EInv, Named, Held, Kept, SentWhole, SentNamed, SentFrom, SentShown
<1> QED
  BY <1>5, <1>6, <1>7, <1>9 DEF EInv, InFlight

LEMMA SaveAsEdits ==
    ASSUME EInv, TInv', SaveAs
    PROVE  EInv'
<1>1. /\ UNCHANGED <<row, src, fetch, restored>> /\ CanSave
      /\ Send("tab", "create", None, Body) /\ tab' = [tab EXCEPT !.id = None, !.def = tab.def]
  BY DEF SaveAs, Loaded
<1>2. Body.src = src /\ src # "other"
  BY <1>1, BodyType DEF EInv, TInv, TabTypes
<1>3. /\ req'["tab"].op = "create" /\ req'["tab"].body = Body
      /\ \A o \in Others : req'[o] = req[o] /\ (Writing(o)' <=> Writing(o))
  BY <1>1, SendIs, Constants DEF EInv
<1>4. tab'.id = None /\ tab'.page = tab.page
  BY <1>1, TabTyped DEF EInv, Tabs
<1>5. Named' /\ Held'
  BY <1>4 DEF Named, Held
<1>6. Theirs'
  BY <1>3, TheirsStay
<1>7. Sent'
  BY <1>1, <1>2, <1>3, <1>4 DEF Sent, InBuilder, CanSave
<1>8. ~Updating'
  BY <1>3 DEF Updating
<1> QED
  BY <1>5, <1>6, <1>7, <1>8 DEF EInv, InFlight, SentWhole, SentNamed, SentFrom, SentShown

LEMMA DeleteEdits ==
    ASSUME EInv, TInv', NEW d \in Ids, Delete(d)
    PROVE  EInv'
<1>1. UNCHANGED <<row, tab, src, fetch, restored>> /\ Send("tab", "delete", d, None)
  BY DEF Delete
<1>2. ~Writing("tab")' /\ \A o \in Others : req'[o] = req[o] /\ (Writing(o)' <=> Writing(o))
  BY <1>1, SendIs, Constants DEF EInv
<1>3. Theirs'
  BY <1>2, TheirsStay
<1> QED
  BY <1>1, <1>2, <1>3, SteadyEdits DEF Kept

LEMMA OtherEdits ==
    ASSUME EInv, TInv', Other
    PROVE  EInv'
<1>1. PICK o \in Others :
         \/ \E d \in Ids, app \in Apps, default \in BOOLEAN : OtherUpdates(o, d, app, default)
         \/ \E app \in Apps : OtherCreates(o, app)
  BY DEF Other
<1>2. UNCHANGED <<row, tab, fetch, src, restored>>
  BY <1>1 DEF OtherUpdates, OtherCreates
<1>3. PICK op, id, body : Send(o, op, id, body) /\ body.src = "other"
  <2>1. CASE \E d \in Ids, app \in Apps, default \in BOOLEAN : OtherUpdates(o, d, app, default)
    <3>1. PICK d \in Ids, app \in Apps, default \in BOOLEAN : OtherUpdates(o, d, app, default)
      BY <2>1
    <3>2. [def |-> [row[d].def EXCEPT !.app = app], default |-> default, src |-> "other"].src = "other"
      OBVIOUS
    <3> QED
      BY <3>1, <3>2 DEF OtherUpdates
  <2>2. CASE \E app \in Apps : OtherCreates(o, app)
    <3>1. PICK app \in Apps : OtherCreates(o, app)
      BY <2>2
    <3>2. [def |-> [app |-> app, edits |-> {}], default |-> TRUE, src |-> "other"].src = "other"
      OBVIOUS
    <3> QED
      BY <3>1, <3>2 DEF OtherCreates
  <2> QED
    BY <1>1, <2>1, <2>2
<1>4. /\ req'[o].body.src = "other"
      /\ \A c \in Clients \ {o} : req'[c] = req[c] /\ (Writing(c)' <=> Writing(c))
  BY <1>3, SendIs, Constants DEF EInv
<1>5. Theirs'
  BY <1>4, Constants DEF EInv, Theirs
<1> QED
  BY <1>2, <1>4, <1>5, SteadyEdits, Constants DEF Kept

(* The steps of the tab.                                                   *)
LEMMA MountEdits ==
    ASSUME EInv, TInv', row' = row, restored' = restored, ~Writing("tab")', Theirs',
           NEW t, NEW d, Mount(t, d), t.id = tab.id, t.def = tab.def, t.copying = FALSE, t \in Tabs
    PROVE  EInv'
<1>1. CASE cache[d] = None
  <2>1. tab' = t /\ src' = src
    BY <1>1 DEF Mount
  <2> QED
    BY <2>1, IdleEdits DEF EInv, Named
<1>2. CASE cache[d] # None
  <2>1. src' = "cache" /\ tab' = [t EXCEPT !.id = d, !.def = cache[d].def]
    BY <1>2 DEF Mount, Loaded
  <2>2. tab'.copying = FALSE
    BY <2>1 DEF Tabs
  <2> QED
    BY <2>1, <2>2, IdleEdits DEF Named
<1> QED
  BY <1>1, <1>2

LEMMA OpenEdits ==
    ASSUME EInv, TInv', NEW d \in Ids, Open(d)
    PROVE  EInv'
<1>1. PICK t : t = [tab EXCEPT !.page = "builder", !.url = d, !.copying = FALSE]
  OBVIOUS
<1>2. t \in Tabs /\ t.id = tab.id /\ t.def = tab.def /\ t.copying = FALSE
  BY <1>1, TabTyped DEF EInv, Tabs
<1>3. Mount(t, d) /\ row' = row /\ restored' = restored /\ req' = req /\ tab.page = "list"
  BY <1>1 DEF Open
<1>4. ~Writing("tab")'
  BY <1>3 DEF EInv, InFlight, Sent, InBuilder, Writing
<1>5. Theirs'
  BY <1>3 DEF EInv, Theirs, Writing
<1> QED
  BY <1>2, <1>3, <1>4, <1>5, MountEdits

LEMMA AnsweredEdits ==
    ASSUME EInv, TInv', SaveAnswered
    PROVE  EInv'
<1>1. row' = row /\ restored' = restored /\ req' = [req EXCEPT !["tab"] = None]
  BY DEF SaveAnswered
<1>2. ~Writing("tab")'
  BY <1>1, Constants DEF EInv, TInv, ServerTypes, Writing
<1>3. Theirs'
  <2>1. \A o \in Others : req'[o] = req[o]
    BY <1>1, Constants DEF EInv, TInv, ServerTypes
  <2> QED
    BY <2>1 DEF EInv, Theirs, Writing
<1>4. CASE Mount([tab EXCEPT !.url = req["tab"].id, !.copying = FALSE], req["tab"].id)
  <2>1. PICK t : t = [tab EXCEPT !.url = req["tab"].id, !.copying = FALSE]
    OBVIOUS
  <2>2. req["tab"].id \in Ids
    BY Constants DEF SaveAnswered, EInv, TInv, ServerTypes, Reqs
  <2>3. t \in Tabs /\ t.id = tab.id /\ t.def = tab.def /\ t.copying = FALSE
    BY <2>1, <2>2, TabTyped DEF EInv, Tabs
  <2> QED
    BY <1>1, <1>2, <1>3, <1>4, <2>1, <2>3, MountEdits
<1>5. CASE UNCHANGED <<tab, fetch, src>>
  BY <1>1, <1>2, <1>3, <1>5, IdleEdits DEF EInv, Named
<1> QED
  BY <1>4, <1>5 DEF SaveAnswered

LEMMA ReloadEdits ==
    ASSUME EInv, TInv', New \/ \E d \in Ids, copying \in BOOLEAN : Reload(d, copying)
    PROVE  EInv'
<1>1. /\ row' = row /\ restored' = restored /\ req' = req /\ tab'.id = None /\ ~Writing("tab")
  <2>1. CASE New
    BY <2>1 DEF New, EmptyTab, EInv, InFlight, Sent, InBuilder
  <2>2. CASE \E d \in Ids, copying \in BOOLEAN : Reload(d, copying)
    BY <2>2 DEF Reload, EmptyTab, Writing
  <2> QED
    BY <2>1, <2>2
<1>2. Named' /\ Theirs' /\ ~Writing("tab")'
  BY <1>1 DEF EInv, Named, Theirs, Writing
<1> QED
  BY <1>1, <1>2, IdleEdits

LEMMA LeaveEdits ==
    ASSUME EInv, TInv', Leave
    PROVE  EInv'
<1>1. /\ UNCHANGED <<row, req, restored, src>> /\ req["tab"] = None
      /\ tab' = [tab EXCEPT !.page = "list", !.url = None]
  BY DEF Leave
<1>2. tab'.id = tab.id /\ tab'.def = tab.def /\ tab'.copying = tab.copying
  BY <1>1, TabTyped DEF EInv, Tabs
<1>3. Named' /\ Theirs' /\ ~Writing("tab")'
  BY <1>1, <1>2 DEF EInv, Named, Theirs, Writing
<1> QED
  BY <1>1, <1>2, <1>3, IdleEdits

(* What is typed into the store stays in it until an answer comes.         *)
LEMMA TypingEdits ==
    ASSUME EInv, TInv', Edit \/ \E app \in Apps : SetApp(app)
    PROVE  EInv'
<1>1. /\ UNCHANGED <<row, req, restored, src, fetch>>
      /\ tab'.id = tab.id /\ tab'.url = tab.url /\ tab'.page = tab.page
      /\ tab'.copying = tab.copying /\ tab.def.edits \subseteq tab'.def.edits
  <2>1. CASE Edit
    BY <2>1, TabTyped DEF Edit, EInv, Tabs, Drafts
  <2>2. CASE \E app \in Apps : SetApp(app)
    BY <2>2, TabTyped DEF SetApp, EInv, Tabs, Drafts
  <2> QED
    BY <2>1, <2>2
<1>2. Named' /\ Held' /\ Theirs' /\ (Writing("tab")' <=> Writing("tab")) /\ (Updating' <=> Updating)
  BY <1>1 DEF EInv, Named, Held, Kept, Theirs, Writing, Updating
<1>3. Sent' /\ SentWhole' /\ SentNamed' /\ SentFrom' /\ SentShown'
  BY <1>1, <1>2 DEF EInv, InFlight, Sent, SentWhole, SentNamed, SentFrom, SentShown, Kept, Shown, InBuilder
<1> QED
  BY <1>2, <1>3 DEF EInv, InFlight

LEMMA ReadEdits ==
    ASSUME EInv, TInv', NEW d \in Ids, Read(d)
    PROVE  EInv'
<1>1. /\ UNCHANGED <<row, req, tab, restored, src>> /\ fetch[d].at = "sent"
      /\ \A e \in Ids \ {d} : fetch'[e] = fetch[e]
  BY DEF Read, EInv, TInv, TabTypes
<1>2. Named' /\ Held' /\ Theirs' /\ (Writing("tab")' <=> Writing("tab")) /\ (Updating' <=> Updating)
  BY <1>1 DEF EInv, Named, Held, Kept, Theirs, Writing, Updating
<1>3. Sent' /\ SentWhole' /\ SentNamed' /\ SentFrom'
  BY <1>1, <1>2 DEF EInv, InFlight, Sent, SentWhole, SentNamed, SentFrom, Kept, Shown, InBuilder
<1>4. SentShown'
  BY <1>1, <1>2, TabTyped DEF EInv, InFlight, SentShown
<1> QED
  BY <1>2, <1>3, <1>4 DEF EInv, InFlight

(* An answer comes: it has what is kept, and what the tab shows, or it was *)
(* overtaken.                                                              *)
LEMMA ReceiveEdits ==
    ASSUME EInv, TInv', NEW d \in Ids, Receive(d)
    PROVE  EInv'
<1>1. /\ UNCHANGED <<row, req, restored>> /\ fetch[d].at = "read"
      /\ fetch'[d].at = "none" /\ \A e \in Ids \ {d} : fetch'[e] = fetch[e]
  BY DEF Receive, EInv, TInv, TabTypes, NoFetch
<1>2. Theirs' /\ (Writing("tab")' <=> Writing("tab")) /\ (Updating' <=> Updating)
  BY <1>1 DEF EInv, Theirs, Writing, Updating
<1>3. CASE InBuilder /\ Shown = d
  <2>1. /\ tab' = [tab EXCEPT !.id = IF tab.copying THEN None ELSE d, !.def = fetch[d].def]
        /\ src' = IF row[d].def.edits \cup (IF tab.id = d THEN tab.def.edits ELSE {})
                     \subseteq fetch[d].def.edits THEN "read" ELSE "late"
    BY <1>3 DEF Receive, Loaded
  <2>2. /\ tab'.id = IF tab.copying THEN None ELSE d
        /\ tab'.def = fetch[d].def /\ tab'.url = d /\ tab'.page = tab.page
        /\ tab'.copying = tab.copying
    BY <1>3, <2>1, TabTyped DEF EInv, Tabs, Shown
  <2>3. Named' /\ Held'
    BY <1>1, <2>1, <2>2 DEF Named, Held, Kept
  <2>4. Sent' /\ SentWhole' /\ SentNamed' /\ SentFrom'
    BY <1>1, <1>2, <1>3, <2>2 DEF EInv, InFlight, Sent, SentWhole, SentNamed, SentFrom, Kept, Shown, InBuilder
  <2>5. SentShown'
    <3> SUFFICES ASSUME Updating, req["tab"].id = d, src' = "read"
                 PROVE  req["tab"].body.def.edits \subseteq tab'.def.edits
      BY <1>1, <1>2, <2>1, <2>2, TabTyped DEF EInv, InFlight, SentNamed, SentShown
    <3>1. tab.id = d
      BY <1>3 DEF EInv, InFlight, SentFrom
    <3>2. req["tab"].body.def.edits \subseteq tab.def.edits
      BY <1>1, <3>1 DEF EInv, InFlight, SentShown
    <3> QED
      BY <2>1, <2>2, <3>1, <3>2
  <2> QED
    BY <1>2, <2>3, <2>4, <2>5 DEF EInv, InFlight
<1>4. CASE ~(InBuilder /\ Shown = d)
  <2>1. UNCHANGED <<tab, src>>
    BY <1>4 DEF Receive
  <2>2. Named' /\ Held' /\ Sent' /\ SentWhole' /\ SentNamed' /\ SentFrom'
    BY <1>1, <1>2, <2>1 DEF EInv, InFlight, Named, Held, Sent, SentWhole, SentNamed, SentFrom, Kept, Shown, InBuilder
  <2>3. SentShown'
    BY <1>1, <1>2, <2>1, TabTyped DEF EInv, InFlight, SentShown
  <2> QED
    BY <1>2, <2>2, <2>3 DEF EInv, InFlight
<1> QED
  BY <1>3, <1>4

LEMMA InitEInv == Init => EInv
<1> SUFFICES ASSUME Init PROVE EInv
  OBVIOUS
<1>1. tab.id = None /\ \A c \in Clients : ~Writing(c)
  BY DEF Init, EmptyTab, Writing
<1> QED
  BY <1>1, InitTInv, Constants
     DEF EInv, Named, Held, InFlight, Sent, SentWhole, SentNamed, SentFrom, SentShown, Theirs, Updating

LEMMA NextEInv == EInv /\ [Next]_vars => EInv'
<1> SUFFICES ASSUME EInv, [Next]_vars PROVE EInv'
  OBVIOUS
<1>1. TInv'
  BY NextTInv DEF EInv
<1>2. CASE Server
  BY <1>1, <1>2, ClearEdits, CommitEdits, ReadEdits DEF Server
<1>3. CASE Other
  BY <1>1, <1>3, OtherEdits
<1>4. CASE Browser
  <2>1. ASSUME NEW d \in Ids, Open(d) \/ Receive(d) \/ Delete(d) PROVE EInv'
    BY <1>1, <2>1, OpenEdits, ReceiveEdits, DeleteEdits
  <2>2. ASSUME NEW d \in Ids, Age(d) PROVE EInv'
    <3>1. UNCHANGED <<row, req, tab, src, fetch, restored>>
      BY <2>2 DEF Age
    <3> QED
      BY <1>1, <3>1, SteadyEdits DEF Kept, Writing, EInv, Theirs
  <2>3. CASE (\E d \in Ids, copying \in BOOLEAN : Reload(d, copying)) \/ New
    BY <1>1, <2>3, ReloadEdits
  <2>4. CASE Edit \/ \E app \in Apps : SetApp(app)
    BY <1>1, <2>4, TypingEdits
  <2>5. CASE Save \/ SaveAs \/ SaveAnswered \/ Leave
    BY <1>1, <2>5, SaveEdits, SaveAsEdits, AnsweredEdits, LeaveEdits
  <2> QED
    BY <1>4, <2>1, <2>2, <2>3, <2>4, <2>5 DEF Browser
<1>5. CASE UNCHANGED vars
  <2>1. UNCHANGED <<row, req, tab, src, fetch, restored>>
    BY <1>5 DEF vars
  <2> QED
    BY <1>1, <2>1, SteadyEdits DEF Kept, Writing, EInv, Theirs
<1> QED
  BY <1>2, <1>3, <1>4, <1>5 DEF Next

(* A step that takes out of a dashboard an edit that is kept in it is the  *)
(* commit of another client, or of a save whose copy came from the cache   *)
(* or from a read that was overtaken: whatever the tab opens, copies,      *)
(* edits and is answered meanwhile, a save of what it has read, and not    *)
(* lost since, undoes no edit.                                             *)
THEOREM UndoneEditsHaveCause == Spec => SavedEditsUndoneNeedCause
<1> DEFINE Caused(d) == \E c \in Clients : /\ Writing(c) /\ req[c].id = d
                                           /\ req[c].body.src \in {"cache", "late", "other"}
           Undone(d) == Exists(d) /\ ~(Kept(d) \subseteq row'[d].def.edits)
<1>1. ASSUME EInv, [Next]_vars, NEW d \in Ids, Undone(d) PROVE Caused(d)
  <2>1. ASSUME row'[d].def = row[d].def PROVE FALSE
    BY <1>1, <2>1 DEF Kept
  <2>2. PICK c \in Clients : Commit(c) \/ Archive(c)
    <3>1. CASE Server
      BY <2>1, <3>1 DEF Server, ClearDefault, Read
    <3>2. CASE Browser
      BY <2>1, <3>2
         DEF Browser, Open, Receive, Delete, Age, Reload, New, Edit, SetApp, Save, SaveAs, SaveAnswered, Leave
    <3>3. CASE Other
      BY <2>1, <3>3 DEF Other, OtherUpdates, OtherCreates
    <3>4. CASE UNCHANGED vars
      BY <2>1, <3>4 DEF vars
    <3> QED
      BY <1>1, <3>1, <3>2, <3>3, <3>4 DEF Next
  <2>3. CASE Archive(c)
    BY <1>1, <2>1, <2>3 DEF Archive, EInv, TInv, ServerTypes, RowType
  <2>4. CASE Commit(c)
    <3>1. /\ Writing(c) /\ req[c] \in Reqs /\ row'[req[c].id] = Written(c)
          /\ \A e \in Ids \ {req[c].id} : row'[e].def = row[e].def
      BY <1>1, <2>4, CommitRow DEF EInv
    <3>2. req[c].id = d
      BY <2>1, <3>1
    <3>3. CASE c \in Others
      BY <1>1, <3>1, <3>2, <3>3 DEF EInv, Theirs
    <3>4. CASE c = "tab"
      <4>1. req["tab"].op # "create"
        BY <1>1, <3>1, <3>2, <3>4 DEF EInv, TInv, ServerBorn, Secret, Creating
      <4>2. Updating
        BY <3>1, <3>4, <4>1 DEF Updating, Writing, Reqs
      <4>3. Written("tab").def \in {req["tab"].body.def, row[d].def}
        BY <3>2, <3>4 DEF Written, Net
      <4>4. req["tab"].body.src # "read"
        BY <1>1, <2>1, <3>1, <3>2, <3>4, <4>2, <4>3 DEF EInv, InFlight, SentWhole
      <4>5. req["tab"].body.src \in {"cache", "late"}
        BY <1>1, <3>1, <3>4, <4>2, <4>4
           DEF EInv, TInv, ServerTypes, InFlight, Sent, SentNamed, Bodies, Sources
      <4> QED
        BY <3>1, <3>2, <3>4, <4>5
    <3> QED
      BY <3>3, <3>4 DEF Clients
  <2> QED
    BY <2>2, <2>3, <2>4
<1>2. EInv /\ [Next]_vars => [\A d \in Ids : Undone(d) => Caused(d)]_vars
  BY <1>1
<1>3. [\A d \in Ids : Undone(d) => Caused(d)]_vars <=>
      [\A d \in Ids : Exists(d) /\ ~(row[d].def.edits \ restored \subseteq row'[d].def.edits) =>
          \E c \in Clients : /\ Writing(c) /\ req[c].id = d
                             /\ req[c].body.src \in {"cache", "late", "other"}]_vars
  BY DEF Kept
<1> QED
  BY <1>2, <1>3, InitEInv, NextEInv, PTL DEF Spec, SavedEditsUndoneNeedCause

-----------------------------------------------------------------------------
(* What a preview shows (DashboardView).                                   *)


Windows == [from : Int, to : Int]

(* ---------------------------- Time ranges ------------------------------ *)

LEMMA UnitsAreDays ==
    ASSUME NEW p \in {"daily", "weekly", "monthly", "quarterly", "yearly"}
    PROVE  UnitDays[p] \in Nat
BY DEF UnitDays

LEMMA ResolveTyped ==
    ASSUME NEW range \in TimeRange, NEW day \in Int
    PROVE  Resolve(range, day) \in Windows \cup {Nothing}
<1>1. CASE ~Applies(range)
  <2>1. range.preset = "all_time" /\ range.preset # "custom"
    BY <1>1 DEF Applies
  <2> QED
    BY <1>1, <2>1 DEF Resolve
<1>2. CASE Applies(range) /\ range.preset = "custom"
  <2>1. CASE Nothing \in {range.start, range.end}
    BY <1>2, <2>1 DEF Resolve
  <2>2. CASE ~(Nothing \in {range.start, range.end})
    <3>1. range.start \in Int /\ range.end \in Int
      BY <2>2 DEF TimeRange
    <3>2. Resolve(range, day) = Window(range.start, range.end)
      BY <1>2, <2>2 DEF Resolve
    <3> QED
      BY <3>1, <3>2 DEF Window, Windows
  <2> QED
    BY <2>1, <2>2
<1>3. CASE Applies(range) /\ range.preset # "custom"
  <2>1. UnitDays[range.preset] \in Nat /\ range.periods \in Nat
    BY <1>3, UnitsAreDays DEF TimeRange, Applies
  <2>2. PICK unit \in Nat, span \in Int : /\ unit = UnitDays[range.preset]
                                         /\ span = UnitDays[range.preset] * range.periods
    BY <2>1
  <2>3. \/ Resolve(range, day) = Window(day - (unit - 1), day)
        \/ Resolve(range, day) = Window(day - span - (span - 1), day - span)
        \/ Resolve(range, day) = Window(day - (span - 1), day)
    BY <1>3, <2>2 DEF Resolve, TimeRange
  <2>4. /\ Window(day - (unit - 1), day) \in Windows
        /\ Window(day - span - (span - 1), day - span) \in Windows
        /\ Window(day - (span - 1), day) \in Windows
    BY <2>2 DEF Window, Windows
  <2> QED
    BY <2>3, <2>4
<1> QED
  BY <1>1, <1>2, <1>3

(* The validator leaves a range one.                                       *)
LEMMA ValidatedTyped ==
    ASSUME NEW range \in TimeRange
    PROVE  Validated(range) \in TimeRange
<1>1. CASE range.preset = "custom" /\ range.start # Nothing /\ range.end # Nothing /\ range.end < range.start
  <2>1. Validated(range) = [range EXCEPT !.start = range.end, !.end = range.start]
    BY <1>1 DEF Validated
  <2> QED
    BY <2>1 DEF TimeRange
<1>2. CASE ~(range.preset = "custom" /\ range.start # Nothing /\ range.end # Nothing /\ range.end < range.start)
  BY <1>2 DEF Validated
<1> QED
  BY <1>1, <1>2

(* A window and the one before it are the two parts of one window.         *)
LEMMA SideBySide ==
    ASSUME NEW t \in Tables, NEW w \in Windows
    PROVE  /\ Before(w) \in Windows /\ Window(Before(w).from, w.to) \in Windows
           /\ Within(t, w) \cap Within(t, Before(w)) = {}
           /\ Within(t, w) \cup Within(t, Before(w)) = Within(t, Window(Before(w).from, w.to))
<1>1. w.from \in Int /\ w.to \in Int /\ \A r \in Rows : Dated[t][r] \in Int \cup {Nothing}
  BY BoardsAssumption DEF Windows
<1>2. PICK f \in Int, u \in Int : w.from = f /\ w.to = u
  BY <1>1
<1>3. /\ Before(w).from = f - (u - f + 1) /\ Before(w).to = f - 1
      /\ Before(w) \in Windows /\ Window(Before(w).from, w.to) \in Windows
      /\ Window(Before(w).from, w.to).from = f - (u - f + 1) /\ Window(Before(w).from, w.to).to = u
  BY <1>2 DEF Before, Window, Windows
<1>4. ASSUME NEW d \in Int \cup {Nothing}
      PROVE  /\ ~(d \in f .. u /\ d \in f - (u - f + 1) .. f - 1)
             /\ d \in f .. u \/ d \in f - (u - f + 1) .. f - 1 <=> d \in f - (u - f + 1) .. u
  BY BoardsAssumption
<1>5. \A r \in Rows : /\ r \in Within(t, w) <=> Dated[t][r] \in f .. u
                      /\ r \in Within(t, Before(w)) <=> Dated[t][r] \in f - (u - f + 1) .. f - 1
                      /\ r \in Within(t, Window(Before(w).from, w.to)) <=> Dated[t][r] \in f - (u - f + 1) .. u
  BY <1>2, <1>3 DEF Within
<1>6. \A v : Within(t, v) \subseteq Rows
  BY DEF Within
<1> QED
  BY <1>1, <1>3, <1>4, <1>5, <1>6

(* --------------------------- Conditions -------------------------------- *)

(* What a group lets through once a dashboard has added to it.             *)
LEMMA CombinedRows ==
    ASSUME NEW own \in FilterGroup, NEW extra \in SUBSET SUBSET Rows, extra # {}
    PROVE  Passing(Combine(own, extra)) =
               {r \in Rows : (\A c \in own.children : r \in c) /\ (\A c \in extra : r \in c)}
<1>1. Combine(own, extra) = [op |-> "and", children |-> own.children \cup extra]
  BY DEF Combine
<1>2. own.children \cup extra # {}
  OBVIOUS
<1> QED
  BY <1>1, <1>2 DEF Passing

LEMMA CombinedNarrows ==
    ASSUME NEW own \in FilterGroup, NEW extra \in SUBSET SUBSET Rows
    PROVE  /\ Passing(Combine(own, extra)) \subseteq Passing(own)
           /\ \A c \in extra : Passing(Combine(own, extra)) \subseteq c
<1>1. CASE extra = {}
  BY <1>1 DEF Combine
<1>2. CASE extra # {}
  <2>1. \A r \in Passing(Combine(own, extra)) :
            r \in Rows /\ (\A c \in own.children : r \in c) /\ (\A c \in extra : r \in c)
    BY <1>2, CombinedRows
  <2>2. own.op \in {"and", "or"}
    BY DEF FilterGroup
  <2> QED
    BY <2>1, <2>2 DEF Passing
<1> QED
  BY <1>1, <1>2

(* The conditions the dashboard adds to a card's.                          *)
CardConditions(b, card, day, window) ==
    FilterConditions(b, CardTables(b, card))
      \cup (IF card.ignores THEN {}
            ELSE DateConditions(DateField(b, card), IF window = Nothing THEN Resolve(b.range, day) ELSE window))

LEMMA MetricReportIs ==
    ASSUME NEW b, NEW card, NEW day, NEW window
    PROVE  MetricReport(b, card, day, window) = Combine(card.own, CardConditions(b, card, day, window))
BY DEF MetricReport, CardConditions

LEMMA ConditionsTyped ==
    ASSUME NEW b \in DashboardDefinition, NEW tables
    PROVE  FilterConditions(b, tables) \in SUBSET SUBSET Rows
<1>1. ASSUME NEW i \in DOMAIN b.filters PROVE b.filters[i].rows \in SUBSET Rows
  <2>1. b.filters[i] \in DashboardFilter
    BY DEF DashboardDefinition
  <2> QED
    BY <2>1 DEF DashboardFilter
<1> QED
  BY <1>1 DEF FilterConditions, Applied, Active

LEMMA DatesTyped ==
    ASSUME NEW field, NEW window
    PROVE  DateConditions(field, window) \in SUBSET SUBSET Rows
BY DEF DateConditions, Within

LEMMA CardConditionsTyped ==
    ASSUME NEW b \in DashboardDefinition, NEW card, NEW day, NEW window
    PROVE  CardConditions(b, card, day, window) \in SUBSET SUBSET Rows
BY ConditionsTyped, DatesTyped DEF CardConditions

LEMMA CardTyped ==
    ASSUME NEW b \in DashboardDefinition, NEW i \in DOMAIN b.cards
    PROVE  b.cards[i] \in MetricCard /\ b.cards[i].own \in FilterGroup /\ DateField(b, b.cards[i]) \in Tables \cup {Nothing}
<1>1. b.cards[i] \in MetricCard
  BY DEF DashboardDefinition
<1>2. b.range.field \in Tables \cup {Nothing}
  BY DEF DashboardDefinition, TimeRange
<1> QED
  BY <1>1, <1>2 DEF MetricCard, DateField

(* A filter with a value is applied to every card: its table is joined in. *)
LEMMA FiltersReachCards ==
    ASSUME NEW b \in DashboardDefinition, NEW card
    PROVE  Applied(b, CardTables(b, card)) = Active(b)
BY DEF Applied, CardTables, Active

(* What a card with a date counts over a window: what it would without,    *)
(* less the rows outside.                                                  *)
Core(b, card) == {r \in Rows : /\ \A c \in card.own.children : r \in c
                               /\ \A c \in FilterConditions(b, CardTables(b, card)) : r \in c}

LEMMA CardOverWindow ==
    ASSUME NEW b \in DashboardDefinition, NEW card, NEW day, NEW w \in Windows,
           card.own \in FilterGroup, ~card.ignores, DateField(b, card) # Nothing
    PROVE  Passing(MetricReport(b, card, day, w)) = Core(b, card) \cap Within(DateField(b, card), w)
<1>1. w # Nothing
  BY BoardsAssumption DEF Windows
<1>2. CardConditions(b, card, day, w) =
          FilterConditions(b, CardTables(b, card)) \cup {Within(DateField(b, card), w)}
  BY <1>1 DEF CardConditions, DateConditions
<1>3. CardConditions(b, card, day, w) \in SUBSET SUBSET Rows
  BY CardConditionsTyped
<1>4. CardConditions(b, card, day, w) # {}
  BY <1>2
<1>5. Passing(MetricReport(b, card, day, w)) =
          {r \in Rows : /\ \A c \in card.own.children : r \in c
                        /\ \A c \in CardConditions(b, card, day, w) : r \in c}
  BY <1>3, <1>4, CombinedRows, MetricReportIs
<1> QED
  BY <1>2, <1>5 DEF Core

(* -------------------------- The invariant ------------------------------ *)

Entries ==
    [caption : {"all", "range", "failed", "previous", "total"}, window : Windows \cup {Nothing},
     applied : SUBSET Nat, notApplicable : SUBSET Nat, counted : SUBSET Rows, among : SUBSET Rows,
     base : SUBSET Rows, baseAmong : SUBSET Rows]

(* The comparison's card: Whole, of any card.                              *)
WholeOf(card) == [card EXCEPT !.own = [op |-> "and", children |-> {}], !.ignores = TRUE]

(* An entry is of the rows there were when it was measured, by the date    *)
(* the preview began on.                                                   *)
Measured(card, e) ==
    e.caption # "failed" =>
        /\ e.window = IF card.ignores THEN Nothing ELSE Resolve(board.range, now)
        /\ e.applied = Applied(board, CardTables(board, card))
        /\ e.counted = e.among \cap Passing(MetricReport(board, card, now, e.window))
ComparedTo(card, e) ==
    /\ e.caption = "previous" =>
           /\ Resolve(board.range, now) # Nothing
           /\ e.base = e.baseAmong \cap
                  Passing(MetricReport(board, card, now, Before(Resolve(board.range, now))))
    /\ e.caption = "total" =>
           e.base = e.baseAmong \cap Passing(MetricReport(board, WholeOf(card), now, Nothing))
Told(i) == Measured(CardOf(i), cards[i]) /\ ComparedTo(CardOf(i), cards[i])

Typed ==
    /\ board \in DashboardDefinition /\ today \in Int /\ live \in SUBSET Rows
    /\ step \in {"idle", "measure", "compare", "sent"}
    /\ cards \in Seq(Entries)

(* There is a card for every entry, and one to measure or to compare where *)
(* that is the next step.                                                  *)
Progress ==
    /\ Len(cards) =< Len(board.cards)
    /\ step # "idle" => now \in Int
    /\ step = "idle" => cards = <<>>
    /\ step = "measure" => Len(cards) < Len(board.cards)
    /\ step = "compare" =>
           /\ cards # <<>> /\ cards[Len(cards)].caption \in {"all", "range"}
           /\ Compared.comparison = "previous_period" => Previous(board.range, now) # Nothing

PanelShows ==
    panel # Nothing =>
        /\ board.panel \in DashboardReport /\ panel.day \in Int /\ panel.among \in SUBSET Rows
        /\ panel.rows = panel.among \cap Passing(AppliedReport(board, panel.day))
        /\ panel.applied = IF board.panel.ignoresFilters THEN {} ELSE Applied(board, board.report.tables)
        /\ panel.notApplicable = IF board.panel.ignoresFilters THEN {}
                                 ELSE NotApplicable(board, board.report.tables)
        /\ panel.timeRangeApplied = TimeRangeApplied(board)

ViewInv == Typed /\ Progress /\ (\A i \in DOMAIN cards : Told(i)) /\ PanelShows

LEMMA InitViewInv == ViewInit => ViewInv
<1> SUFFICES ASSUME ViewInit PROVE ViewInv
  OBVIOUS
<1>1. board \in DashboardDefinition
  <2>1. PICK b \in Boards : board = [b EXCEPT !.range = Validated(b.range)]
    BY DEF ViewInit
  <2>2. b \in DashboardDefinition
    BY BoardsAssumption
  <2>3. Validated(b.range) \in TimeRange
    BY <2>2, ValidatedTyped DEF DashboardDefinition
  <2> HIDE DEF ViewInit
  <2> QED
    BY <2>1, <2>2, <2>3 DEF DashboardDefinition
<1>2. Typed
  BY <1>1, BoardsAssumption DEF ViewInit, Typed
<1>3. board.cards \in Seq(MetricCard)
  BY <1>1 DEF DashboardDefinition
<1>4. Progress
  BY <1>3 DEF ViewInit, Progress
<1> QED
  BY <1>2, <1>4 DEF ViewInit, ViewInv, PanelShows

(* What is known of the entries stays so while the definition, the date of *)
(* the preview and the entries do.                                         *)
LEMMA SameEntries ==
    ASSUME ViewInv, UNCHANGED <<board, now, cards, step>>, today' \in Int, live' \in SUBSET Rows, PanelShows'
    PROVE  ViewInv'
<1>1. Typed'
  BY DEF ViewInv, Typed
<1>2. Progress'
  BY DEF ViewInv, Progress, Compared
<1>3. \A i \in DOMAIN cards' : Told(i)'
  BY DEF ViewInv, Told, Measured, ComparedTo, CardOf
<1> QED
  BY <1>1, <1>2, <1>3 DEF ViewInv

LEMMA SamePanel ==
    ASSUME ViewInv, UNCHANGED <<board, panel>>
    PROVE  PanelShows'
BY DEF ViewInv, PanelShows

LEMMA BusinessStep ==
    ASSUME ViewInv, Business \/ Midnight \/ RunPanel \/ UNCHANGED viewVars
    PROVE  ViewInv'
<1>1. /\ today \in Int /\ live \in SUBSET Rows /\ board \in DashboardDefinition
  BY DEF ViewInv, Typed
<1>2. CASE Business
  <2>1. live' \in SUBSET Rows
    BY <1>1, <1>2 DEF Business
  <2> QED
    BY <1>1, <1>2, <2>1, SameEntries, SamePanel DEF Business
<1>3. CASE Midnight
  BY <1>1, <1>3, SameEntries, SamePanel DEF Midnight
<1>4. CASE RunPanel
  <2>1. board.panel \in DashboardReport
    BY <1>1, <1>4 DEF RunPanel, DashboardDefinition
  <2>2. PanelShows'
    BY <1>1, <1>4, <2>1 DEF RunPanel, PanelShows
  <2> QED
    BY <1>1, <1>4, <2>2, SameEntries DEF RunPanel
<1>5. CASE UNCHANGED viewVars
  BY <1>1, <1>5, SameEntries, SamePanel DEF viewVars
<1> QED
  BY <1>2, <1>3, <1>4, <1>5

LEMMA StartStep ==
    ASSUME ViewInv, StartPreview
    PROVE  ViewInv'
<1>1. /\ today \in Int /\ live \in SUBSET Rows /\ board \in DashboardDefinition
      /\ cards' = <<>> /\ step' = "measure" /\ now' = today /\ board.cards # <<>>
      /\ UNCHANGED <<board, today, live, panel>>
  BY DEF ViewInv, Typed, StartPreview
<1>2. board.cards \in Seq(MetricCard) /\ Len(board.cards) > 0
  BY <1>1 DEF DashboardDefinition
<1>3. Typed' /\ Progress'
  BY <1>1, <1>2 DEF Typed, Progress
<1> QED
  BY <1>1, <1>3, SamePanel DEF ViewInv

(* The entry of the card that is due.                                      *)
LEMMA Pushed ==
    ASSUME ViewInv, step = "measure", UNCHANGED <<board, today, live, now, panel>>,
           NEW e \in Entries, cards' = Append(cards, e), Measured(Due, e),
           e.caption \in {"all", "range", "failed"},
           \/ step' = IF Len(cards) + 1 = Len(board.cards) THEN "sent" ELSE "measure"
           \/ /\ step' = "compare" /\ e.caption # "failed"
              /\ Due.comparison = "previous_period" => Previous(board.range, now) # Nothing
    PROVE  ViewInv'
<1>1. /\ Typed /\ cards \in Seq(Entries) /\ board \in DashboardDefinition /\ now \in Int
      /\ Len(cards) \in Nat /\ Len(cards) < Len(board.cards)
  BY DEF ViewInv, Typed, Progress
<1>2. board.cards \in Seq(MetricCard) /\ Len(board.cards) \in Nat
  BY <1>1 DEF DashboardDefinition
<1>3. /\ cards' \in Seq(Entries) /\ Len(cards') = Len(cards) + 1 /\ cards' # <<>>
      /\ cards'[Len(cards')] = e /\ \A i \in DOMAIN cards : cards'[i] = cards[i]
      /\ DOMAIN cards' = DOMAIN cards \cup {Len(cards) + 1}
  BY <1>1
<1>4. Typed'
  BY <1>1, <1>3 DEF Typed
<1>5. Due = CardOf(Len(cards) + 1) /\ Compared' = Due
  BY <1>3 DEF Due, CardOf, Compared
<1>6. Progress'
  BY <1>1, <1>2, <1>3, <1>5 DEF Progress
<1>7. ASSUME NEW i \in DOMAIN cards' PROVE Told(i)'
  <2>1. CASE i \in DOMAIN cards
    BY <1>3, <2>1 DEF ViewInv, Told, Measured, ComparedTo, CardOf
  <2>2. CASE i = Len(cards) + 1
    BY <1>3, <1>5, <2>2 DEF Told, Measured, ComparedTo, CardOf
  <2> QED
    BY <1>3, <2>1, <2>2
<1> QED
  BY <1>4, <1>6, <1>7, SamePanel DEF ViewInv

LEMMA FilterNumbers ==
    ASSUME NEW b \in DashboardDefinition, NEW tables
    PROVE  Applied(b, tables) \in SUBSET Nat /\ NotApplicable(b, tables) \in SUBSET Nat
BY DEF Applied, NotApplicable, Active, DashboardDefinition

(* A window that is stated is the one the card is measured over.           *)
LEMMA EntryIsMeasured ==
    ASSUME ViewInv, step = "measure"
    PROVE  /\ Entry \in Entries /\ Measured(Due, Entry) /\ Entry.caption \in {"all", "range"}
           /\ Applied(board, CardTables(board, Due)) \in SUBSET Nat
<1>1. board \in DashboardDefinition /\ now \in Int /\ live \in SUBSET Rows /\ board.range \in TimeRange
  BY DEF ViewInv, Typed, Progress, DashboardDefinition
<1>2. Stated \in Windows \cup {Nothing}
  BY <1>1, ResolveTyped DEF Stated
<1>3. /\ Applied(board, CardTables(board, Due)) \in SUBSET Nat
      /\ NotApplicable(board, CardTables(board, Due)) \in SUBSET Nat
  BY <1>1, FilterNumbers
<1>4. Measure(Due, Stated) \in SUBSET Rows
  BY <1>1 DEF Measure
<1>5. Entry \in Entries /\ Entry.caption \in {"all", "range"}
  BY <1>1, <1>2, <1>3, <1>4 DEF Entry, Entries
<1>6. Measured(Due, Entry)
  BY DEF Measured, Entry, Measure, Stated
<1> QED
  BY <1>3, <1>5, <1>6

LEMMA MetricStep ==
    ASSUME ViewInv, RunMetric \/ MetricFails
    PROVE  ViewInv'
<1>1. step = "measure" /\ UNCHANGED <<board, today, live, now, panel>>
  BY DEF RunMetric, MetricFails
<1>2. /\ Entry \in Entries /\ Measured(Due, Entry) /\ Entry.caption \in {"all", "range"}
  BY <1>1, EntryIsMeasured
<1>3. CASE RunMetric
  <2>1. CASE \/ Due.comparison = "previous_period" /\ Previous(board.range, now) # Nothing
             \/ Due.comparison = "share_of_total"
    <3>1. cards' = Append(cards, Entry) /\ step' = "compare"
      BY <1>3, <2>1 DEF RunMetric
    <3>2. Due.comparison = "previous_period" => Previous(board.range, now) # Nothing
      BY <2>1
    <3>3. Entry.caption # "failed" /\ Entry.caption \in {"all", "range", "failed"}
      BY <1>2
    <3> QED
      BY <1>1, <1>2, <3>1, <3>2, <3>3, Pushed
  <2>2. CASE ~(\/ Due.comparison = "previous_period" /\ Previous(board.range, now) # Nothing
               \/ Due.comparison = "share_of_total")
    <3>1. Push(Entry) /\ Entry.caption \in {"all", "range", "failed"}
      BY <1>2, <1>3, <2>2 DEF RunMetric
    <3> QED
      BY <1>1, <1>2, <3>1, Pushed DEF Push
  <2> QED
    BY <2>1, <2>2
<1>4. CASE MetricFails
  <2>1. PICK e \in {[Entry EXCEPT !.caption = "failed", !.counted = {}],
                    [Entry EXCEPT !.caption = "failed", !.counted = {}, !.window = Nothing,
                                  !.applied = {}, !.notApplicable = {}]} : Push(e)
    BY <1>4 DEF MetricFails
  <2>2. e \in Entries /\ e.caption = "failed"
    BY <1>2, <2>1 DEF Entries
  <2>3. Measured(Due, e) /\ e.caption \in {"all", "range", "failed"}
    BY <2>2 DEF Measured
  <2> QED
    BY <1>1, <2>1, <2>2, <2>3, Pushed DEF Push
<1> QED
  BY <1>3, <1>4

(* A comparison is filed with the card it is of.                           *)
LEMMA StepPushed ==
    ASSUME ViewInv, step = "compare", NEW base, NEW caption, Compare(base, caption),
           base \in SUBSET Rows, caption \in {cards[Len(cards)].caption, "previous", "total"},
           caption = "previous" =>
               /\ Resolve(board.range, now) # Nothing
               /\ base = Measure(Compared, Before(Resolve(board.range, now))),
           caption = "total" => base = Measure(WholeOf(Compared), Nothing)
    PROVE  ViewInv'
<1> DEFINE n == Len(cards)
           old == cards[Len(cards)]
           e == [cards[Len(cards)] EXCEPT !.base = base, !.baseAmong = live, !.caption = caption]
<1>1. /\ cards \in Seq(Entries) /\ board \in DashboardDefinition /\ now \in Int /\ live \in SUBSET Rows
      /\ n \in Nat /\ n =< Len(board.cards) /\ cards # <<>>
      /\ UNCHANGED <<board, today, live, now, panel>>
      /\ old.caption \in {"all", "range"}
  BY DEF ViewInv, Typed, Progress, Compare
<1>2. n \in DOMAIN cards /\ old \in Entries
  BY <1>1
<1>3. cards' = [cards EXCEPT ![n] = e]
  BY <1>1, <1>2 DEF Compare
<1>4. /\ e \in Entries /\ e.base = base /\ e.baseAmong = live /\ e.caption = caption
      /\ e.window = old.window /\ e.applied = old.applied /\ e.counted = old.counted /\ e.among = old.among
  BY <1>1, <1>2 DEF Entries
<1>5. step' = IF n = Len(board.cards) THEN "sent" ELSE "measure"
  BY DEF Compare
<1>6. Compared = CardOf(n) /\ Told(n)
  BY <1>2 DEF Compared, CardOf, ViewInv
<1> HIDE DEF n, old, e
<1>7. cards' \in Seq(Entries) /\ Len(cards') = n /\ DOMAIN cards' = DOMAIN cards /\ cards' # <<>>
  BY <1>1, <1>2, <1>3, <1>4 DEF n
<1>8. cards'[n] = e /\ \A i \in DOMAIN cards \ {n} : cards'[i] = cards[i]
  BY <1>1, <1>2, <1>3
<1>9. Typed'
  BY <1>1, <1>5, <1>7 DEF ViewInv, Typed
<1>10. board.cards \in Seq(MetricCard) /\ Len(board.cards) \in Nat
  BY <1>1 DEF DashboardDefinition
<1>11. Progress'
  BY <1>1, <1>5, <1>7, <1>10 DEF Progress
<1>12. Measured(CardOf(n), e)
  BY <1>1, <1>4, <1>6 DEF Told, Measured, old, n
<1>13. ComparedTo(CardOf(n), e)
  BY <1>1, <1>4, <1>6 DEF ComparedTo, Measure, old
<1>14. ASSUME NEW i \in DOMAIN cards' PROVE Told(i)'
  <2>1. CASE i = n
    BY <1>1, <1>8, <1>12, <1>13, <2>1 DEF Told, Measured, ComparedTo, CardOf
  <2>2. CASE i # n
    BY <1>1, <1>7, <1>8, <2>2 DEF ViewInv, Told, Measured, ComparedTo, CardOf
  <2> QED
    BY <2>1, <2>2
<1> QED
  BY <1>1, <1>9, <1>11, <1>14, SamePanel DEF ViewInv

LEMMA ComparisonStep ==
    ASSUME ViewInv, step = "compare", RunComparison \/ RunTotal \/ ComparisonFails
    PROVE  ViewInv'
<1>1. /\ board \in DashboardDefinition /\ now \in Int /\ live \in SUBSET Rows
      /\ cards[Len(cards)].caption \in {"all", "range"}
  BY DEF ViewInv, Typed, Progress
<1>2. \A item, window : Measure(item, window) \in SUBSET Rows
  BY <1>1 DEF Measure
<1>3. CASE RunComparison
  <2>1. Previous(board.range, now) # Nothing
    BY <1>3 DEF RunComparison, ViewInv, Progress
  <2>2. Resolve(board.range, now) # Nothing /\ Previous(board.range, now) = Before(Resolve(board.range, now))
    BY <2>1 DEF Previous
  <2>3. Compare(Measure(Compared, Before(Resolve(board.range, now))), "previous")
    BY <1>3, <2>2 DEF RunComparison
  <2> QED
    BY <1>2, <2>2, <2>3, StepPushed
<1>4. CASE RunTotal
  <2>1. Whole = WholeOf(Compared)
    BY DEF Whole, WholeOf
  <2>2. PICK caption \in {cards[Len(cards)].caption, "total"} : Compare(Measure(WholeOf(Compared), Nothing), caption)
    BY <1>4, <2>1 DEF RunTotal
  <2>3. caption # "previous"
    BY <1>1, <2>2
  <2> QED
    BY <1>2, <2>2, <2>3, StepPushed
<1>5. CASE ComparisonFails
  <2>1. Compare({}, cards[Len(cards)].caption)
    BY <1>5 DEF ComparisonFails
  <2>2. cards[Len(cards)].caption \notin {"previous", "total"}
    BY <1>1
  <2> QED
    BY <2>1, <2>2, StepPushed
<1> QED
  BY <1>3, <1>4, <1>5

LEMMA NextViewInv == ViewInv /\ [ViewNext]_viewVars => ViewInv'
BY StartStep, MetricStep, ComparisonStep, BusinessStep DEF ViewNext

LEMMA ViewInvariant == ViewSpec => []ViewInv
BY InitViewInv, NextViewInv, PTL DEF ViewSpec

(* ----------------------------- Theorems -------------------------------- *)

LEMMA CardOfTyped ==
    ASSUME ViewInv, NEW i \in DOMAIN cards
    PROVE  /\ board \in DashboardDefinition /\ now \in Int /\ board.range \in TimeRange
           /\ cards[i] \in Entries /\ CardOf(i) \in MetricCard /\ CardOf(i).own \in FilterGroup
           /\ DateField(board, CardOf(i)) \in Tables \cup {Nothing}
           /\ Measured(CardOf(i), cards[i]) /\ ComparedTo(CardOf(i), cards[i])
<1>1. /\ board \in DashboardDefinition /\ cards \in Seq(Entries) /\ Len(cards) =< Len(board.cards)
      /\ cards # <<>> /\ now \in Int
  BY DEF ViewInv, Typed, Progress
<1>2. board.cards \in Seq(MetricCard) /\ i \in DOMAIN board.cards
  BY <1>1 DEF DashboardDefinition
<1>3. board.range \in TimeRange /\ cards[i] \in Entries
  BY <1>1 DEF DashboardDefinition
<1> QED
  BY <1>1, <1>2, <1>3, CardTyped DEF CardOf, ViewInv, Told

(* A number's delta is against the period that ends where its own begins   *)
(* and is as long, for any range, any dates and however many days end      *)
(* between the two queries of _run_metric.                                 *)
THEOREM ComparisonsAreWithThePeriodBefore == ViewSpec => []ComparedWithThePeriodBefore
<1>1. ASSUME ViewInv PROVE ComparedWithThePeriodBefore
  <2> SUFFICES ASSUME NEW i \in DOMAIN cards, cards[i].caption = "previous", cards[i].among = cards[i].baseAmong,
                      ~CardOf(i).ignores, DateField(board, CardOf(i)) # Nothing
               PROVE  /\ cards[i].counted \cap cards[i].base = {}
                      /\ cards[i].counted \cup cards[i].base =
                            cards[i].among \cap
                              Passing(MetricReport(board, CardOf(i), now,
                                                   Window(Before(cards[i].window).from, cards[i].window.to)))
    BY DEF ComparedWithThePeriodBefore
  <2> DEFINE e == cards[i]
             card == CardOf(i)
             field == DateField(board, card)
             both == Window(Before(e.window).from, e.window.to)
  <2>1. /\ board \in DashboardDefinition /\ field \in Tables /\ card.own \in FilterGroup
        /\ e.window = Resolve(board.range, now) /\ e.window \in Windows
        /\ e.counted = e.among \cap Passing(MetricReport(board, card, now, e.window))
        /\ e.base = e.among \cap Passing(MetricReport(board, card, now, Before(e.window)))
    BY <1>1, CardOfTyped, ResolveTyped DEF Measured, ComparedTo
  <2>2. e.window \in Windows /\ Before(e.window) \in Windows /\ both \in Windows
    BY <2>1, SideBySide
  <2>3. \A w \in Windows : Passing(MetricReport(board, card, now, w)) = Core(board, card) \cap Within(field, w)
    BY <2>1, CardOverWindow
  <2>4. /\ Within(field, e.window) \cap Within(field, Before(e.window)) = {}
        /\ Within(field, e.window) \cup Within(field, Before(e.window)) = Within(field, both)
    BY <2>1, SideBySide
  <2> HIDE DEF e, card, field, both
  <2>5. /\ e.counted = e.among \cap (Core(board, card) \cap Within(field, e.window))
        /\ e.base = e.among \cap (Core(board, card) \cap Within(field, Before(e.window)))
        /\ Passing(MetricReport(board, card, now, both)) = Core(board, card) \cap Within(field, both)
    BY <2>1, <2>2, <2>3
  <2>6. /\ e.counted \cap e.base = {}
        /\ e.counted \cup e.base = e.among \cap Passing(MetricReport(board, card, now, both))
    BY <2>4, <2>5
  <2> QED
    BY <2>6 DEF e, card, field, both
<1> QED
  BY <1>1, ViewInvariant, PTL

(* The rows behind a number are within the window and meet every filter    *)
(* its entry lists, and no filter with a value is left out in silence.     *)
THEOREM NumbersAreTrue == ViewSpec => []NumbersTellTheirTruth
<1>1. ASSUME ViewInv PROVE NumbersTellTheirTruth
  <2> SUFFICES ASSUME NEW i \in DOMAIN cards, cards[i].caption # "failed"
               PROVE  /\ cards[i].window # Nothing /\ DateField(board, CardOf(i)) # Nothing =>
                            cards[i].counted \subseteq Within(DateField(board, CardOf(i)), cards[i].window)
                      /\ cards[i].applied = Active(board)
                      /\ \A f \in Active(board) : cards[i].counted \subseteq board.filters[f].rows
    BY DEF NumbersTellTheirTruth
  <2> DEFINE e == cards[i]
             card == CardOf(i)
             conditions == CardConditions(board, card, now, e.window)
  <2>1. /\ board \in DashboardDefinition /\ card.own \in FilterGroup
        /\ e.window = (IF card.ignores THEN Nothing ELSE Resolve(board.range, now))
        /\ e.applied = Applied(board, CardTables(board, card))
        /\ e.counted \subseteq Passing(MetricReport(board, card, now, e.window))
    BY <1>1, CardOfTyped DEF Measured
  <2>2. Applied(board, CardTables(board, card)) = Active(board)
    BY <2>1, FiltersReachCards
  <2>3. \A c \in conditions : Passing(MetricReport(board, card, now, e.window)) \subseteq c
    BY <2>1, CardConditionsTyped, CombinedNarrows, MetricReportIs
  <2>4. \A f \in Active(board) : board.filters[f].rows \in conditions
    BY <2>2 DEF CardConditions, FilterConditions
  <2>5. e.window # Nothing /\ DateField(board, card) # Nothing => Within(DateField(board, card), e.window) \in conditions
    BY <2>1 DEF CardConditions, DateConditions
  <2> HIDE DEF e, card, conditions
  <2>6. /\ e.window # Nothing /\ DateField(board, card) # Nothing =>
               e.counted \subseteq Within(DateField(board, card), e.window)
        /\ e.applied = Active(board)
        /\ \A f \in Active(board) : e.counted \subseteq board.filters[f].rows
    BY <2>1, <2>2, <2>3, <2>4, <2>5
  <2> QED
    BY <2>6 DEF e, card
<1> QED
  BY <1>1, ViewInvariant, PTL

(* The total a share is of has the rows of the share, whatever filters     *)
(* apply and whatever conditions and window the card has of its own: the   *)
(* whole drops conditions, and adds none.                                  *)
THEOREM SharesAreParts == ViewSpec => []ShareIsPart
<1>1. ASSUME ViewInv PROVE ShareIsPart
  <2> SUFFICES ASSUME NEW i \in DOMAIN cards, cards[i].caption = "total"
               PROVE  cards[i].counted \cap cards[i].baseAmong \subseteq cards[i].base
    BY DEF ShareIsPart
  <2> DEFINE e == cards[i]
             card == CardOf(i)
             filters == FilterConditions(board, CardTables(board, card))
  <2>1. /\ board \in DashboardDefinition /\ card.own \in FilterGroup /\ card \in MetricCard
        /\ e.counted \subseteq Passing(MetricReport(board, card, now, e.window))
        /\ e.base = e.baseAmong \cap Passing(MetricReport(board, WholeOf(card), now, Nothing))
    BY <1>1, CardOfTyped DEF Measured, ComparedTo
  <2>2. /\ WholeOf(card).own = [op |-> "and", children |-> {}] /\ WholeOf(card).ignores
        /\ WholeOf(card).table = card.table /\ WholeOf(card).field = card.field
    BY <2>1 DEF WholeOf, MetricCard
  <2>3. CardTables(board, WholeOf(card)) = CardTables(board, card)
    BY <2>2 DEF CardTables, DateField
  <2>4. CardConditions(board, WholeOf(card), now, Nothing) = filters
    BY <2>2, <2>3 DEF CardConditions
  <2>5. /\ filters \in SUBSET SUBSET Rows /\ filters \subseteq CardConditions(board, card, now, e.window)
    BY <2>1, ConditionsTyped DEF CardConditions
  <2>6. \A c \in filters : Passing(MetricReport(board, card, now, e.window)) \subseteq c
    BY <2>1, <2>5, CardConditionsTyped, CombinedNarrows, MetricReportIs
  <2>7. Passing(MetricReport(board, card, now, e.window)) \subseteq Rows
    BY DEF Passing
  <2>8. Passing(MetricReport(board, WholeOf(card), now, Nothing)) = {r \in Rows : \A c \in filters : r \in c}
    <3>1. MetricReport(board, WholeOf(card), now, Nothing) = Combine([op |-> "and", children |-> {}], filters)
      BY <2>2, <2>4, MetricReportIs
    <3> HIDE DEF filters
    <3> QED
      BY <3>1 DEF Combine, Passing
  <2> HIDE DEF e, card, filters
  <2>9. e.counted \cap e.baseAmong \subseteq e.base
    BY <2>1, <2>6, <2>7, <2>8
  <2> QED
    BY <2>9 DEF e
<1> QED
  BY <1>1, ViewInvariant, PTL

(* A panel's rows are its report's, less those that the filters and the    *)
(* window it lists take away, but where a group joined by OR became one    *)
(* joined by AND; and every filter with a value is in one of its lists.    *)
THEOREM PanelsAccountForTheirRows == ViewSpec => []PanelAccountsForItsRows
<1>1. ASSUME ViewInv PROVE PanelAccountsForItsRows
  <2> SUFFICES ASSUME panel # Nothing
               PROVE  /\ panel.rows \subseteq Narrowed(panel)
                      /\ panel.rows # Narrowed(panel) =>
                             board.report.own.op = "or" /\ \E c, d \in board.report.own.children : c # d
                      /\ ~board.panel.ignoresFilters => panel.applied \cup panel.notApplicable = Active(board)
    BY DEF PanelAccountsForItsRows
  <2> DEFINE own == board.report.own
             window == Resolve(board.range, panel.day)
             field == DateField(board, board.panel)
             filters == IF board.panel.ignoresFilters THEN {} ELSE FilterConditions(board, board.report.tables)
             dates == IF board.panel.ignores \/ ~Reached(board) THEN {} ELSE DateConditions(field, window)
             extra == filters \cup dates
             Seen(r) == /\ \A f \in panel.applied : r \in board.filters[f].rows
                        /\ panel.timeRangeApplied /\ ~board.panel.ignores /\ window # Nothing => r \in Within(field, window)
  <2>1. /\ board \in DashboardDefinition /\ board.panel \in DashboardReport /\ panel.day \in Int
        /\ panel.rows = panel.among \cap Passing(AppliedReport(board, panel.day))
        /\ panel.applied = (IF board.panel.ignoresFilters THEN {} ELSE Applied(board, board.report.tables))
        /\ panel.notApplicable = (IF board.panel.ignoresFilters THEN {} ELSE NotApplicable(board, board.report.tables))
        /\ panel.timeRangeApplied = TimeRangeApplied(board)
    BY <1>1 DEF ViewInv, Typed, PanelShows
  <2>2. own \in FilterGroup
    BY <2>1 DEF DashboardDefinition
  <2>3. AppliedReport(board, panel.day) = Combine(own, extra)
    BY DEF AppliedReport
  <2>4. extra \in SUBSET SUBSET Rows
    BY <2>1, ConditionsTyped, DatesTyped
  <2>5. filters = {board.filters[f].rows : f \in panel.applied}
    BY <2>1 DEF FilterConditions
  <2>6. dates = IF panel.timeRangeApplied /\ ~board.panel.ignores /\ window # Nothing THEN {Within(field, window)} ELSE {}
    <3>1. CASE Applies(board.range)
      BY <2>1, <3>1 DEF TimeRangeApplied, Reached, DateConditions
    <3>2. CASE ~Applies(board.range)
      <4>1. window = Nothing
        <5>1. board.range.preset = "all_time"
          BY <3>2 DEF Applies
        <5> QED
          BY <3>2, <5>1 DEF Resolve
      <4> QED
        BY <4>1 DEF DateConditions
    <3> QED
      BY <3>1, <3>2
  <2>7. Narrowed(panel) = {r \in panel.among \cap Passing(own) : \A c \in extra : r \in c}
    <3>1. \A r : Seen(r) <=> \A c \in extra : r \in c
      <4>1. \A r : (\A c \in filters : r \in c) <=> (\A f \in panel.applied : r \in board.filters[f].rows)
        BY <2>5
      <4>2. \A r : (\A c \in dates : r \in c)
                      <=> (panel.timeRangeApplied /\ ~board.panel.ignores /\ window # Nothing => r \in Within(field, window))
        BY <2>6
      <4> HIDE DEF filters, dates, window, field
      <4> QED
        BY <4>1, <4>2
    <3>2. Narrowed(panel) = {r \in panel.among \cap Passing(own) : Seen(r)}
      BY DEF Narrowed
    <3> HIDE DEF Seen, extra
    <3> QED
      BY <3>1, <3>2
  <2> HIDE DEF own, window, field, filters, dates, extra, Seen
  <2>8. panel.rows \subseteq Narrowed(panel)
    BY <2>1, <2>2, <2>3, <2>4, <2>7, CombinedNarrows
  <2>9. ASSUME ~(own.op = "or" /\ \E c, d \in own.children : c # d)
        PROVE  Narrowed(panel) \subseteq panel.rows
    <3>1. CASE extra = {}
      BY <2>1, <2>3, <2>7, <3>1 DEF Combine
    <3>2. CASE extra # {}
      <4>1. Passing(Combine(own, extra)) =
                {r \in Rows : (\A c \in own.children : r \in c) /\ (\A c \in extra : r \in c)}
        BY <2>2, <2>4, <3>2, CombinedRows
      <4>2. \A r \in Passing(own) : r \in Rows /\ \A c \in own.children : r \in c
        <5>1. own.op \in {"and", "or"}
          BY <2>2 DEF FilterGroup
        <5> QED
          BY <2>9, <5>1 DEF Passing
      <4> QED
        BY <2>1, <2>3, <2>7, <4>1, <4>2
    <3> QED
      BY <3>1, <3>2
  <2>10. ~board.panel.ignoresFilters => panel.applied \cup panel.notApplicable = Active(board)
    BY <2>1 DEF NotApplicable, Applied
  <2> QED
    BY <2>8, <2>9, <2>10 DEF own
<1> QED
  BY <1>1, ViewInvariant, PTL

=============================================================================
