----------------------------- MODULE Dashboards -----------------------------
(***************************************************************************)
(* Saved dashboards: the routes of api/v1/dashboards.py that store them,   *)
(* one browser tab with the builder (dashboards/builder/page.tsx, its      *)
(* store store/dashboard.ts and the query cache of providers.tsx), and     *)
(* other clients of the same routes.                                       *)
(*                                                                         *)
(* A definition is the set of the edits it contains.  Names, descriptions  *)
(* and view counts are left out; who may change a dashboard is decided     *)
(* before anything here happens.                                           *)
(***************************************************************************)
EXTENDS Naturals, FiniteSets

CONSTANTS
    Ids,         \* dashboards; an id is never reused
    Others,      \* clients other than the tab
    Apps,        \* what a dashboard is filed under
    None,        \* an absent value
    MaxEdits,    \* bound: edits made in the tab
    MaxRequests  \* bound: requests that write

ASSUME DashboardsAssumption ==
    /\ IsFiniteSet(Ids) /\ "tab" \notin Others /\ None \notin Ids
    /\ MaxEdits \in Nat /\ MaxRequests \in Nat

VARIABLES
    row,       \* the committed rows
    req,       \* the writing request of each client and its transaction
    tab,       \* the builder's store, with the page and the id in its URL
    cache,     \* react-query's copies, each with whether it counts as fresh
    fetch,     \* reads on their way: none, sent, or what the server read
    edits,     \* number of the last edit
    requests,
    blame,     \* history: applications where two defaults have a cause
    src,       \* history: where the tab's copy is from
    restored   \* history: edits that other clients have put back

vars == <<row, req, tab, cache, fetch, edits, requests, blame, src, restored>>

Clients == {"tab"} \cup Others

NoFetch == [at |-> "none", def |-> None]

Exists(d) == row[d].life # "unborn"
Defaults(app) == {d \in Ids : Exists(d) /\ row[d].default /\ row[d].app = app}

-----------------------------------------------------------------------------
(* The routes.  update_dashboard reads the row, archived or not;            *)
(* create_dashboard makes one with an id of its own.  Either may then      *)
(* clear the other defaults, and commits.  A request is sent and begun in  *)
(* one step: what it brings is as old as its sender's copy anyway.         *)
Unused == {d \in Ids : ~Exists(d) /\ \A c \in Clients : req[c] # None => req[c].id # d}

Send(c, op, id, body) ==
    /\ req[c] = None /\ requests < MaxRequests
    /\ requests' = requests + 1
    /\ \E d \in IF op = "create" THEN Unused ELSE {id} :
          req' = [req EXCEPT ![c] = [op |-> op, id |-> d, body |-> body, stage |-> "begun",
                                     base |-> row[d], clears |-> {}]]

Answered(r) == [r EXCEPT !.stage = "answered", !.body = None, !.base = None, !.clears = {}]

Writing(c) == req[c] # None /\ req[c].op # "delete" /\ req[c].stage # "answered"
BecomesDefault(c) == req[c].body.default /\ (req[c].op = "create" \/ ~req[c].base.default)

Locked(c, d) == \E o \in Clients \ {c} : req[o] # None /\ d \in req[o].clears

(* _clear_default: an UPDATE over the committed rows, whose locks it keeps *)
(* until the commit.                                                       *)
ClearDefault_KeepsApp(c) ==
    /\ Writing(c) /\ req[c].stage = "begun" /\ BecomesDefault(c)
    /\ LET found == Defaults(req[c].base.app)
       IN /\ \A d \in found : ~Locked(c, d)
          /\ req' = [req EXCEPT ![c].stage = "cleared", ![c].clears = found]
    /\ UNCHANGED <<row, tab, cache, fetch, edits, requests, blame, src, restored>>
ClearDefault(c) ==
    /\ Writing(c) /\ req[c].stage = "begun" /\ BecomesDefault(c)
    /\ LET found == Defaults(req[c].body.def.app)
       IN /\ \A d \in found : ~Locked(c, d)
          /\ req' = [req EXCEPT ![c].stage = "cleared", ![c].clears = found]
    /\ UNCHANGED <<row, tab, cache, fetch, edits, requests, blame, src, restored>>

(* The flush writes the columns that differ from what was read; app is one *)
(* of its own, set from the definition.                                    *)
Net(old, new, now) == IF new = old THEN now ELSE new
Written(c) ==
    LET b == req[c].base
        n == req[c].body
        r == row[req[c].id]
    IN [life    |-> IF req[c].op = "create" THEN "live" ELSE r.life,
        app     |-> Net(b.app, n.def.app, r.app),
        def     |-> Net(b.def, n.def, r.def),
        default |-> Net(b.default, n.default, r.default)]

(* Two defaults have a cause: a default moved there, or a transaction that *)
(* overlapped and made a default there, or wrote the same dashboard.       *)
Causes(c) ==
    {a \in Apps :
        \/ /\ req[c].op = "update" /\ req[c].base.default
           /\ req[c].base.app # req[c].body.def.app /\ a = req[c].body.def.app
        \/ \E o \in Clients \ {c} :
              /\ Writing(o)
              /\ \/ req[o].body.default /\ req[o].body.def.app = a
                 \/ req[o].id = req[c].id /\ a \in {req[o].body.def.app, req[c].body.def.app}}

(* A client that had read the row before it was overwritten.               *)
PutBack(c) == IF c = "tab" \/ req[c].op = "create" THEN {}
              ELSE Written(c).def.edits \ row[req[c].id].def.edits

Commit(c) ==
    /\ Writing(c)
    /\ \/ req[c].stage = "cleared"
       \/ req[c].stage = "begun" /\ ~BecomesDefault(c)
    /\ ~Locked(c, req[c].id)
    /\ row' = [d \in Ids |-> IF d = req[c].id THEN Written(c)
                             ELSE [row[d] EXCEPT !.default = @ /\ d \notin req[c].clears]]
    /\ req' = IF c = "tab" THEN [req EXCEPT ![c] = Answered(@)]
              ELSE [req EXCEPT ![c] = None]
    /\ blame' = blame \cup Causes(c)
    /\ restored' = restored \cup PutBack(c)
    /\ UNCHANGED <<tab, cache, fetch, edits, requests, src>>

(* delete_dashboard archives; the row keeps everything else.               *)
Archive(c) ==
    /\ req[c] # None /\ req[c].op = "delete" /\ req[c].stage = "begun"
    /\ ~Locked(c, req[c].id)
    /\ row' = [row EXCEPT ![req[c].id].life = "archived"]
    /\ req' = [req EXCEPT ![c] = Answered(@)]
    /\ UNCHANGED <<tab, cache, fetch, edits, requests, blame, src, restored>>

(* get_dashboard, which also finds what is archived.                       *)
Read(d) ==
    /\ fetch[d].at = "sent"
    /\ fetch' = [fetch EXCEPT ![d] = [at |-> "read", def |-> row[d].def]]
    /\ UNCHANGED <<row, req, tab, cache, edits, requests, blame, src, restored>>

-----------------------------------------------------------------------------
(* The builder's tab.                                                      *)

Shown == tab.url          \* the id the builder's query is for
InBuilder == tab.page = "builder"

Loaded(t, d, def, copying) ==
    [t EXCEPT !.id = IF copying THEN None ELSE d, !.def = def]

EmptyTab == [page |-> "list", url |-> None, copying |-> FALSE, id |-> None,
             def |-> [app |-> None, edits |-> {}]]

(* The query of a builder that mounts for d: a copy that is kept is shown  *)
(* at once, and fetched again unless it is fresh.                          *)
Mount(t, d) ==
    /\ tab' = IF cache[d] = None THEN t ELSE Loaded(t, d, cache[d].def, FALSE)
    /\ src' = IF cache[d] = None THEN src ELSE "cache"
    /\ fetch' = IF fetch[d].at = "none" /\ (cache[d] = None \/ ~cache[d].fresh)
                THEN [fetch EXCEPT ![d].at = "sent"] ELSE fetch

(* A link of the list.  The store still holds what was there before.       *)
Open(d) ==
    /\ tab.page = "list" /\ Exists(d)
    /\ Mount([tab EXCEPT !.page = "builder", !.url = d, !.copying = FALSE], d)
    /\ UNCHANGED <<row, req, cache, edits, requests, blame, restored>>

(* The header's other dashboard and its copy load the page anew, and with  *)
(* it the store and the cache.                                             *)
Reload(d, copying) ==
    /\ InBuilder /\ req["tab"] = None
    /\ IF copying THEN tab.id = d ELSE row[d].life = "live"
    /\ tab' = [EmptyTab EXCEPT !.page = "builder", !.url = d, !.copying = copying]
    /\ cache' = [i \in Ids |-> None]
    /\ fetch' = [i \in Ids |-> IF i = d THEN [NoFetch EXCEPT !.at = "sent"] ELSE NoFetch]
    /\ src' = "new"
    /\ UNCHANGED <<row, req, edits, requests, blame, restored>>

New ==
    /\ tab.page = "list"
    /\ tab' = [EmptyTab EXCEPT !.page = "builder"]
    /\ src' = "new"
    /\ UNCHANGED <<row, req, cache, fetch, edits, requests, blame, restored>>

(* The answer goes into the cache, and the effect loads it into the store, *)
(* over whatever has been edited meanwhile.                                *)
Receive_AnyUrl(d) ==
    /\ fetch[d].at = "read"
    /\ fetch' = [fetch EXCEPT ![d] = NoFetch]
    /\ cache' = [cache EXCEPT ![d] = [def |-> fetch[d].def, fresh |-> TRUE]]
    /\ IF InBuilder /\ tab.id # None
       THEN tab' = [tab EXCEPT !.def = fetch[d].def] /\ src' = "read"
       ELSE UNCHANGED <<tab, src>>
    /\ UNCHANGED <<row, req, edits, requests, blame, restored>>
Receive(d) ==
    /\ fetch[d].at = "read"
    /\ fetch' = [fetch EXCEPT ![d] = NoFetch]
    /\ cache' = [cache EXCEPT ![d] = [def |-> fetch[d].def, fresh |-> TRUE]]
    /\ IF InBuilder /\ Shown = d
       THEN /\ tab' = Loaded(tab, d, fetch[d].def, tab.copying)
            /\ src' = IF row[d].def.edits \cup (IF tab.id = d THEN tab.def.edits ELSE {})
                            \subseteq fetch[d].def.edits THEN "read" ELSE "late"
       ELSE UNCHANGED <<tab, src>>
    /\ UNCHANGED <<row, req, edits, requests, blame, restored>>

Edit ==
    /\ InBuilder /\ edits < MaxEdits
    /\ edits' = edits + 1
    /\ tab' = [tab EXCEPT !.def.edits = @ \cup {edits + 1}]
    /\ UNCHANGED <<row, req, cache, fetch, requests, blame, src, restored>>

(* Bound of the model: what a new dashboard is filed under is chosen once. *)
SetApp(app) ==
    /\ InBuilder /\ tab.def.app = None
    /\ tab' = [tab EXCEPT !.def.app = app]
    /\ UNCHANGED <<row, req, cache, fetch, edits, requests, blame, src, restored>>

CanSave == InBuilder /\ tab.def.app # None

(* The body names neither is_default nor show_in_menu, so the route's      *)
(* defaults go for them.                                                   *)
Body == [def |-> tab.def, default |-> FALSE, src |-> src]

Save ==
    /\ CanSave
    /\ Send("tab", IF tab.id = None THEN "create" ELSE "update", tab.id, Body)
    /\ UNCHANGED <<row, tab, cache, fetch, edits, blame, src, restored>>

(* Save As forgets the id first.  The save sees that, although it is asked *)
(* for in the same handler: its function is looked up a microtask after    *)
(* React has rendered the change.                                          *)
SaveAs ==
    /\ CanSave
    /\ tab' = Loaded(tab, None, tab.def, TRUE)
    /\ Send("tab", "create", None, Body)
    /\ UNCHANGED <<row, cache, fetch, edits, blame, src, restored>>

(* After a creation the new id goes into the URL, and its query loads it;  *)
(* after an update the copy in the cache stays what it was.                *)
SaveAnswered ==
    /\ req["tab"] # None /\ req["tab"].stage = "answered"
    /\ req' = [req EXCEPT !["tab"] = None]
    /\ IF InBuilder /\ tab.id = None
       THEN Mount([tab EXCEPT !.url = req["tab"].id, !.copying = FALSE], req["tab"].id)
       ELSE UNCHANGED <<tab, fetch, src>>
    /\ UNCHANGED <<row, cache, edits, requests, blame, restored>>

(* Cancel, or Save & Close once it is answered (bound of the model: nobody *)
(* leaves the page while a save is on its way).                            *)
Leave ==
    /\ InBuilder /\ req["tab"] = None
    /\ tab' = [tab EXCEPT !.page = "list", !.url = None]
    /\ UNCHANGED <<row, req, cache, fetch, edits, requests, blame, src, restored>>

Delete(d) ==
    /\ tab.page = "list" /\ row[d].life = "live"
    /\ Send("tab", "delete", d, None)
    /\ UNCHANGED <<row, tab, cache, fetch, edits, blame, src, restored>>

(* staleTime passes; later an unused copy is dropped.                      *)
Age(d) ==
    /\ cache[d] # None
    /\ \/ cache[d].fresh /\ cache' = [cache EXCEPT ![d].fresh = FALSE]
       \/ ~cache[d].fresh /\ ~(InBuilder /\ Shown = d) /\ cache' = [cache EXCEPT ![d] = None]
    /\ UNCHANGED <<row, req, tab, fetch, edits, requests, blame, src, restored>>

-----------------------------------------------------------------------------
(* Any other client: it has just read what it updates, and may file it     *)
(* elsewhere and set what the builder never sends.                         *)
OtherUpdates(o, d, app, default) ==
    /\ Exists(d)
    /\ Send(o, "update", d, [def |-> [row[d].def EXCEPT !.app = app],
                             default |-> default, src |-> "other"])
    /\ UNCHANGED <<row, tab, cache, fetch, edits, blame, src, restored>>

OtherCreates(o, app) ==
    /\ Send(o, "create", None, [def |-> [app |-> app, edits |-> {}],
                                default |-> TRUE, src |-> "other"])
    /\ UNCHANGED <<row, tab, cache, fetch, edits, blame, src, restored>>

-----------------------------------------------------------------------------
Unborn == [life |-> "unborn", app |-> None, def |-> None, default |-> FALSE]

Init ==
    /\ \E old \in SUBSET Ids, app \in [Ids -> Apps], default \in [Ids -> BOOLEAN] :
          row = [d \in Ids |->
                   IF d \notin old THEN Unborn
                   ELSE [life |-> "live", app |-> app[d], default |-> default[d],
                         def |-> [app |-> app[d], edits |-> {}]]]
    /\ \A a \in Apps : Cardinality(Defaults(a)) =< 1
    /\ req = [c \in Clients |-> None]
    /\ tab = EmptyTab
    /\ cache = [d \in Ids |-> None] /\ fetch = [d \in Ids |-> NoFetch]
    /\ edits = 0 /\ requests = 0
    /\ blame = {} /\ src = "new" /\ restored = {}

Server ==
    \/ \E c \in Clients : ClearDefault(c) \/ Commit(c) \/ Archive(c)
    \/ \E d \in Ids : Read(d)

Browser ==
    \/ \E d \in Ids : Open(d) \/ Receive(d) \/ Delete(d) \/ Age(d)
    \/ (\E d \in Ids, copying \in BOOLEAN : Reload(d, copying))
    \/ New \/ Edit \/ (\E app \in Apps : SetApp(app)) \/ Save \/ SaveAs \/ SaveAnswered \/ Leave

Other ==
    \E o \in Others :
       \/ \E d \in Ids, app \in Apps, default \in BOOLEAN : OtherUpdates(o, d, app, default)
       \/ \E app \in Apps : OtherCreates(o, app)

Next == Server \/ Browser \/ Other

Spec == Init /\ [][Next]_vars

(* ------------------------------ Properties ----------------------------- *)

(* _clear_default: "Only one dashboard per app opens by default".  Two do  *)
(* only where two transactions that each made one overlapped, or where one *)
(* that was the default was filed under another application: a clear that  *)
(* misses a row, or a stale read written back, is not among the causes.    *)
TwoDefaultsNeedCause ==
    \A a \in Apps : Cardinality(Defaults(a)) > 1 => a \in blame

(* A save of the builder takes out of a dashboard what an earlier save had *)
(* put in only if the tab was given an old copy: from the cache, which no  *)
(* save invalidates, or by a read that a save overtook; or if another      *)
(* client had meanwhile put it back where it had been lost.                *)
SavedEditsUndoneNeedCause ==
    [][\A d \in Ids :
          Exists(d) /\ ~(row[d].def.edits \ restored \subseteq row'[d].def.edits) =>
              \E c \in Clients : /\ Writing(c) /\ req[c].id = d
                                 /\ req[c].body.src \in {"cache", "late", "other"}]_vars

=============================================================================
