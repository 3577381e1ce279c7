---------------------------- MODULE ConnectorSetup ----------------------------
(***************************************************************************)
(* From a credential to the first rows: the routes of api/v1/connectors.py *)
(* that exchange a token, find out what it reaches, store it, refresh what *)
(* was found and replace the token, the discover methods of the four       *)
(* clients, and then one fetch (SyncFetch) by a client built from what is  *)
(* stored.  One action is one request to the provider, which may stop      *)
(* accepting a token between any two of them.                              *)
(***************************************************************************)
EXTENDS SyncFetch

CONSTANT NoToken

Tokens == {"short", "long", "other"}   \* as pasted, as exchanged, a later one

VARIABLES
    provider,  \* which provider the connector is for
    valid,     \* the tokens the provider accepts now
    request,   \* the route under way: [op, token, exchange, next, found, accepted]
    stored     \* the connector's row: [token, found, replaced]; token NoToken: no row

setupVars == <<provider, valid, request, stored>>
clientVars == <<fetchVars, setupVars>>

(* How the failure of each request of discover() is taken, in their order: *)
(* without a "must" there is no discovery, an "optional" one leaves a gap, *)
(* and of several alternatives the first that answers is enough.           *)
Probes ==
    [meta         |-> <<"must", "optional", "optional", "optional", "optional">>,
     shippo       |-> <<"must">>,
     ssactivewear |-> <<"either", "either", "either">>,
     riin         |-> <<"must", "optional">>]

SupportsExchange == {"meta"}

Idle == [op |-> "none", token |-> NoToken, exchange |-> FALSE, next |-> 1,
         found |-> {}, accepted |-> {}]

Requests == [op : {"none", "discover", "create", "refresh"}, token : Tokens \cup {NoToken},
             exchange : BOOLEAN, next : 1 .. 6, found : SUBSET (1 .. 5),
             accepted : SUBSET Tokens]

SetupTypeOK ==
    /\ FetchTypeOK
    /\ provider \in DOMAIN Probes
    /\ valid \subseteq Tokens
    /\ request \in Requests
    /\ stored \in [token : Tokens \cup {NoToken}, found : SUBSET (1 .. 5),
                   accepted : SUBSET Tokens, replaced : BOOLEAN]

SetupInit ==
    /\ FetchInit
    /\ provider \in DOMAIN Probes
    /\ valid = Tokens
    /\ request = Idle
    /\ stored = [token |-> NoToken, found |-> {}, accepted |-> {}, replaced |-> FALSE]

Quiet == request.op = "none" /\ status = "none"

(* POST /discover and POST "": the client is built with what was pasted.   *)
Submit ==
    /\ Quiet
    /\ \E op \in {"discover", "create"}, asked4long \in BOOLEAN :
          /\ op = "create" => stored.token = NoToken
          /\ request' = [Idle EXCEPT !.op = op, !.token = "short",
                                     !.exchange = asked4long /\ provider \in SupportsExchange]
    /\ UNCHANGED <<fetchVars, provider, valid, stored>>

(* POST /{id}/refresh-discovery: with a client built from what is stored.  *)
Refresh ==
    /\ Quiet /\ stored.token # NoToken
    /\ request' = [Idle EXCEPT !.op = "refresh", !.token = stored.token]
    /\ UNCHANGED <<fetchVars, provider, valid, stored>>

(* exchange_for_long_lived: the client goes on with the token it got; not  *)
(* getting one is no reason to stop.                                       *)
Exchange ==
    /\ request.op # "none" /\ request.exchange
    /\ \/ /\ request.token \in valid
          /\ request' = [request EXCEPT !.token = "long", !.exchange = FALSE]
       \/ request' = [request EXCEPT !.exchange = FALSE]
    /\ UNCHANGED <<fetchVars, provider, valid, stored>>

Asking == request.op # "none" /\ ~request.exchange /\ request.next \in DOMAIN Probes[provider]
Way == Probes[provider][request.next]

(* Discovery ended without an answer: 400, nothing is stored.              *)
Refuse == request' = Idle

ProbeAnswered ==
    /\ Asking /\ request.token \in valid
    /\ request' = [request EXCEPT
                     !.found = @ \cup {request.next},
                     !.accepted = @ \cup {request.token},
                     !.next = IF Way = "either" THEN Len(Probes[provider]) + 1 ELSE @ + 1]
    /\ UNCHANGED <<fetchVars, provider, valid, stored>>

(* The provider rejects the credential: final, but where the request could *)
(* be done without.  (A scope that is missing is answered the same way.)   *)
ProbeRejected ==
    /\ Asking
    /\ request.token \notin valid \/ Way = "optional"
    /\ IF Way = "optional"
       THEN request' = [request EXCEPT !.next = @ + 1]
       ELSE Refuse
    /\ UNCHANGED <<fetchVars, provider, valid, stored>>

(* A timeout, an endpoint that moved, trouble at their end.                *)
ProbeFailed ==
    /\ Asking
    /\ IF Way = "optional" \/ (Way = "either" /\ request.next < Len(Probes[provider]))
       THEN request' = [request EXCEPT !.next = @ + 1]
       ELSE Refuse
    /\ UNCHANGED <<fetchVars, provider, valid, stored>>

Found == request.op # "none" /\ ~request.exchange /\ request.next > Len(Probes[provider])

(* The row is written with the token the client ended up with, and with    *)
(* what was found; encryption may be unavailable.                          *)
Store_AsPasted ==
    /\ Found /\ request.op = "create"
    /\ stored' = [token |-> "short", found |-> request.found,
                  accepted |-> request.accepted, replaced |-> FALSE]
    /\ request' = Idle
    /\ UNCHANGED <<fetchVars, provider, valid>>
Store ==
    /\ Found /\ request.op = "create"
    /\ \/ stored' = [token |-> request.token, found |-> request.found,
                     accepted |-> request.accepted, replaced |-> FALSE]
       \/ UNCHANGED stored
    /\ request' = Idle
    /\ UNCHANGED <<fetchVars, provider, valid>>

Show ==
    /\ Found /\ request.op = "discover"
    /\ request' = Idle
    /\ UNCHANGED <<fetchVars, provider, valid, stored>>

ShowRefreshed ==
    /\ Found /\ request.op = "refresh"
    /\ stored' = [stored EXCEPT !.found = request.found]
    /\ request' = Idle
    /\ UNCHANGED <<fetchVars, provider, valid>>

(* PUT /{id} with a token: stored as it is, and nobody is asked about it.  *)
Replace ==
    /\ stored.token # NoToken /\ status = "none"
    /\ stored' = [stored EXCEPT !.token = "other", !.replaced = TRUE]
    /\ UNCHANGED <<fetchVars, provider, valid, request>>

(* A token expires or is revoked.                                          *)
Expire ==
    /\ request.op # "none"
    /\ \E t \in valid : valid' = valid \ {t}
    /\ UNCHANGED <<fetchVars, provider, request, stored>>

SetupStep ==
    \/ Submit \/ Refresh \/ Exchange
    \/ ProbeAnswered \/ ProbeRejected \/ ProbeFailed
    \/ Store \/ Show \/ ShowRefreshed \/ Replace \/ Expire

(* A dataset is read by a client built from the row, which keeps its token *)
(* to the end: what happens to the row meanwhile does not reach it.  Bound *)
(* of the model: a dataset is added when discovery has found all there is, *)
(* and the setting-up ends there.                                          *)
Add ==
    /\ stored.token # NoToken /\ request.op = "none"
    /\ valid = Tokens
    /\ \A i \in DOMAIN Probes[provider] : i = 1 \/ Probes[provider][i] = "optional" => i \in stored.found
    /\ AddDataset(Offered[provider])
    /\ UNCHANGED setupVars

Fetch == FetchStep /\ UNCHANGED setupVars
Shift == (Added \/ Removed) /\ UNCHANGED setupVars

SetupNext == SetupStep \/ Add \/ Fetch \/ Shift
SetupSpec == SetupInit /\ [][SetupNext]_clientVars /\ WF_clientVars(Fetch)

(* "Store a credential, after confirming it works", and the long-lived one *)
(* wherever that is possible (create_connector): what a connector is made  *)
(* with is a token the provider has answered, whatever was exchanged, went *)
(* wrong or expired on the way.                                            *)
StoredWasAccepted ==
    stored.token # NoToken /\ ~stored.replaced => stored.token \in stored.accepted

=============================================================================
