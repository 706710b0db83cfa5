------------------------------- MODULE Gateway -------------------------------
(***************************************************************************)
(* accessws: one worker of the websocket gateway.  aw_server.c forwards    *)
(* the requests of its sessions to the backends and brings the answers     *)
(* back, aw_auth.c and aw_sign.c find out which user a session belongs to, *)
(* aw_order.c and aw_asset.c tell a user's sessions about his orders and   *)
(* balances, and network/nw_svr.c and nw_state.c keep the sessions and the *)
(* requests that wait.                                                     *)
(*                                                                         *)
(* The worker is one event loop: a handler is one step.  A session is a    *)
(* slot, memory that is given to the next connection once it is closed,    *)
(* and an id no other session of the process ever had.  Whoever waits for  *)
(* an answer keeps both.  Every send may fail and then closes the session  *)
(* inside the handler that sends.                                          *)
(*                                                                         *)
(* Data.  A message is its method's class; a public answer is the version  *)
(* of the data it was made from; the number of a request stands for its id *)
(* and for that of its nw_state entry, so the wrap of those ids is left    *)
(* out.  The polled feeds are left out.                                    *)
(***************************************************************************)
EXTENDS Naturals, Sequences, FiniteSets

CONSTANTS
    Slots,      \* the memory of sessions
    Users,
    Keys,       \* the public queries: command and parameters
    Assets,
    Markets,    \* pairs <<stock, money>> of assets
    Methods,    \* the classes of requests the clients use
    MaxSes, MaxRequests, MaxVersion, MaxUpdates, MaxStops  \* bounds

AllMethods == {"server", "auth", "sign", "query", "private", "order", "asset",
               "unknown"}

ASSUME GatewayAssumption ==
    /\ Markets \subseteq Assets \X Assets
    /\ Methods \subseteq AllMethods
    /\ {MaxSes, MaxRequests, MaxVersion, MaxUpdates, MaxStops} \subseteq Nat
    /\ 0 \notin Users

VARIABLES
    id, id_start,    \* the session of each slot, 0 if free; the last id given
    upgraded,        \* whether the slot's connection speaks websocket
    info,            \* auth and user_id of its clt_info
    connected, requests, replies, reading,  \* the links to the backends
    data,            \* the version of the backends' data
    backend_cache,
    pending, jobs,   \* the nw_state entries and the auth and sign jobs
    order_sub, asset_sub, asset_query,
    updates, stops,
    \* History: the requests and the answers handed to a connection, the
    \* newest version each connection has seen of each query, and the users
    \* for whom a connection has presented a token or a signature.
    asked, answers, seen, proved

session == <<id, id_start, upgraded, info>>
backend == <<connected, requests, replies, reading, data>>
feeds == <<order_sub, asset_sub, asset_query>>
counts == <<updates, stops>>
history == <<asked, answers, seen, proved>>
vars == <<session, backend, backend_cache, pending, jobs, feeds, counts, history>>

NoKey == "no key"
NotCached == 0
NullResult == 0
NoInfo == [auth |-> FALSE, user_id |-> 0]
Authorised(u) == [auth |-> TRUE, user_id |-> u]

Init ==
    /\ id = [s \in Slots |-> 0]
    /\ id_start = 0
    /\ upgraded = [s \in Slots |-> FALSE]
    /\ info = [s \in Slots |-> NoInfo]
    /\ connected = TRUE
    /\ requests = <<>> /\ replies = <<>> /\ reading = {}
    /\ data = 1
    /\ backend_cache = [k \in Keys |-> NotCached]
    /\ pending = {} /\ jobs = {}
    /\ order_sub = [u \in Users |-> {}]
    /\ asset_sub = [u \in Users |-> {}]
    /\ asset_query = {}
    /\ updates = 0 /\ stops = 0
    /\ asked = <<>>
    /\ answers = [r \in 1..MaxRequests |-> <<>>]
    /\ seen = [c \in 1..MaxSes |-> [k \in Keys |-> 0]]
    /\ proved = {}

-------------------------------------------------------------------------------
(* Sessions.                                                               *)

Unsubscribe(sub, u, s) == [sub EXCEPT ![u] = {n \in @ : n.ses # s}]

(* A session's units in the list of the user it is authenticated as.       *)
Owned(n, u, infos) == upgraded[n.ses] /\ infos[n.ses] = Authorised(u)

(* The sessions of S are closed, after a handler has made infos, osub and  *)
(* asub of the variables.                                                  *)
on_close(S, infos, osub, asub) ==
    LET left(sub) == [u \in Users |->
            {n \in sub[u] : ~(n.ses \in S /\ Owned(n, u, infos))}]
    IN /\ id' = [s \in Slots |-> IF s \in S THEN 0 ELSE id[s]]
       /\ info' = infos
       /\ order_sub' = left(osub)
       /\ asset_sub' = left(asub)

(* The answer to request r goes out to slot s, or the send fails.          *)
Send(s, r, ok, infos, osub, asub) ==
    IF ok
    THEN /\ answers' = [answers EXCEPT ![r] = Append(@, id[s])]
         /\ id' = id /\ info' = infos /\ order_sub' = osub /\ asset_sub' = asub
    ELSE on_close({s}, infos, osub, asub) /\ UNCHANGED answers

Answer(s, r, ok) == Send(s, r, ok, info, order_sub, asset_sub)
Nothing == UNCHANGED <<id, info, order_sub, asset_sub, answers>>

nw_svr_add_clt(s) ==
    /\ id[s] = 0 /\ id_start < MaxSes
    /\ id_start' = id_start + 1
    /\ id' = [id EXCEPT ![s] = id_start + 1]
    /\ upgraded' = [upgraded EXCEPT ![s] = FALSE]
    /\ UNCHANGED <<info, backend, backend_cache, pending, jobs, feeds, counts, history>>

(* Faulty: the clt_info is not cleared.                                    *)
Faulty_on_upgrade_keeps_info(s, ok) ==
    /\ id[s] # 0 /\ ~upgraded[s]
    /\ upgraded' = [upgraded EXCEPT ![s] = TRUE]
    /\ id' = IF ok THEN id ELSE [id EXCEPT ![s] = 0]
    /\ UNCHANGED <<id_start, info, backend, backend_cache, pending, jobs, feeds,
                   counts, history>>

(* The clt_info comes from privdata_cache with what its last session left  *)
(* in it; on_upgrade clears it.                                            *)
on_upgrade(s, ok) ==
    /\ id[s] # 0 /\ ~upgraded[s]
    /\ upgraded' = [upgraded EXCEPT ![s] = TRUE]
    /\ info' = [info EXCEPT ![s] = NoInfo]
    /\ id' = IF ok THEN id ELSE [id EXCEPT ![s] = 0]
    /\ UNCHANGED <<id_start, backend, backend_cache, pending, jobs, feeds, counts, history>>

(* The peer has gone, sent what cannot be decoded or been idle too long.   *)
nw_svr_close_clt(s) ==
    /\ id[s] # 0
    /\ on_close({s}, info, order_sub, asset_sub)
    /\ UNCHANGED <<id_start, upgraded, backend, backend_cache, pending, jobs,
                   asset_query, counts, history>>

-------------------------------------------------------------------------------
(* Requests.  on_message calls the handler of the method.                  *)

on_message(s, method) ==
    /\ method \in Methods
    /\ id[s] # 0 /\ upgraded[s]
    /\ Len(asked) < MaxRequests
    /\ asked' = Append(asked, [ses_id |-> id[s], method |-> method])
    /\ UNCHANGED <<id_start, upgraded, data, connected, replies, asset_query,
                   counts, proved>>

ThisRequest == Len(asked) + 1
Wait(s, context, key) ==
    pending' = pending \cup {[id |-> ThisRequest, context |-> context,
                              ses |-> s, ses_id |-> id[s], key |-> key]}

(* server.ping, server.time, and what any method says to bad arguments.    *)
on_method_server(s, ok) ==
    /\ on_message(s, "server")
    /\ Answer(s, ThisRequest, ok)
    /\ UNCHANGED <<requests, reading, backend_cache, pending, jobs, seen>>

(* on_message writes a log line.                                           *)
on_method_unknown(s) ==
    /\ on_message(s, "unknown")
    /\ Nothing
    /\ UNCHANGED <<requests, reading, backend_cache, pending, jobs, seen>>

(* send_auth_request and send_sign_request: a job for the worker threads.  *)
on_method_server_auth(s, context) ==
    /\ on_message(s, context)
    /\ Wait(s, context, NoKey)
    /\ jobs' = jobs \cup {ThisRequest}
    /\ Nothing
    /\ UNCHANGED <<requests, reading, backend_cache, seen>>

See(s, k, result, ok) ==
    IF ok /\ result # NullResult
    THEN seen' = [seen EXCEPT ![id[s]][k] = result]
    ELSE UNCHANGED seen

(* kline, depth, price, state, today and deals.query: from the cache, if   *)
(* there is a young enough answer in it, or from the backend.              *)
on_method_query(s, k, young, ok) ==
    /\ on_message(s, "query")
    /\ IF ~connected
       THEN /\ Answer(s, ThisRequest, ok)
            /\ UNCHANGED <<requests, backend_cache, pending, seen>>
       ELSE IF backend_cache[k] # NotCached /\ young
       THEN /\ Answer(s, ThisRequest, ok)
            /\ See(s, k, backend_cache[k], ok)
            /\ UNCHANGED <<requests, backend_cache, pending>>
       ELSE /\ backend_cache' = [backend_cache EXCEPT ![k] = NotCached]
            /\ Wait(s, "server", k)
            /\ requests' = Append(requests, ThisRequest)
            /\ Nothing /\ UNCHANGED seen
    /\ UNCHANGED <<reading, jobs>>

(* order.query, order.history, asset.query and asset.history.              *)
on_method_private(s, ok) ==
    /\ on_message(s, "private")
    /\ IF connected /\ info[s].auth
       THEN /\ Wait(s, "server", NoKey)
            /\ reading' = reading \cup {ThisRequest}
            /\ Nothing
       ELSE /\ Answer(s, ThisRequest, ok)
            /\ UNCHANGED <<reading, pending>>
    /\ UNCHANGED <<requests, backend_cache, jobs, seen>>

Resubscribe(sub, s, topics) ==
    LET u == info[s].user_id
    IN [Unsubscribe(sub, u, s) EXCEPT
            ![u] = @ \cup {[ses |-> s, topic |-> t] : t \in topics}]

(* order.subscribe, and with no markets order.unsubscribe.  When a market  *)
(* is no good those before it stay subscribed.                             *)
on_method_order_subscribe(s, markets, ok) ==
    /\ on_message(s, "order")
    /\ IF info[s].auth
       THEN Send(s, ThisRequest, ok, info, Resubscribe(order_sub, s, markets), asset_sub)
       ELSE Answer(s, ThisRequest, ok)
    /\ UNCHANGED <<requests, reading, backend_cache, pending, jobs, seen>>

(* asset.subscribe and asset.unsubscribe.                                  *)
on_method_asset_subscribe(s, assets, ok) ==
    /\ on_message(s, "asset")
    /\ IF info[s].auth
       THEN Send(s, ThisRequest, ok, info, order_sub, Resubscribe(asset_sub, s, assets))
       ELSE Answer(s, ThisRequest, ok)
    /\ UNCHANGED <<requests, reading, backend_cache, pending, jobs, seen>>

-------------------------------------------------------------------------------
(* Answers.                                                                *)

Waiting(r, contexts) == {e \in pending : e.id = r /\ e.context \in contexts}

(* Faulty: any session in the slot will do.                                *)
Faulty_SameSession_any(e) == id[e.ses] # 0

SameSession(e) == id[e.ses] = e.ses_id

(* Faulty: an answer is cached only where there is none.                   *)
Faulty_Cached_first(e, result) ==
    IF e.key # NoKey /\ result # NullResult /\ backend_cache[e.key] = NotCached
    THEN [backend_cache EXCEPT ![e.key] = result] ELSE backend_cache

(* The cache after the answer to e.                                        *)
Cached(e, result) ==
    IF e.key # NoKey /\ result # NullResult
    THEN [backend_cache EXCEPT ![e.key] = result] ELSE backend_cache

(* on_backend_recv_pkg: an answer to request r; result is what a public    *)
(* one holds.                                                              *)
on_backend_recv_pkg(r, result, ok) ==
    /\ IF Waiting(r, {"server"}) = {}
       THEN Nothing /\ UNCHANGED <<pending, backend_cache, seen>>
       ELSE \E e \in Waiting(r, {"server"}) :
              /\ IF SameSession(e)
                 THEN /\ Answer(e.ses, r, ok)
                      /\ IF e.key # NoKey THEN See(e.ses, e.key, result, ok)
                                          ELSE UNCHANGED seen
                 ELSE Nothing /\ UNCHANGED seen
              /\ backend_cache' = Cached(e, result)
              /\ pending' = pending \ {e}
    /\ UNCHANGED <<id_start, upgraded, connected, requests, data, jobs,
                   asset_query, counts, asked, proved>>

(* matchengine and marketprice answer in the order of the requests,        *)
on_public_reply(ok) ==
    /\ replies # <<>>
    /\ replies' = Tail(replies)
    /\ on_backend_recv_pkg(Head(replies).id, Head(replies).result, ok)
    /\ UNCHANGED reading

(* readhistory, which has threads, in any order, and matchengine's answers *)
(* to order.query and asset.query with them.                               *)
on_private_reply(r, ok) ==
    /\ r \in reading
    /\ reading' = reading \ {r}
    /\ on_backend_recv_pkg(r, NullResult, ok)
    /\ UNCHANGED replies

(* Faulty: nobody is told.                                                 *)
Faulty_on_timeout_silent(e, ok) ==
    /\ e \in pending
    /\ pending' = pending \ {e}
    /\ Nothing
    /\ UNCHANGED <<id_start, upgraded, backend, backend_cache, jobs, asset_query,
                   counts, asked, seen, proved>>

(* The three on_timeout of aw_server.c, aw_auth.c and aw_sign.c.           *)
on_timeout(e, ok) ==
    /\ e \in pending
    /\ pending' = pending \ {e}
    /\ IF SameSession(e) THEN Answer(e.ses, e.id, ok) ELSE Nothing
    /\ UNCHANGED <<id_start, upgraded, backend, backend_cache, jobs, asset_query,
                   counts, asked, seen, proved>>

(* Faulty: the subscriptions under the old user stay.                      *)
Faulty_LeftOld_nothing(sub, s, u) == sub

(* The lists without s, if it was another user's than u so far.            *)
LeftOld(sub, s, u) ==
    IF info[s].auth /\ info[s].user_id # u
    THEN Unsubscribe(sub, info[s].user_id, s) ELSE sub

(* on_result: the authority names user u, or refuses (0).                  *)
on_result(e, u, ok) ==
    IF ~SameSession(e)
    THEN Nothing
    ELSE IF u = 0
    THEN Answer(e.ses, e.id, ok)
    ELSE Send(e.ses, e.id, ok, [info EXCEPT ![e.ses] = Authorised(u)],
              LeftOld(order_sub, e.ses, u), LeftOld(asset_sub, e.ses, u))

(* on_finish: the thread that ran the job of request r is done.            *)
on_finish(r, u, ok) ==
    /\ r \in jobs
    /\ jobs' = jobs \ {r}
    /\ proved' = IF u = 0 THEN proved ELSE proved \cup {<<asked[r].ses_id, u>>}
    /\ IF Waiting(r, {"auth", "sign"}) = {}
       THEN Nothing /\ UNCHANGED pending
       ELSE \E e \in Waiting(r, {"auth", "sign"}) :
              on_result(e, u, ok) /\ pending' = pending \ {e}
    /\ UNCHANGED <<id_start, upgraded, backend, backend_cache, asset_query,
                   counts, asked, seen>>

(* on_cache_timer *)
on_cache_timer ==
    /\ backend_cache' = [k \in Keys |-> NotCached]
    /\ UNCHANGED <<session, backend, pending, jobs, feeds, counts, history>>

-------------------------------------------------------------------------------
(* The feeds of a user's orders and balances.                              *)

(* A list of units is walked, F are the sessions where send_notify fails.  *)
(* A failure frees every unit of its session; if the next unit is one of   *)
(* them the walk goes on in freed memory: the worker may die, which is     *)
(* Restart, or read what is still there, which is this.                    *)
Notify(units, topic, F) ==
    /\ F \subseteq {n.ses : n \in {n \in units : n.topic = topic /\ id[n.ses] # 0}}
    /\ on_close(F, info, order_sub, asset_sub)

(* asset_on_update: the assets somebody listens for are asked for.         *)
asset_on_update(u, assets) ==
    asset_query' = asset_query \cup
        {[id |-> updates + 1, user_id |-> u, asset |-> a] :
            a \in {a \in assets : \E n \in asset_sub[u] : n.topic = a}}

(* process_orders_message and order_on_update *)
on_orders_message(u, market, F) ==
    /\ updates < MaxUpdates
    /\ updates' = updates + 1
    /\ asset_on_update(u, {market[1], market[2]})
    /\ Notify(order_sub[u], market, F)
    /\ UNCHANGED <<id_start, upgraded, backend, backend_cache, pending, jobs,
                   stops, history>>

(* process_balances_message *)
on_balances_message(u, asset) ==
    /\ updates < MaxUpdates
    /\ updates' = updates + 1
    /\ asset_on_update(u, {asset})
    /\ UNCHANGED <<session, backend, backend_cache, pending, jobs, order_sub,
                   asset_sub, stops, history>>

(* on_balance_query_reply: to those who listen now.                        *)
on_balance_query_reply(q, F) ==
    /\ q \in asset_query
    /\ asset_query' = asset_query \ {q}
    /\ Notify(asset_sub[q.user_id], q.asset, F)
    /\ UNCHANGED <<id_start, upgraded, backend, backend_cache, pending, jobs,
                   counts, history>>

(* An error reply, or none in time.                                        *)
on_balance_query_timeout(q) ==
    /\ q \in asset_query
    /\ asset_query' = asset_query \ {q}
    /\ UNCHANGED <<session, backend, backend_cache, pending, jobs, order_sub,
                   asset_sub, counts, history>>

-------------------------------------------------------------------------------
(* Around the worker.                                                      *)

(* A backend takes the next request; NullResult is its error reply.        *)
BackendReply(result) ==
    /\ requests # <<>>
    /\ requests' = Tail(requests)
    /\ replies' = Append(replies, [id |-> Head(requests), result |-> result])
    /\ UNCHANGED <<session, connected, reading, data, backend_cache, pending, jobs,
                   feeds, counts, history>>

BackendChange ==
    /\ data < MaxVersion
    /\ data' = data + 1
    /\ UNCHANGED <<session, connected, requests, replies, reading, backend_cache,
                   pending, jobs, feeds, counts, history>>

(* The connection to the backends breaks, with what is on it, or is back.  *)
Reconnect ==
    /\ connected' = ~connected
    /\ requests' = <<>> /\ replies' = <<>> /\ reading' = {}
    /\ UNCHANGED <<session, data, backend_cache, pending, jobs, feeds, counts, history>>

(* The worker dies and process_keepalive starts another.  Its ids start    *)
(* again at 1, here they go on: nothing is left of the old ones.           *)
Restart ==
    /\ stops < MaxStops
    /\ stops' = stops + 1
    /\ id' = [s \in Slots |-> 0]
    /\ upgraded' = [s \in Slots |-> FALSE]
    /\ info' = [s \in Slots |-> NoInfo]
    /\ connected' = TRUE
    /\ requests' = <<>> /\ replies' = <<>> /\ reading' = {}
    /\ backend_cache' = [k \in Keys |-> NotCached]
    /\ pending' = {} /\ jobs' = {}
    /\ order_sub' = [u \in Users |-> {}]
    /\ asset_sub' = [u \in Users |-> {}]
    /\ asset_query' = {}
    /\ UNCHANGED <<id_start, data, updates, history>>

-------------------------------------------------------------------------------
Request(s, ok) ==
    \/ on_method_server(s, ok)
    \/ on_method_unknown(s)
    \/ \E context \in {"auth", "sign"} : on_method_server_auth(s, context)
    \/ \E k \in Keys, young \in BOOLEAN : on_method_query(s, k, young, ok)
    \/ on_method_private(s, ok)
    \/ \E markets \in SUBSET Markets : on_method_order_subscribe(s, markets, ok)
    \/ \E assets \in SUBSET Assets : on_method_asset_subscribe(s, assets, ok)

Timer(r) == \E e \in pending, ok \in BOOLEAN : e.id = r /\ on_timeout(e, ok)

Next ==
    \/ \E s \in Slots : nw_svr_add_clt(s) \/ nw_svr_close_clt(s)
    \/ \E s \in Slots, ok \in BOOLEAN : on_upgrade(s, ok) \/ Request(s, ok)
    \/ \E ok \in BOOLEAN : on_public_reply(ok)
    \/ \E r \in reading, ok \in BOOLEAN : on_private_reply(r, ok)
    \/ \E r \in 1..MaxRequests : Timer(r)
    \/ \E r \in jobs, u \in Users \cup {0}, ok \in BOOLEAN : on_finish(r, u, ok)
    \/ on_cache_timer
    \/ \E u \in Users, market \in Markets, F \in SUBSET Slots :
          on_orders_message(u, market, F)
    \/ \E u \in Users, asset \in Assets : on_balances_message(u, asset)
    \/ \E q \in asset_query, F \in SUBSET Slots : on_balance_query_reply(q, F)
    \/ \E q \in asset_query : on_balance_query_timeout(q)
    \/ \E result \in {data, NullResult} : BackendReply(result)
    \/ BackendChange
    \/ Reconnect
    \/ Restart

(* The event loop runs every timer that has expired.                       *)
Fairness == \A r \in 1..MaxRequests : WF_vars(Timer(r))
Spec == Init /\ [][Next]_vars /\ Fairness
===============================================================================
