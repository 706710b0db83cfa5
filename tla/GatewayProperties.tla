-------------------------- MODULE GatewayProperties ---------------------------
(***************************************************************************)
(* What must be true of the websocket gateway, Gateway.tla.                *)
(***************************************************************************)
EXTENDS Gateway

\* aw_auth.c, aw_sign.c: a session is authenticated as nobody but a user its
\* own connection has presented a token or a signature of, though the job may
\* end after that connection did and its slot belong to another.
Authenticated ==
    \A s \in Slots :
        id[s] # 0 /\ upgraded[s] /\ info[s].auth =>
            <<id[s], info[s].user_id>> \in proved

\* aw_order.c, aw_asset.c: what is in a user's lists is a session that is open
\* and authenticated as this user, also after it has become another user's,
\* was closed in the middle of a notification or left its slot to the next.
FeedsOwned ==
    \A u \in Users : \A n \in order_sub[u] \cup asset_sub[u] :
        /\ id[n.ses] # 0 /\ upgraded[n.ses]
        /\ info[n.ses] = Authorised(u)

\* aw_server.c, process_cache and on_backend_recv_pkg: no connection sees an
\* older answer to a query than one it has had before, whether it comes from
\* the cache or the backend.
MonotonicReads ==
    [][\A c \in 1..MaxSes, k \in Keys : seen'[c][k] >= seen[c][k]]_seen

Asked(r, methods) == r \in DOMAIN asked /\ asked[r].method \in methods
Settled(r) ==
    /\ r \in DOMAIN asked
    /\ answers[r] # <<>> \/ asked[r].ses_id \notin {id[s] : s \in Slots}

\* nw_state.c: whatever becomes of the backends, of the auth jobs and of their
\* answers, the timer of a request ends it with an answer, if its session lives.
\* on_message answers no request for a method that there is not.
Answered ==
    \A r \in 1..MaxRequests : Asked(r, AllMethods \ {"unknown"}) ~> Settled(r)

\* aw_server.c implements RequestReply: no answer is given twice, after its
\* timeout, or to a connection that has got the slot of the one that asked.
Abstract == INSTANCE RequestReply WITH
    open <- {id[s] : s \in Slots} \ {0},
    last <- id_start,
    asked <- [r \in DOMAIN asked |-> asked[r].ses_id]
ImplementsRequestReply == Abstract!Spec
===============================================================================
