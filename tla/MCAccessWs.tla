------------------------------ MODULE MCAccessWs ------------------------------
(***************************************************************************)
(* Instances for TLC of what a worker of accessws does: the requests of    *)
(* its sessions, Gateway.tla, the feeds it polls for, PolledFeeds.tla, and *)
(* the frames of one connection, WsServer.tla, a part of the run each.     *)
(***************************************************************************)
EXTENDS MCFeeds

CONSTANTS MAX_PKG_SIZE, Sizes, Requests, MaxMessages, MaxPings

VARIABLES alive, upgrade, message, split, stream, read_buf, replied, sending,
          pings, sent, got

ws == <<alive, upgrade, message, split, stream, read_buf, replied, sending,
        pings, sent, got>>

Ws == INSTANCE WsServer

(* Of two changes and two faults of a feed there are three, of a restart   *)
(* and a change of the data one.                                           *)
FewTroubles == changes' + faults' <= 3 /\ data' + stops' <= MaxVersion

(* What needs a user takes the place of another request and of the change. *)
UserMethods == AllMethods \ {"server", "query", "unknown"}
FewForUsers ==
    (\E r \in DOMAIN asked' : asked'[r].method \in UserMethods) =>
        Len(asked') < MaxRequests /\ data' = 1

MCNext ==
    \/ FeedsNext /\ FewTroubles /\ FewForUsers /\ UNCHANGED ws
    \/ part = "frames" /\ Ws!Next /\ UNCHANGED <<vars, polled, part>>
MCSpec ==
    /\ FeedsInit /\ Ws!Init /\ [][MCNext]_<<vars, polled, part, ws>>
    /\ Fairness /\ PolledFairness /\ Ws!Fairness

\* ut_ws_svr.c implements MessageChannel: on_message is given the messages of
\* the client, whole, in order and each once, in however many frames they came,
\* with whatever between them, and however the reads cut the stream.
Channel == INSTANCE MessageChannel WITH open <- alive
ImplementsChannel == Channel!Spec
===============================================================================
