-------------------------------- MODULE MCFeeds --------------------------------
(***************************************************************************)
(* Instances of Gateway.tla and PolledFeeds.tla for TLC: the feeds of a    *)
(* worker of accessws that come from Kafka and those it polls for.  They   *)
(* have no state in common that these modules look at, so a behaviour has  *)
(* one part, in which one of them is at work.                              *)
(***************************************************************************)
EXTENDS GatewayProperties, PolledFeedsProperties, TLC

CONSTANTS BTC, CNY,
          Parts   \* the ones of this run

VARIABLE part

OneMarket == {<<BTC, CNY>>}
TwoChanges == [f \in Feeds |-> 2]
MoreDeals == [f \in Feeds |-> CASE f = "depth" -> 2 [] f = "deals" -> 3 [] OTHER -> 1]
Symmetry == Permutations(Slots) \cup Permutations(Users)

FeedsInit ==
    /\ Init /\ PolledInit
    /\ part \in Parts /\ (part # "feeds" => feed = CHOOSE f \in Feeds : TRUE)
FeedsNext ==
    /\ \/ part = "requests" /\ Next /\ UNCHANGED polled
       \/ part = "feeds" /\ PolledNext /\ UNCHANGED vars
    /\ UNCHANGED part

(* What goes wrong with a poll does so in place of a change, a message     *)
(* comes in place of a request.  The deals are those of one market; who    *)
(* follows a depth loses a connection or has an error in place of another. *)
FewChanges ==
    /\ changes' + faults' <= MaxChanges[feed]
    /\ feed = "depth" => connections' + faults' <= MaxConnections
    /\ feed = "deals" => DOMAIN entries' \subseteq {1}
    /\ Len(asked') + updates' <= MaxRequests
(* Nothing here asks for what was answered, nor of the requests and proofs *)
(* for more than whose a job is and what an open connection has proved.    *)
WithoutHistory ==
    <<session, backend, backend_cache, pending, jobs, feeds, counts, Len(asked),
      [r \in jobs |-> asked[r].ses_id], {p \in proved : \E s \in Slots : id[s] = p[1]},
      polled, part>>

FeedsSpec == FeedsInit /\ [][FeedsNext /\ FewChanges]_<<vars, polled, part>>
===============================================================================
