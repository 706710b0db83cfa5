----------------------------- MODULE PolledFeeds ------------------------------
(***************************************************************************)
(* accessws: the feeds that a worker keeps up by polling the backends:     *)
(* aw_depth.c, aw_deals.c, aw_kline.c, aw_price.c, aw_state.c and          *)
(* aw_today.c, and the subscribe handlers of aw_server.c.                  *)
(*                                                                         *)
(* The six files are copies of one design that differ in what a poll asks  *)
(* for, in what is kept of its answer and in what a new subscriber is      *)
(* sent; they share nothing, so PolledInit chooses the one that runs.  A dict    *)
(* has an entry for every key some session has subscribed; a timer drops   *)
(* the entries without sessions and polls for the others, whether or not   *)
(* the poll before has been answered; the answers come back in order.      *)
(*                                                                         *)
(* Data.  A depth is a function from prices to amounts, of the asks only:  *)
(* the bids go through the same code with the order of prices reversed.  A *)
(* depth key is its limit.  A deal is its id.  Any other datum is the      *)
(* number of its version, a kline with all that is asked for.  All keys    *)
(* see one source; a session is a slot of memory, see Gateway.             *)
(***************************************************************************)
EXTENDS Naturals, SequencesExt, FiniteSets

CONSTANTS
    Feeds,      \* the files that run: "depth", "deals", "kline", "price", "state", "today"
    PolledSlots,
    PolledKeys, \* markets, or limits of the depth
    Prices,     \* 1 is the best
    Limit,      \* DEALS_QUERY_LIMIT
    MaxChanges, \* of the data of each feed: a function, a bound
    MaxAmount, MaxPolls, MaxFaults, MaxConnections  \* bounds

VARIABLES
    feed,
    open,           \* the slots with an open session
    entries,        \* dict_depth, dict_kline, dict_market
    polls,          \* the polls on the link, with their nw_state entries
    source,         \* the backend's data
    changes, faults, connections,
    \* History: what the session of each slot has been told, the keys it has
    \* subscribed, those it lost by an error, and the slots whose session was
    \* closed without being found in the dicts.
    view, subscribed, lost, missed

polledCounts == <<changes, faults, connections>>
polled == <<feed, open, entries, polls, source, polledCounts, view, subscribed, lost, missed>>

None == <<>>
Some(d) == <<d>>
Unknown == [status |-> "waiting", data |-> None]
Failed == [status |-> "error", data |-> None]
Data(d) == [status |-> "data", data |-> Some(d)]

Book == [Prices -> 0..MaxAmount]
Levels(b) == {p \in Prices : b[p] > 0}
Best(S, n) == {p \in S : Cardinality({q \in S : q < p}) < n}

(* What the backend answers to a poll.                                     *)
Result(k, since) ==
    CASE feed = "depth" -> [p \in Best(Levels(source), k) |-> source[p]]
      [] feed = "deals" ->
           LET n == IF source - since > Limit THEN Limit
                    ELSE IF source > since THEN source - since ELSE 0
           IN [i \in 1..n |-> source + 1 - i]
      [] OTHER -> source

NothingYet == IF feed = "price" THEN Some(0) ELSE None
NewEntry == [sessions |-> {}, last |-> NothingYet, clean_due |-> FALSE]

(* An empty dict, a link and a timer; f runs if it is one of Feeds.        *)
Started(f, data) ==
    /\ f \in Feeds /\ feed = f
    /\ entries = [k \in {} |-> NewEntry]
    /\ polls = <<>>
    /\ source = data

init_depth == Started("depth", [p \in Prices |-> 1])
init_deals == Started("deals", 0)
init_kline == Started("kline", 0)
init_price == Started("price", 0)
init_state == Started("state", 0)
init_today == Started("today", 0)

PolledInit ==
    /\ \/ init_depth \/ init_deals \/ init_kline
       \/ init_price \/ init_state \/ init_today
    /\ open = {}
    /\ changes = 0 /\ faults = 0 /\ connections = 0
    /\ view = [s \in PolledSlots |-> [k \in PolledKeys |-> None]]
    /\ subscribed = [s \in PolledSlots |-> {}]
    /\ lost = [s \in PolledSlots |-> {}]
    /\ missed = {}

-------------------------------------------------------------------------------
(* Sessions.                                                               *)

(* depth_unsubscribe and its copies: a session leaves every entry.         *)
Unsubscribed(ents, S) ==
    [k \in DOMAIN ents |-> [ents[k] EXCEPT !.sessions = @ \ S]]

kline_unsubscribe(ents, S) == Unsubscribed(ents, S)
price_unsubscribe(ents, S) == Unsubscribed(ents, S)
state_unsubscribe(ents, S) == Unsubscribed(ents, S)
today_unsubscribe(ents, S) == Unsubscribed(ents, S)
deals_unsubscribe(ents, S) == Unsubscribed(ents, S)

Left(ents, S) ==
    CASE feed = "depth" -> Unsubscribed(ents, S)
      [] feed = "kline" -> kline_unsubscribe(ents, S)
      [] feed = "price" -> price_unsubscribe(ents, S)
      [] feed = "state" -> state_unsubscribe(ents, S)
      [] feed = "today" -> today_unsubscribe(ents, S)
      [] feed = "deals" -> deals_unsubscribe(ents, S)

(* The sessions of S close.  The dicts hash a session by the first bytes   *)
(* of its memory, the flags active and pending of its watcher: those of    *)
(* hidden have an event waiting and are not found.  on_close does not call *)
(* state_unsubscribe at all.                                               *)
Closed(S, hidden, ents) ==
    LET gone == IF feed = "state" THEN {} ELSE S \ hidden
    IN /\ open' = open \ S
       /\ entries' = Left(ents, gone)
       /\ subscribed' = [s \in PolledSlots |-> IF s \in S THEN {} ELSE subscribed[s]]
       /\ lost' = [s \in PolledSlots |-> IF s \in S THEN {} ELSE lost[s]]
       /\ missed' = missed \cup {s \in S \ gone : subscribed[s] # {}}

(* A handler that has made ents of the entries tells the sessions of S,    *)
(* some of which it cannot reach.                                          *)
Tell(k, S, Told(_), ents) ==
    \E failing \in SUBSET (S \cap open) : \E hidden \in SUBSET failing :
        /\ faults + Cardinality(failing) <= MaxFaults
        /\ faults' = faults + Cardinality(failing)
        /\ Closed(failing, hidden, ents)
        /\ view' = [s \in PolledSlots |->
               CASE s \in failing -> [j \in PolledKeys |-> None]
                 [] s \in (S \cap open) \ failing -> [view[s] EXCEPT ![k] = Told(@)]
                 [] OTHER -> view[s]]

connect(s) ==
    /\ s \notin open /\ connections < MaxConnections
    /\ connections' = connections + 1
    /\ open' = open \cup {s}
    /\ UNCHANGED <<feed, entries, polls, source, changes, faults, view, subscribed,
                   lost, missed>>

disconnect(s) ==
    /\ s \in open
    /\ Closed({s}, {}, entries)
    /\ view' = [view EXCEPT ![s] = [k \in PolledKeys |-> None]]
    /\ UNCHANGED <<feed, polls, source, polledCounts>>

-------------------------------------------------------------------------------
(* What the six files make of data.                                        *)

(* Faulty: the levels left at the end of the old list are not deleted.     *)
Faulty_get_list_diff_no_tail(list1, list2, limit) ==
    LET gone == {p \in DOMAIN list1 \ DOMAIN list2 : \E q \in DOMAIN list2 : p < q}
        new == {p \in DOMAIN list2 : p \notin DOMAIN list1 \/ list1[p] # list2[p]}
    IN [p \in gone \cup new |-> IF p \in new THEN list2[p] ELSE 0]

(* What a client has to be told to get from list1 to list2: nothing of the *)
(* levels that were pushed out at the end of a full list.                  *)
get_list_diff(list1, list2, limit) ==
    LET gone == {p \in DOMAIN list1 \ DOMAIN list2 :
                    \/ Cardinality(DOMAIN list2) < limit
                    \/ \E q \in DOMAIN list2 : p < q}
        new == {p \in DOMAIN list2 : p \notin DOMAIN list1 \/ list1[p] # list2[p]}
    IN [p \in gone \cup new |-> IF p \in new THEN list2[p] ELSE 0]

(* A client's copy after a depth.update with clean = false.                *)
Patched(copy, diff) ==
    IF copy = None THEN None
    ELSE LET left == {p \in DOMAIN copy[1] : p \in DOMAIN diff => diff[p] > 0}
             new == {p \in DOMAIN diff : diff[p] > 0}
         IN Some([p \in left \cup new |-> IF p \in new THEN diff[p] ELSE copy[1][p]])

Silent(ents) ==
    /\ entries' = ents
    /\ UNCHANGED <<open, view, subscribed, lost, missed, faults>>

on_market_depth_reply(k, result) ==
    LET val == entries[k]
        full(old) == Some(result)
        stored(due) == [entries EXCEPT ![k].last = Some(result), ![k].clean_due = due]
    IN IF val.last = None
       THEN Tell(k, val.sessions, full, stored(FALSE))
       ELSE LET diff == get_list_diff(val.last[1], result, k)
                patch(old) == Patched(old, diff)
            IN \/ /\ DOMAIN diff = {}
                  /\ Silent(entries)
               \/ /\ DOMAIN diff # {} /\ val.clean_due
                  /\ Tell(k, val.sessions, full, stored(FALSE))
               \/ /\ DOMAIN diff # {} /\ ~val.clean_due
                  /\ Tell(k, val.sessions, patch, stored(FALSE))

(* The deals a client has been told of.                                    *)
Known(old, ids) ==
    Some((IF old = None THEN {} ELSE old[1]) \cup {ids[i] : i \in DOMAIN ids})

on_order_deals_reply(k, result) ==
    LET told(old) == Known(old, result)
        all == result \o entries[k].last
    IN IF result = <<>> THEN Silent(entries)
       ELSE Tell(k, entries[k].sessions, told,
                   [entries EXCEPT ![k].last =
                        SubSeq(all, 1, IF Len(all) > Limit THEN Limit ELSE Len(all))])

(* Tells everybody if the answer is not what it was.                       *)
IfChanged(k, result) ==
    LET told(old) == Some(result)
    IN IF entries[k].last = Some(result) THEN Silent(entries)
       ELSE Tell(k, entries[k].sessions, told, [entries EXCEPT ![k].last = Some(result)])

(* The last kline of the answer is compared, all of it is sent.            *)
on_market_kline_reply(k, result) == IfChanged(k, result)
on_market_last_reply(k, result) == IfChanged(k, result)
on_market_status_reply(k, result) == IfChanged(k, result)
on_market_status_today_reply(k, result) == IfChanged(k, result)

-------------------------------------------------------------------------------
(* Polls and their answers.                                                *)

last_id(k) == IF feed # "deals" \/ entries[k].last = <<>> THEN 0 ELSE Head(entries[k].last)

(* A poll for key k, for what follows since.                               *)
NewPoll(k, since) == [key |-> k, since |-> since, waiting |-> TRUE, result |-> Unknown]

(* Faulty: asks for what follows the deal after the last one.              *)
Faulty_Poll_after_next(f) ==
    LET live == {k \in DOMAIN entries : entries[k].sessions # {}}
        after(d) == IF d = 0 THEN 0 ELSE d + 1
    IN /\ feed = f
       /\ Len(polls) + Cardinality(live) <= MaxPolls
       /\ entries' = [k \in live |-> entries[k]]
       /\ polls' = polls \o [i \in 1..Cardinality(live) |->
              LET k == SetToSeq(live)[i] IN NewPoll(k, after(last_id(k)))]
       /\ UNCHANGED <<feed, open, source, polledCounts, view, subscribed, lost, missed>>

(* Faulty: no poll for a key that has been answered.                       *)
Faulty_Poll_once(f) ==
    LET live == {k \in DOMAIN entries : entries[k].sessions # {}}
        asked == {k \in live : entries[k].last = NothingYet}
    IN /\ feed = f
       /\ Len(polls) + Cardinality(asked) <= MaxPolls
       /\ entries' = [k \in live |-> entries[k]]
       /\ polls' = polls \o [i \in 1..Cardinality(asked) |->
              LET k == SetToSeq(asked)[i] IN NewPoll(k, last_id(k))]
       /\ UNCHANGED <<feed, open, source, polledCounts, view, subscribed, lost, missed>>

(* on_timer: entries without sessions go, the others are polled for.       *)
Poll(f) ==
    LET live == {k \in DOMAIN entries : entries[k].sessions # {}}
    IN /\ feed = f
       /\ Len(polls) + Cardinality(live) <= MaxPolls
       /\ entries' = [k \in live |-> entries[k]]
       /\ polls' = polls \o [i \in 1..Cardinality(live) |->
              LET k == SetToSeq(live)[i] IN NewPoll(k, last_id(k))]
       /\ UNCHANGED <<feed, open, source, polledCounts, view, subscribed, lost, missed>>

on_depth_timer == Poll("depth")
on_deals_timer == Poll("deals")
on_kline_timer == Poll("kline")
on_price_timer == Poll("price")
on_state_timer == Poll("state")
on_today_timer == Poll("today")

(* on_backend_recv_pkg: an answer that nobody waits for any more or whose  *)
(* entry has gone is dropped, an error takes the entry with its sessions.  *)
Receive(f, Reply(_, _)) ==
    /\ feed = f
    /\ polls # <<>> /\ Head(polls).result # Unknown
    /\ polls' = Tail(polls)
    /\ LET poll == Head(polls)
           known == poll.waiting /\ poll.key \in DOMAIN entries
       IN \/ /\ ~known
             /\ Silent(entries)
          \/ /\ known /\ poll.result = Failed
             /\ entries' = [k \in DOMAIN entries \ {poll.key} |-> entries[k]]
             /\ lost' = [s \in PolledSlots |->
                    IF s \in entries[poll.key].sessions
                    THEN lost[s] \cup {poll.key} ELSE lost[s]]
             /\ UNCHANGED <<open, view, subscribed, missed, faults>>
          \/ /\ known /\ poll.result # Failed
             /\ Reply(poll.key, poll.result.data[1])
    /\ UNCHANGED <<feed, source, changes, connections>>

on_depth_recv == Receive("depth", on_market_depth_reply)
on_deals_recv == Receive("deals", on_order_deals_reply)
on_kline_recv == Receive("kline", on_market_kline_reply)
on_price_recv == Receive("price", on_market_last_reply)
on_state_recv == Receive("state", on_market_status_reply)
on_today_recv == Receive("today", on_market_status_today_reply)

(* The nw_state entry of a poll expires: on_timeout logs it.               *)
on_poll_timeout(i) ==
    /\ polls[i].waiting /\ faults < MaxFaults
    /\ faults' = faults + 1
    /\ polls' = [polls EXCEPT ![i].waiting = FALSE]
    /\ UNCHANGED <<feed, open, entries, source, changes, connections, view,
                   subscribed, lost, missed>>

(* More than CLEAN_INTERVAL has passed since every last_clean.             *)
CleanDue ==
    /\ feed = "depth" /\ \E k \in DOMAIN entries : ~entries[k].clean_due
    /\ entries' = [k \in DOMAIN entries |-> [entries[k] EXCEPT !.clean_due = TRUE]]
    /\ UNCHANGED <<feed, open, polls, source, polledCounts, view, subscribed, lost, missed>>

-------------------------------------------------------------------------------
(* Subscriptions.                                                          *)

(* Faulty: an entry that is there is replaced.                             *)
Faulty_Subscribed_anew(ents, s, ks) ==
    [k \in DOMAIN ents \cup ks |->
        IF k \in ks THEN [NewEntry EXCEPT !.sessions = {s}] ELSE ents[k]]

Subscribed(ents, s, ks) ==
    [k \in DOMAIN ents \cup ks |->
        LET e == IF k \in DOMAIN ents THEN ents[k] ELSE NewEntry
        IN IF k \in ks THEN [e EXCEPT !.sessions = @ \cup {s}] ELSE e]

depth_subscribe(ents, s, k) == Subscribed(ents, s, {k})
kline_subscribe(ents, s, k) == Subscribed(ents, s, {k})
price_subscribe(ents, s, ks) == Subscribed(ents, s, ks)
state_subscribe(ents, s, ks) == Subscribed(ents, s, ks)
today_subscribe(ents, s, ks) == Subscribed(ents, s, ks)
deals_subscribe(ents, s, ks) == Subscribed(ents, s, ks)

(* What a new subscriber knows of key k from what is kept for it.          *)
depth_send_clean(last) == last
deals_send_full(last) == IF last = <<>> THEN None ELSE Known(None, last)
price_send_last(last) == IF last = Some(0) THEN None ELSE last
state_send_last(last) == last
today_send_last(last) == last

(* The handlers unsubscribe, subscribe the keys ks, which are those before *)
(* the first bad one of the request, and send if there was no bad one.     *)
SubscribeAnew(f, s, ks, good, Sub(_, _, _), Sent(_)) ==
    LET left == Left(entries, {s})
        ents == IF ks = {} THEN left ELSE Sub(left, s, ks)
    IN /\ feed = f /\ s \in open
       /\ entries' = ents
       /\ view' = [view EXCEPT ![s] = [k \in PolledKeys |->
              IF k \in ks /\ good THEN Sent(ents[k].last) ELSE None]]
       /\ subscribed' = [subscribed EXCEPT ![s] = ks]
       /\ lost' = [lost EXCEPT ![s] = {}]
       /\ missed' = missed \ {s}
       /\ UNCHANGED <<feed, open, polls, source, polledCounts>>

NothingSent(last) == None
OneOf(Sub(_, _, _), ents, s, ks) == Sub(ents, s, CHOOSE k \in ks : TRUE)
DepthOne(ents, s, ks) == OneOf(depth_subscribe, ents, s, ks)
KlineOne(ents, s, ks) == OneOf(kline_subscribe, ents, s, ks)

on_method_depth_subscribe(s, ks, good) ==
    /\ Cardinality(ks) = IF good THEN 1 ELSE 0
    /\ SubscribeAnew("depth", s, ks, good, DepthOne, depth_send_clean)
on_method_kline_subscribe(s, ks, good) ==
    /\ Cardinality(ks) = 1 /\ good
    /\ SubscribeAnew("kline", s, ks, good, KlineOne, NothingSent)
on_method_price_subscribe(s, ks, good) ==
    SubscribeAnew("price", s, ks, good, price_subscribe, price_send_last)
on_method_state_subscribe(s, ks, good) ==
    SubscribeAnew("state", s, ks, good, state_subscribe, state_send_last)
on_method_today_subscribe(s, ks, good) ==
    SubscribeAnew("today", s, ks, good, today_subscribe, today_send_last)
on_method_deals_subscribe(s, ks, good) ==
    SubscribeAnew("deals", s, ks, good, deals_subscribe, deals_send_full)

on_method_unsubscribe(s) ==
    /\ s \in open
    /\ entries' = Left(entries, {s})
    /\ view' = [view EXCEPT ![s] = [k \in PolledKeys |-> None]]
    /\ subscribed' = [subscribed EXCEPT ![s] = {}]
    /\ lost' = [lost EXCEPT ![s] = {}]
    /\ missed' = missed \ {s}
    /\ UNCHANGED <<feed, open, polls, source, polledCounts>>

-------------------------------------------------------------------------------
(* The backends.                                                           *)

SourceChange ==
    /\ changes < MaxChanges[feed]
    /\ changes' = changes + 1
    /\ IF feed = "depth"
       THEN \E p \in Prices, a \in 0..MaxAmount :
                a # source[p] /\ source' = [source EXCEPT ![p] = a]
       ELSE source' = source + 1
    /\ UNCHANGED <<feed, open, entries, polls, faults, connections, view,
                   subscribed, lost, missed>>

Waits(i) == polls[i].result = Unknown /\ \A j \in 1..i - 1 : polls[j].result # Unknown

BackendAnswer ==
    \E i \in DOMAIN polls :
        /\ Waits(i)
        /\ polls' = [polls EXCEPT ![i].result = Data(Result(polls[i].key, polls[i].since))]
        /\ UNCHANGED <<feed, open, entries, source, polledCounts, view, subscribed, lost, missed>>

(* The backend refuses, as it does for a market it does not have.          *)
BackendError ==
    \E i \in DOMAIN polls :
        /\ Waits(i) /\ faults < MaxFaults
        /\ faults' = faults + 1
        /\ polls' = [polls EXCEPT ![i].result = Failed]
        /\ UNCHANGED <<feed, open, entries, source, changes, connections, view,
                       subscribed, lost, missed>>

(* The link breaks with what is on it.                                     *)
LinkLost ==
    /\ polls # <<>> /\ faults < MaxFaults
    /\ faults' = faults + 1
    /\ polls' = <<>>
    /\ UNCHANGED <<feed, open, entries, source, changes, connections, view,
                   subscribed, lost, missed>>

PollTimer == \/ on_depth_timer \/ on_deals_timer \/ on_kline_timer
         \/ on_price_timer \/ on_state_timer \/ on_today_timer
Recv == \/ on_depth_recv \/ on_deals_recv \/ on_kline_recv
        \/ on_price_recv \/ on_state_recv \/ on_today_recv

PolledNext ==
    \/ \E s \in PolledSlots : connect(s) \/ disconnect(s) \/ on_method_unsubscribe(s)
    \/ \E s \in PolledSlots, ks \in SUBSET PolledKeys, good \in BOOLEAN :
          \/ on_method_depth_subscribe(s, ks, good)
          \/ on_method_kline_subscribe(s, ks, good)
          \/ on_method_price_subscribe(s, ks, good)
          \/ on_method_state_subscribe(s, ks, good)
          \/ on_method_today_subscribe(s, ks, good)
          \/ on_method_deals_subscribe(s, ks, good)
    \/ PollTimer \/ Recv
    \/ \E i \in DOMAIN polls : on_poll_timeout(i)
    \/ CleanDue \/ SourceChange \/ BackendAnswer \/ BackendError \/ LinkLost

(* The loop runs its timers and reads its sockets; the backends answer.    *)
PolledFairness == WF_polled(PollTimer) /\ WF_polled(Recv) /\ WF_polled(BackendAnswer)
PolledSpec == PolledInit /\ [][PolledNext]_polled /\ PolledFairness
===============================================================================
