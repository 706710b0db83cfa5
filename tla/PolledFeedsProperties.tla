------------------------ MODULE PolledFeedsProperties -------------------------
(***************************************************************************)
(* What must be true of the polled feeds of the websocket gateway,         *)
(* PolledFeeds.tla.                                                        *)
(***************************************************************************)
EXTENDS PolledFeeds

\* aw_*.c, aw_server.c: whoever is in an entry has subscribed it on the
\* connection it has now, unless that slot's last session was closed without
\* being found (on_close forgets aw_state.c; a session whose watcher is pending
\* has another hash than the one it was added with).
OnlySubscribers ==
    \A k \in DOMAIN entries : \A s \in entries[k].sessions :
        (s \in open /\ k \in subscribed[s]) \/ s \in missed

\* aw_*.c: no subscriber falls out of an entry, whatever poll, timer, recreated
\* entry or unsubscription of another comes between, but by an error answer.
StillSubscribed ==
    \A s \in open : \A k \in subscribed[s] \ lost[s] :
        k \in DOMAIN entries /\ s \in entries[k].sessions

\* The entries have the sessions that follow them and no others.
EntriesExact == OnlySubscribers /\ StillSubscribed

Covers(copy, last) == \A p \in DOMAIN last : p \in DOMAIN copy /\ copy[p] = last[p]

Watching(s, k) == s \in open /\ k \in subscribed[s] \ lost[s]

\* on_market_depth_reply and its copies: what a subscriber has been told is what
\* the entry holds.  Of a depth whose limit may push levels out it has every
\* level, and may have others; of a kline, or after a request
\* with a bad market, a subscriber may know nothing yet.
InStep ==
    \A s \in open, k \in PolledKeys : Watching(s, k) =>
        LET copy == view[s][k]  last == entries[k].last IN
        CASE feed = "depth" -> last # None =>
                 /\ copy # None /\ Covers(copy[1], last[1])
                 /\ k >= Cardinality(Prices) => copy = last
          [] feed = "deals" -> copy # None => last # <<>> /\ \A i \in DOMAIN last :
                                   last[i] \in copy[1] \/ \A d \in copy[1] : last[i] < d
          [] OTHER -> copy \in {None, last}

\* aw_deals.c: of the deals up to the newest a subscriber has been told of it
\* misses none that is not older than the first it was told of, but those that
\* were pushed out by DEALS_QUERY_LIMIT newer ones.
DealsGapless ==
    feed = "deals" => \A s \in open, k \in PolledKeys : view[s][k] # None =>
        LET copy == view[s][k][1]
            newer(d) == {e \in copy : e > d}
        IN \A d \in 1..source :
              (\E e \in copy : e < d) /\ newer(d) # {} /\ d \notin copy
                  => Cardinality(newer(d)) >= Limit

Newest(k) ==
    CASE feed = "depth" -> entries[k].last = Some(Result(k, 0))
      [] feed = "deals" -> last_id(k) = source
      [] OTHER -> entries[k].last = Some(source)

\* on_timer, on_backend_recv_pkg: once the backend's data and the faults come to
\* an end, the entry of a key that a session goes on watching has the newest data.
Fresh ==
    \A s \in PolledSlots, k \in PolledKeys :
        <>[]Watching(s, k) => <>[](k \in DOMAIN entries /\ Newest(k))
===============================================================================
