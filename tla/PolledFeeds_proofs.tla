--------------------------- MODULE PolledFeeds_proofs ---------------------------
(***************************************************************************)
(* The polled feeds of the websocket gateway, for any slots, keys, prices, *)
(* limits and any number of changes, polls, faults and connections.        *)
(***************************************************************************)
EXTENDS PolledFeedsProperties, SequenceTheorems, FiniteSetTheorems, TLAPS

(* The constants are of their kinds: a depth key is its limit, a price the *)
(* place of a level, and DEALS_QUERY_LIMIT is positive.                    *)
FeedsBounds ==
    /\ PolledKeys \subseteq Nat /\ IsFiniteSet(PolledKeys)
    /\ Prices \subseteq Nat /\ IsFiniteSet(Prices)
    /\ Limit \in Nat \ {0} /\ MaxAmount \in Nat

-------------------------------------------------------------------------------
(* Types.                                                                  *)

Depths == UNION {[D -> Nat \ {0}] : D \in SUBSET Prices}

(* What a poll of feed f is answered, what is kept of it and what a client *)
(* makes of it.                                                            *)
Datum(f) == IF f = "depth" THEN Depths ELSE IF f = "deals" THEN Seq(Nat) ELSE Nat
Kept(f) == IF f = "deals" THEN Seq(Nat) ELSE {None} \cup {Some(d) : d \in Datum(f)}
Seen(f) == {None} \cup {Some(d) : d \in IF f = "deals" THEN SUBSET Nat ELSE Datum(f)}

Entry(f) == [sessions : SUBSET PolledSlots, last : Kept(f), clean_due : BOOLEAN]
Polls(f) == [key : PolledKeys, since : Nat, waiting : BOOLEAN,
             result : {Unknown, Failed} \cup {Data(d) : d \in Datum(f)}]

SessionsTyped ==
    /\ feed \in {"depth", "deals", "kline", "price", "state", "today"}
    /\ open \in SUBSET PolledSlots /\ missed \in SUBSET PolledSlots
    /\ subscribed \in [PolledSlots -> SUBSET PolledKeys]
    /\ lost \in [PolledSlots -> SUBSET PolledKeys]
    /\ DOMAIN entries \in SUBSET PolledKeys
    /\ entries \in [DOMAIN entries -> Entry(feed)]
    /\ view \in [PolledSlots -> [PolledKeys -> Seen(feed)]]

PollsTyped ==
    /\ polls \in Seq(Polls(feed))
    /\ source \in IF feed = "depth" THEN [Prices -> Nat] ELSE Nat

FeedsTyped == SessionsTyped /\ PollsTyped

-------------------------------------------------------------------------------
(* Sessions and entries.                                                   *)

(* A session that is closed has subscribed nothing and been told nothing.  *)
ClosedForgotten ==
    \A s \in PolledSlots \ open :
        subscribed[s] = {} /\ \A k \in PolledKeys : view[s][k] = None

SessionsInv == ClosedForgotten /\ EntriesExact

-------------------------------------------------------------------------------
(* Deals.                                                                  *)

(* The answer to a poll when the newest deal is top.                       *)
DealsAt(top, since) ==
    LET n == IF top - since > Limit THEN Limit ELSE IF top > since THEN top - since ELSE 0
    IN [i \in 1..n |-> top + 1 - i]

(* Nothing that has been asked for, kept or told is newer than m.          *)
Bounded(m) ==
    /\ \A i \in DOMAIN polls : polls[i].since <= m
    /\ \A k \in DOMAIN entries : \A i \in DOMAIN entries[k].last : entries[k].last[i] <= m
    /\ \A s \in PolledSlots : \A k \in PolledKeys :
          view[s][k] # None => \A d \in view[s][k][1] : d <= m

(* Polls are answered in order, with the newest deals there were then.     *)
Done(i) == polls[i].result # Unknown

AnswerOf(tops, i) ==
    /\ tops[i] <= source /\ Bounded(tops[i])
    /\ \A j \in 1..i : Done(j) /\ tops[j] <= tops[i]
    /\ polls[i].result \in {Failed, Data(DealsAt(tops[i], polls[i].since))}

AnswersInv ==
    \E tops \in [DOMAIN polls -> Nat] : \A i \in DOMAIN polls : Done(i) => AnswerOf(tops, i)

(* What an entry keeps begins with the newest, has no gap, and begins no   *)
(* earlier than the polls for it ask.                                      *)
Gapless(last) ==
    \A i \in DOMAIN last :
        /\ last[i] <= last[1]
        /\ \A d \in last[i] + 1..last[1] : \E j \in 1..i - 1 : last[j] = d

KeptInv ==
    \A k \in DOMAIN entries :
        LET last == entries[k].last
        IN /\ Gapless(last)
           /\ last # <<>> => \A i \in DOMAIN polls : polls[i].key = k => polls[i].since <= last[1]

(* What an entry keeps was told to its sessions, or is older.              *)
Follows(copy, last) ==
    copy # None => last # <<>> /\ \A i \in DOMAIN last :
                       last[i] \in copy[1] \/ \A d \in copy[1] : last[i] < d

CopiesInv ==
    \A k \in DOMAIN entries : \A s \in entries[k].sessions \cap open :
        Follows(view[s][k], entries[k].last)

DealsInv == Bounded(source) /\ AnswersInv /\ KeptInv /\ CopiesInv /\ DealsGapless

FeedsInv == FeedsTyped /\ SessionsInv /\ InStep /\ (feed = "deals" => DealsInv)
-------------------------------------------------------------------------------
(* The kinds of steps, by what they do to entries and sessions.            *)

Keeping ==
    /\ entries' \in {entries, [k \in DOMAIN entries |-> [entries[k] EXCEPT !.clean_due = TRUE]]}
    /\ UNCHANGED <<open, view, subscribed, lost, missed>>

Connecting ==
    /\ \E s \in PolledSlots \ open : open' = open \cup {s}
    /\ UNCHANGED <<entries, view, subscribed, lost, missed>>

(* The sessions of F close, those of gone are found in the entries ents.   *)
Closing(F, gone, ents) ==
    /\ F \subseteq open /\ gone \subseteq F
    /\ open' = open \ F
    /\ entries' = Unsubscribed(ents, gone)
    /\ subscribed' = [s \in PolledSlots |-> IF s \in F THEN {} ELSE subscribed[s]]
    /\ lost' = [s \in PolledSlots |-> IF s \in F THEN {} ELSE lost[s]]
    /\ missed' = missed \cup {s \in F \ gone : subscribed[s] # {}}

Disconnecting ==
    \E s \in open : \E gone \in SUBSET {s} :
        /\ Closing({s}, gone, entries)
        /\ view' = [view EXCEPT ![s] = [k \in PolledKeys |-> None]]

(* What is kept of datum d and what a client makes of it.                  *)
NewLast(d, last) ==
    IF feed = "deals"
    THEN SubSeq(d \o last, 1, IF Len(d \o last) > Limit THEN Limit ELSE Len(d \o last))
    ELSE Some(d)

Learnt(k, d, val, copy) ==
    CASE feed = "depth" -> IF val.last = None \/ val.clean_due THEN Some(d)
                           ELSE Patched(copy, get_list_diff(val.last[1], d, k))
      [] feed = "deals" -> Known(copy, d)
      [] OTHER -> Some(d)

Refreshed(k, d) ==
    LET val == entries[k]
    IN [entries EXCEPT ![k] = [sessions |-> val.sessions, last |-> NewLast(d, val.last),
            clean_due |-> IF feed = "depth" THEN FALSE ELSE val.clean_due]]

TellingOf(k, d, F, gone) ==
    /\ Closing(F, gone, Refreshed(k, d))
    /\ view' = [s \in PolledSlots |->
           IF s \in F THEN [j \in PolledKeys |-> None]
           ELSE IF s \in entries[k].sessions \cap open
                THEN [view[s] EXCEPT ![k] = Learnt(k, d, entries[k], view[s][k])]
                ELSE view[s]]

Telling ==
    \E k \in DOMAIN entries : \E d \in Datum(feed) :
        /\ polls # <<>> /\ Head(polls).key = k /\ Head(polls).result = Data(d)
        /\ polls' = Tail(polls) /\ UNCHANGED source
        /\ feed = "deals" => d # <<>>
        /\ \E F, gone \in SUBSET open : TellingOf(k, d, F, gone)

(* Only the entries of K stay; the sessions of the others lose them.       *)
Dropping ==
    /\ \E K \in SUBSET DOMAIN entries :
          /\ entries' = [k \in K |-> entries[k]]
          /\ lost' \in [PolledSlots -> SUBSET PolledKeys]
          /\ \A s \in PolledSlots : lost[s] \subseteq lost'[s]
          /\ \A k \in DOMAIN entries \ K : \A s \in entries[k].sessions : k \in lost'[s]
    /\ UNCHANGED <<open, view, subscribed, missed>>

(* Session s leaves its entries, joins those of ks and is sent their data. *)
Sent(last) ==
    CASE feed = "deals" -> deals_send_full(last)
      [] feed = "price" -> price_send_last(last)
      [] OTHER -> last

SubscribingOf(s, ks) ==
    /\ entries' = IF ks = {} THEN Unsubscribed(entries, {s})
                  ELSE Subscribed(Unsubscribed(entries, {s}), s, ks)
    /\ \E good \in BOOLEAN :
          /\ feed = "depth" => (good <=> ks # {})
          /\ view' = [view EXCEPT ![s] = [k \in PolledKeys |->
                 IF k \in ks /\ good THEN Sent(entries'[k].last) ELSE None]]
    /\ subscribed' = [subscribed EXCEPT ![s] = ks]
    /\ lost' = [lost EXCEPT ![s] = {}]
    /\ missed' = missed \ {s}
    /\ UNCHANGED open

Subscribing == \E s \in open : \E ks \in SUBSET PolledKeys : SubscribingOf(s, ks)

Kinds == Keeping \/ Connecting \/ Disconnecting \/ Telling \/ Dropping \/ Subscribing

-------------------------------------------------------------------------------
(* Every step is of one of these kinds.                                    *)

LEMMA LeftIsUnsubscribed ==
  ASSUME SessionsTyped, NEW ents, NEW S
  PROVE  Left(ents, S) = Unsubscribed(ents, S)
BY DEF SessionsTyped, Left, kline_unsubscribe, price_unsubscribe, state_unsubscribe,
       today_unsubscribe, deals_unsubscribe

LEMMA ClosedCloses ==
  ASSUME SessionsTyped, NEW S \in SUBSET open, NEW hidden, NEW ents,
         Closed(S, hidden, ents)
  PROVE  \E gone \in SUBSET S : Closing(S, gone, ents)
<1> DEFINE gone == IF feed = "state" THEN {} ELSE S \ hidden
<1>1. gone \in SUBSET S
  OBVIOUS
<1>2. Closing(S, gone, ents)
  BY <1>1, LeftIsUnsubscribed DEF Closed, Closing
<1> QED
  BY <1>1, <1>2

LEMMA EntryIsRecord ==
  ASSUME SessionsTyped, NEW k \in DOMAIN entries
  PROVE  entries[k] = [sessions |-> entries[k].sessions, last |-> entries[k].last,
                       clean_due |-> entries[k].clean_due]
BY DEF SessionsTyped, Entry

(* What a reply tells is told as Telling says.                             *)
Said(k, d) ==
    \E failing \in SUBSET (entries[k].sessions \cap open) : \E hidden \in SUBSET failing :
        /\ Closed(failing, hidden, Refreshed(k, d))
        /\ view' = [s \in PolledSlots |->
               IF s \in failing THEN [j \in PolledKeys |-> None]
               ELSE IF s \in entries[k].sessions \cap open
                    THEN [view[s] EXCEPT ![k] = Learnt(k, d, entries[k], view[s][k])]
                    ELSE view[s]]

LEMMA SaidIsTold ==
  ASSUME SessionsTyped, NEW k \in DOMAIN entries, NEW d, Said(k, d)
  PROVE  \E F, gone \in SUBSET open : TellingOf(k, d, F, gone)
<1>1. PICK F \in SUBSET (entries[k].sessions \cap open) : \E hidden \in SUBSET F :
          /\ Closed(F, hidden, Refreshed(k, d))
          /\ view' = [s \in PolledSlots |->
                 IF s \in F THEN [j \in PolledKeys |-> None]
                 ELSE IF s \in entries[k].sessions \cap open
                      THEN [view[s] EXCEPT ![k] = Learnt(k, d, entries[k], view[s][k])]
                      ELSE view[s]]
  BY DEF Said
<1>2. PICK gone \in SUBSET F : Closing(F, gone, Refreshed(k, d))
  BY <1>1, ClosedCloses
<1> QED
  BY <1>1, <1>2 DEF TellingOf

(* Silence keeps, anything else tells.                                     *)
Replying(k, d) ==
    \/ Keeping
    \/ /\ feed = "deals" => d # <<>>
       /\ \E F, gone \in SUBSET open : TellingOf(k, d, F, gone)

LEMMA DepthReplies ==
  ASSUME SessionsTyped, feed = "depth", NEW k \in DOMAIN entries, NEW d,
         on_market_depth_reply(k, d)
  PROVE  Replying(k, d)
<1> DEFINE val == entries[k]
           full(old) == Some(d)
           stored(due) == [entries EXCEPT ![k].last = Some(d), ![k].clean_due = due]
           diff == get_list_diff(val.last[1], d, k)
           patch(old) == Patched(old, diff)
<1>1. stored(FALSE) = Refreshed(k, d)
  <2> DEFINE r == [sessions |-> val.sessions, last |-> Some(d),
                   clean_due |-> val.clean_due]
             new == [entries EXCEPT ![k] = r]
             no == FALSE
  <2> HIDE DEF no
  <2>1. [val EXCEPT !.last = Some(d)] = r
    BY EntryIsRecord
  <2>2. [r EXCEPT !.clean_due = no]
           = [sessions |-> val.sessions, last |-> Some(d), clean_due |-> no]
    OBVIOUS
  <2>3. [entries EXCEPT ![k].last = Some(d)] = new /\ new[k] = r
    BY <2>1
  <2>4. stored(no) = [new EXCEPT ![k].clean_due = no]
    BY <2>3
  <2> QED
    BY <2>2, <2>3, <2>4 DEF no, Refreshed, NewLast
<1>2. CASE val.last # None /\ DOMAIN diff = {}
  BY <1>2 DEF on_market_depth_reply, Silent, Replying, Keeping
<1>3. CASE val.last = None \/ (DOMAIN diff # {} /\ val.clean_due)
  <2>1. Tell(k, val.sessions, full, stored(FALSE))
    BY <1>3 DEF on_market_depth_reply
  <2>2. \A s \in PolledSlots : full(view[s][k]) = Learnt(k, d, val, view[s][k])
    BY <1>3 DEF Learnt
  <2> HIDE DEF stored
  <2>3. Said(k, d)
    BY ZenonT(30), <1>1, <2>1, <2>2 DEF Said, Tell
  <2> QED
    BY <2>3, SaidIsTold DEF Replying
<1>4. CASE val.last # None /\ DOMAIN diff # {} /\ ~val.clean_due
  <2>1. Tell(k, val.sessions, patch, stored(FALSE))
    BY <1>4 DEF on_market_depth_reply
  <2>2. \A s \in PolledSlots : patch(view[s][k]) = Learnt(k, d, val, view[s][k])
    BY <1>4 DEF Learnt
  <2> HIDE DEF stored, diff
  <2>3. Said(k, d)
    BY ZenonT(30), <1>1, <2>1, <2>2 DEF Said, Tell
  <2> QED
    BY <2>3, SaidIsTold DEF Replying
<1> QED
  BY <1>2, <1>3, <1>4 DEF SessionsTyped, Entry

LEMMA DealsReplies ==
  ASSUME SessionsTyped, feed = "deals", NEW k \in DOMAIN entries, NEW d,
         on_order_deals_reply(k, d)
  PROVE  Replying(k, d)
<1> DEFINE told(old) == Known(old, d)
           ents == [entries EXCEPT ![k].last = NewLast(d, entries[k].last)]
<1>1. ents = Refreshed(k, d)
  <2> DEFINE e == entries[k]
             last == NewLast(d, e.last)
  <2>1. [e EXCEPT !.last = last]
           = [sessions |-> e.sessions, last |-> last, clean_due |-> e.clean_due]
    BY EntryIsRecord
  <2> QED
    BY <2>1 DEF Refreshed
<1>2. CASE d = <<>>
  BY <1>2 DEF on_order_deals_reply, Silent, Replying, Keeping
<1>3. CASE d # <<>>
  <2>1. Tell(k, entries[k].sessions, told, ents)
    BY <1>3 DEF on_order_deals_reply, NewLast
  <2>2. \A s \in PolledSlots : told(view[s][k]) = Learnt(k, d, entries[k], view[s][k])
    BY DEF Learnt
  <2> HIDE DEF ents
  <2>3. Said(k, d)
    BY ZenonT(30), <1>1, <2>1, <2>2 DEF Said, Tell
  <2> QED
    BY <1>3, <2>3, SaidIsTold DEF Replying
<1> QED
  BY <1>2, <1>3

LEMMA IfChangedReplies ==
  ASSUME SessionsTyped, feed \notin {"depth", "deals"}, NEW k \in DOMAIN entries, NEW d,
         IfChanged(k, d)
  PROVE  Replying(k, d)
<1> DEFINE told(old) == Some(d)
           ents == [entries EXCEPT ![k].last = Some(d)]
<1>1. ents = Refreshed(k, d)
  <2> DEFINE e == entries[k]
  <2>1. [e EXCEPT !.last = Some(d)]
           = [sessions |-> e.sessions, last |-> Some(d), clean_due |-> e.clean_due]
    BY EntryIsRecord
  <2> QED
    BY <2>1 DEF Refreshed, NewLast
<1>2. CASE entries[k].last = Some(d)
  BY <1>2 DEF IfChanged, Silent, Replying, Keeping
<1>3. CASE entries[k].last # Some(d)
  <2>1. Tell(k, entries[k].sessions, told, ents)
    BY <1>3 DEF IfChanged
  <2>2. \A s \in PolledSlots : told(view[s][k]) = Learnt(k, d, entries[k], view[s][k])
    BY DEF Learnt
  <2> HIDE DEF ents
  <2>3. Said(k, d)
    BY ZenonT(30), <1>1, <2>1, <2>2 DEF Said, Tell
  <2> QED
    BY <1>3, <2>3, SaidIsTold DEF Replying
<1> QED
  BY <1>2, <1>3

LEMMA ReceiveKind ==
  ASSUME FeedsBounds, SessionsTyped, PollsTyped, Recv
  PROVE  Kinds
<1> DEFINE poll == Head(polls)
           known == poll.waiting /\ poll.key \in DOMAIN entries
           Answer(k, d) ==
               \/ feed = "depth" /\ on_market_depth_reply(k, d)
               \/ feed = "deals" /\ on_order_deals_reply(k, d)
               \/ feed \notin {"depth", "deals"} /\ IfChanged(k, d)
<1>1. /\ polls # <<>> /\ poll.result # Unknown
      /\ polls' = Tail(polls) /\ UNCHANGED source
      /\ \/ Silent(entries)
         \/ /\ known /\ poll.result = Failed
            /\ entries' = [k \in DOMAIN entries \ {poll.key} |-> entries[k]]
            /\ lost' = [s \in PolledSlots |->
                   IF s \in entries[poll.key].sessions
                   THEN lost[s] \cup {poll.key} ELSE lost[s]]
            /\ UNCHANGED <<open, view, subscribed, missed, faults>>
         \/ /\ known /\ poll.result # Failed
            /\ Answer(poll.key, poll.result.data[1])
  BY DEF Recv, on_depth_recv, on_deals_recv, on_kline_recv, on_price_recv,
         on_state_recv, on_today_recv, Receive, on_market_kline_reply,
         on_market_last_reply, on_market_status_reply, on_market_status_today_reply
<1>2. poll \in Polls(feed)
  BY <1>1 DEF PollsTyped
<1>3. CASE Silent(entries)
  BY <1>3 DEF Silent, Kinds, Keeping
<1>4. CASE /\ known
           /\ entries' = [k \in DOMAIN entries \ {poll.key} |-> entries[k]]
           /\ lost' = [s \in PolledSlots |->
                  IF s \in entries[poll.key].sessions
                  THEN lost[s] \cup {poll.key} ELSE lost[s]]
           /\ UNCHANGED <<open, view, subscribed, missed, faults>>
  <2>1. lost' \in [PolledSlots -> SUBSET PolledKeys]
    BY <1>2, <1>4 DEF SessionsTyped, Polls
  <2>2. \A s \in PolledSlots : lost[s] \subseteq lost'[s]
    BY <1>4
  <2>3. \A s \in entries[poll.key].sessions : s \in PolledSlots
    BY <1>4 DEF SessionsTyped, Entry
  <2> DEFINE K == DOMAIN entries \ {poll.key}
  <2>4. \A k \in DOMAIN entries \ K : \A s \in entries[k].sessions : k \in lost'[s]
    BY <1>4, <2>3
  <2>5. K \in SUBSET DOMAIN entries /\ entries' = [k \in K |-> entries[k]]
    BY <1>4
  <2> HIDE DEF K
  <2> QED
    BY <1>4, <2>1, <2>2, <2>4, <2>5 DEF Kinds, Dropping
<1>5. CASE /\ known /\ poll.result # Failed
           /\ Answer(poll.key, poll.result.data[1])
  <2>1. PICK d \in Datum(feed) : poll.result = Data(d)
    BY <1>1, <1>2, <1>5 DEF Polls
  <2>2. poll.result.data[1] = d
    BY <2>1 DEF Data, Some
  <2>3. Replying(poll.key, d)
    BY <1>5, <2>2, DepthReplies, DealsReplies, IfChangedReplies
  <2> QED
    BY <1>1, <1>5, <2>1, <2>3 DEF Replying, Telling, Kinds
<1> QED
  BY <1>1, <1>3, <1>4, <1>5

LEMMA PollKind ==
  ASSUME SessionsTyped, PollTimer
  PROVE  Kinds
<1> DEFINE live == {k \in DOMAIN entries : entries[k].sessions # {}}
<1>1. /\ entries' = [k \in live |-> entries[k]]
      /\ UNCHANGED <<feed, open, view, subscribed, lost, missed>>
  BY DEF PollTimer, on_depth_timer, on_deals_timer, on_kline_timer, on_price_timer,
         on_state_timer, on_today_timer, Poll
<1>2. /\ live \in SUBSET DOMAIN entries
      /\ \A k \in DOMAIN entries \ live : entries[k].sessions = {}
  OBVIOUS
<1>3. lost' \in [PolledSlots -> SUBSET PolledKeys]
  BY <1>1 DEF SessionsTyped
<1> HIDE DEF live
<1> QED
  BY <1>1, <1>2, <1>3 DEF Kinds, Dropping

LEMMA SubscribeKind ==
  ASSUME FeedsBounds, SessionsTyped, NEW s \in PolledSlots,
         NEW ks \in SUBSET PolledKeys, NEW good \in BOOLEAN,
         \/ on_method_depth_subscribe(s, ks, good)
         \/ on_method_kline_subscribe(s, ks, good)
         \/ on_method_price_subscribe(s, ks, good)
         \/ on_method_state_subscribe(s, ks, good)
         \/ on_method_today_subscribe(s, ks, good)
         \/ on_method_deals_subscribe(s, ks, good)
  PROVE  Kinds
<1> DEFINE left == Unsubscribed(entries, {s})
           ents == IF ks = {} THEN left ELSE Subscribed(left, s, ks)
           shown(full) == [view EXCEPT ![s] = [k \in PolledKeys |->
                 IF k \in ks /\ full THEN Sent(ents[k].last) ELSE None]]
<1>1. Left(entries, {s}) = left
  BY LeftIsUnsubscribed
<1>2. /\ Cardinality(ks) = 0 => ks = {}
      /\ Cardinality(ks) = 1 => ks # {} /\ {CHOOSE k \in ks : TRUE} = ks
  <2>1. IsFiniteSet(ks)
    BY FS_Subset DEF FeedsBounds
  <2> QED
    BY <2>1, FS_EmptySet, FS_Singleton
<1>3. /\ s \in open
      /\ entries' = ents
      /\ \E full \in BOOLEAN :
            /\ feed = "depth" => (full <=> ks # {})
            /\ view' = shown(full)
      /\ subscribed' = [subscribed EXCEPT ![s] = ks]
      /\ lost' = [lost EXCEPT ![s] = {}]
      /\ missed' = missed \ {s}
      /\ UNCHANGED open
  <2>1. CASE on_method_depth_subscribe(s, ks, good)
    <3>1. Cardinality(ks) = IF good THEN 1 ELSE 0
      BY <2>1 DEF on_method_depth_subscribe
    <3>2. good <=> ks # {}
      BY <1>2, <3>1
    <3> QED
      BY <1>1, <1>2, <2>1, <3>1, <3>2
         DEF on_method_depth_subscribe, SubscribeAnew, DepthOne, OneOf, depth_subscribe,
             depth_send_clean, Sent
  <2>2. CASE on_method_kline_subscribe(s, ks, good)
    BY <1>1, <1>2, <2>2
       DEF on_method_kline_subscribe, SubscribeAnew, KlineOne, OneOf, kline_subscribe,
           NothingSent, Sent
  <2>3. CASE \/ on_method_price_subscribe(s, ks, good)
             \/ on_method_state_subscribe(s, ks, good)
    BY <1>1, <2>3
       DEF on_method_price_subscribe, on_method_state_subscribe, SubscribeAnew,
           price_subscribe, state_subscribe, price_send_last, state_send_last, Sent
  <2>4. CASE \/ on_method_today_subscribe(s, ks, good)
             \/ on_method_deals_subscribe(s, ks, good)
    BY <1>1, <2>4
       DEF on_method_today_subscribe, on_method_deals_subscribe, SubscribeAnew,
           today_subscribe, deals_subscribe, today_send_last, deals_send_full, Sent
  <2> QED
    BY <2>1, <2>2, <2>3, <2>4
<1> QED
  BY <1>3 DEF SubscribingOf, Subscribing, Kinds

LEMMA UnsubscribeKind ==
  ASSUME SessionsTyped, NEW s \in PolledSlots, on_method_unsubscribe(s)
  PROVE  Kinds
<1>1. SubscribingOf(s, {})
  <2>1. entries' = Unsubscribed(entries, {s})
    BY LeftIsUnsubscribed DEF on_method_unsubscribe
  <2>2. view' = [view EXCEPT ![s] = [k \in PolledKeys |->
            IF k \in {} /\ FALSE THEN Sent(entries'[k].last) ELSE None]]
    BY DEF on_method_unsubscribe
  <2> QED
    BY <2>1, <2>2 DEF on_method_unsubscribe, SubscribingOf
<1> QED
  BY <1>1 DEF on_method_unsubscribe, Subscribing, Kinds

LEMMA DisconnectKind ==
  ASSUME SessionsTyped, NEW s \in PolledSlots, disconnect(s)
  PROVE  Kinds
<1>1. s \in open /\ Closed({s}, {}, entries)
  BY DEF disconnect
<1>2. \E gone \in SUBSET {s} : Closing({s}, gone, entries)
  BY <1>1, ClosedCloses
<1> QED
  BY <1>1, <1>2 DEF disconnect, Disconnecting, Kinds

LEMMA NextKind ==
  ASSUME FeedsBounds, SessionsTyped, PollsTyped, [PolledNext]_polled
  PROVE  Kinds /\ UNCHANGED feed
<1>1. CASE UNCHANGED polled
  BY <1>1 DEF polled, Kinds, Keeping
<1>2. CASE \E s \in PolledSlots : connect(s)
  BY <1>2 DEF connect, Kinds, Connecting
<1>3. CASE \E s \in PolledSlots : disconnect(s)
  BY <1>3, DisconnectKind DEF disconnect
<1>4. CASE \E s \in PolledSlots : on_method_unsubscribe(s)
  BY <1>4, UnsubscribeKind DEF on_method_unsubscribe
<1>5. CASE \E s \in PolledSlots, ks \in SUBSET PolledKeys, good \in BOOLEAN :
              \/ on_method_depth_subscribe(s, ks, good)
              \/ on_method_kline_subscribe(s, ks, good)
              \/ on_method_price_subscribe(s, ks, good)
              \/ on_method_state_subscribe(s, ks, good)
              \/ on_method_today_subscribe(s, ks, good)
              \/ on_method_deals_subscribe(s, ks, good)
  <2>1. Kinds
    BY <1>5, SubscribeKind
  <2> QED
    BY <1>5, <2>1
       DEF on_method_depth_subscribe, on_method_kline_subscribe, on_method_price_subscribe,
           on_method_state_subscribe, on_method_today_subscribe, on_method_deals_subscribe,
           SubscribeAnew
<1>6. CASE PollTimer
  BY <1>6, PollKind
     DEF PollTimer, on_depth_timer, on_deals_timer, on_kline_timer, on_price_timer,
         on_state_timer, on_today_timer, Poll
<1>7. CASE Recv
  BY <1>7, ReceiveKind
     DEF Recv, on_depth_recv, on_deals_recv, on_kline_recv, on_price_recv,
         on_state_recv, on_today_recv, Receive
<1>8. CASE CleanDue
  BY <1>8 DEF CleanDue, Kinds, Keeping
<1>9. CASE SourceChange \/ BackendAnswer \/ BackendError \/ LinkLost
  BY <1>9 DEF SourceChange, BackendAnswer, BackendError, LinkLost, Kinds, Keeping
<1>10. CASE \E i \in DOMAIN polls : on_poll_timeout(i)
  BY <1>10 DEF on_poll_timeout, Kinds, Keeping
<1> QED
  BY <1>1, <1>2, <1>3, <1>4, <1>5, <1>6, <1>7, <1>8, <1>9, <1>10 DEF PolledNext

-------------------------------------------------------------------------------
(* Types are kept.                                                         *)

LEMMA DiffIsDepth ==
  ASSUME NEW copy \in Depths, NEW last \in Depths, NEW d \in Depths, NEW k
  PROVE  LET diff == get_list_diff(last, d, k)
         IN /\ DOMAIN diff \subseteq Prices
            /\ \A p \in DOMAIN diff : diff[p] \in Nat
            /\ Patched(None, diff) = None
            /\ Patched(Some(copy), diff)[1] \in Depths
            /\ Patched(Some(copy), diff) = Some(Patched(Some(copy), diff)[1])
<1> DEFINE diff == get_list_diff(last, d, k)
           left == {p \in DOMAIN copy : p \in DOMAIN diff => diff[p] > 0}
           new == {p \in DOMAIN diff : diff[p] > 0}
           after == [p \in left \cup new |-> IF p \in new THEN diff[p] ELSE copy[p]]
<1>1. /\ copy \in [DOMAIN copy -> Nat \ {0}] /\ DOMAIN copy \subseteq Prices
      /\ last \in [DOMAIN last -> Nat \ {0}] /\ DOMAIN last \subseteq Prices
      /\ d \in [DOMAIN d -> Nat \ {0}] /\ DOMAIN d \subseteq Prices
  BY DEF Depths
<1>2. DOMAIN diff \subseteq Prices /\ \A p \in DOMAIN diff : diff[p] \in Nat
  BY <1>1 DEF get_list_diff
<1>3. Patched(Some(copy), diff) = Some(after) /\ Patched(None, diff) = None
  BY DEF Patched, Some, None
<1>4. after \in [left \cup new -> Nat \ {0}] /\ left \cup new \subseteq Prices
  BY <1>1, <1>2
<1>5. after \in Depths
  BY <1>4 DEF Depths
<1>6. Some(after)[1] = after
  BY DEF Some
<1> QED
  BY <1>2, <1>3, <1>5, <1>6

LEMMA LastTyped ==
  ASSUME FeedsBounds, NEW d \in Datum(feed), NEW last \in Kept(feed)
  PROVE  NewLast(d, last) \in Kept(feed)
<1>1. CASE feed = "deals"
  <2> DEFINE all == d \o last
             n == IF Len(all) > Limit THEN Limit ELSE Len(all)
  <2>1. d \in Seq(Nat) /\ last \in Seq(Nat)
    BY <1>1 DEF Datum, Kept
  <2>2. all \in Seq(Nat)
    BY <2>1
  <2> HIDE DEF all
  <2>3. n \in 0..Len(all)
    BY <2>2 DEF FeedsBounds
  <2>4. SubSeq(all, 1, n) \in Seq(Nat)
    BY <2>2, <2>3
  <2> QED
    BY <1>1, <2>4 DEF all, NewLast, Kept
<1>2. CASE feed # "deals"
  BY <1>2 DEF NewLast, Kept
<1> QED
  BY <1>1, <1>2

LEMMA LearntTyped ==
  ASSUME SessionsTyped, NEW k \in DOMAIN entries, NEW d \in Datum(feed),
         NEW copy \in Seen(feed)
  PROVE  Learnt(k, d, entries[k], copy) \in Seen(feed)
<1> DEFINE last == entries[k].last
<1>1. CASE feed = "depth" /\ (last = None \/ entries[k].clean_due)
  BY <1>1 DEF Learnt, Seen
<1>2. CASE feed = "depth" /\ ~(last = None \/ entries[k].clean_due)
  <2>1. PICK old \in Depths : last = Some(old)
    BY <1>2 DEF SessionsTyped, Entry, Kept, Datum
  <2>2. last[1] = old
    BY <2>1 DEF Some
  <2>3. d \in Depths
    BY <1>2 DEF Datum
  <2>4. Learnt(k, d, entries[k], copy) = Patched(copy, get_list_diff(old, d, k))
    BY <1>2, <2>2 DEF Learnt
  <2>5. copy = None \/ \E c \in Depths : copy = Some(c)
    BY <1>2 DEF Seen, Datum
  <2> QED
    BY <1>2, <2>1, <2>3, <2>4, <2>5, DiffIsDepth DEF Seen, Datum
<1>3. CASE feed = "deals"
  <2>1. d \in Seq(Nat)
    BY <1>3 DEF Datum
  <2>2. {d[i] : i \in DOMAIN d} \subseteq Nat
    BY <2>1
  <2>3. copy = None \/ \E c \in SUBSET Nat : copy = Some(c)
    BY <1>3 DEF Seen
  <2>4. copy # None => copy[1] \subseteq Nat
    <3>1. \A c \in SUBSET Nat : Some(c)[1] = c
      BY DEF Some
    <3> QED
      BY <2>3, <3>1
  <2> QED
    BY <1>3, <2>2, <2>4 DEF Learnt, Known, Seen
<1>4. CASE feed \notin {"depth", "deals"}
  BY <1>4 DEF Learnt, Seen
<1> QED
  BY <1>1, <1>2, <1>3, <1>4 DEF SessionsTyped, Entry

LEMMA ClosingTyped ==
  ASSUME SessionsTyped, NEW F, NEW gone, NEW ents \in [DOMAIN entries -> Entry(feed)],
         Closing(F, gone, ents), UNCHANGED feed,
         view' \in [PolledSlots -> [PolledKeys -> Seen(feed)]]
  PROVE  SessionsTyped'
<1>1. /\ DOMAIN entries' = DOMAIN entries
      /\ entries' \in [DOMAIN entries -> Entry(feed)]
  BY DEF Closing, Unsubscribed, Entry
<1>2. /\ subscribed' \in [PolledSlots -> SUBSET PolledKeys]
      /\ lost' \in [PolledSlots -> SUBSET PolledKeys]
  BY DEF SessionsTyped, Closing
<1>3. open' \in SUBSET PolledSlots /\ missed' \in SUBSET PolledSlots
  BY DEF SessionsTyped, Closing
<1> QED
  BY <1>1, <1>2, <1>3 DEF SessionsTyped

LEMMA TellingTyped ==
  ASSUME FeedsBounds, SessionsTyped, NEW k \in DOMAIN entries, NEW d \in Datum(feed),
         NEW F, NEW gone, TellingOf(k, d, F, gone), UNCHANGED feed
  PROVE  SessionsTyped'
<1>1. entries[k] \in Entry(feed)
  BY DEF SessionsTyped
<1>2. NewLast(d, entries[k].last) \in Kept(feed)
  BY <1>1, LastTyped DEF Entry
<1>3. Refreshed(k, d) \in [DOMAIN entries -> Entry(feed)]
  <2> DEFINE new == NewLast(d, entries[k].last)
  <2>1. new \in Kept(feed)
    BY <1>2
  <2> HIDE DEF new
  <2>2. [sessions |-> entries[k].sessions, last |-> new,
         clean_due |-> IF feed = "depth" THEN FALSE ELSE entries[k].clean_due] \in Entry(feed)
    BY <1>1, <2>1 DEF Entry
  <2> QED
    BY <2>2 DEF new, Refreshed, SessionsTyped
<1>4. \A s \in PolledSlots : Learnt(k, d, entries[k], view[s][k]) \in Seen(feed)
  BY LearntTyped DEF SessionsTyped
<1>5. None \in Seen(feed)
  BY DEF Seen
<1>6. view' \in [PolledSlots -> [PolledKeys -> Seen(feed)]]
  <2> SUFFICES ASSUME NEW s \in PolledSlots
               PROVE  view'[s] \in [PolledKeys -> Seen(feed)]
    BY DEF TellingOf
  <2> DEFINE new == Learnt(k, d, entries[k], view[s][k])
  <2>1. new \in Seen(feed)
    BY <1>4
  <2>2. view'[s] \in {[j \in PolledKeys |-> None], [view[s] EXCEPT ![k] = new], view[s]}
    BY DEF TellingOf
  <2> HIDE DEF new
  <2> QED
    BY <1>5, <2>1, <2>2 DEF SessionsTyped
<1> QED
  BY <1>3, <1>6, ClosingTyped DEF TellingOf

LEMMA NewEntryTyped == NewEntry \in Entry(feed)
<1>1. None \in Seq(Nat)
  BY DEF None
<1>2. NothingYet \in Kept(feed)
  BY <1>1 DEF NothingYet, Kept, Datum
<1> QED
  BY <1>2 DEF NewEntry, Entry

LEMMA SubscribingTyped ==
  ASSUME SessionsTyped, NEW s \in open, NEW ks \in SUBSET PolledKeys,
         SubscribingOf(s, ks), UNCHANGED feed
  PROVE  SessionsTyped'
<1> DEFINE left == Unsubscribed(entries, {s})
<1>1. left \in [DOMAIN entries -> Entry(feed)]
  BY DEF SessionsTyped, Unsubscribed, Entry
<1>2. NewEntry \in Entry(feed)
  BY NewEntryTyped
<1>3. \A e \in Entry(feed) : [e EXCEPT !.sessions = @ \cup {s}] \in Entry(feed)
  BY DEF Entry, SessionsTyped
<1>4. /\ DOMAIN entries' \in SUBSET PolledKeys
      /\ entries' \in [DOMAIN entries' -> Entry(feed)]
      /\ ks \subseteq DOMAIN entries'
  <2>1. CASE ks = {}
    BY <1>1, <2>1 DEF SubscribingOf, SessionsTyped
  <2>2. CASE ks # {}
    <3> HIDE DEF left
    <3> DEFINE e(k) == IF k \in DOMAIN left THEN left[k] ELSE NewEntry
    <3>1. \A k \in DOMAIN left \cup ks : e(k) \in Entry(feed)
      BY <1>1, <1>2
    <3>2. entries' = [k \in DOMAIN left \cup ks |->
                         IF k \in ks THEN [e(k) EXCEPT !.sessions = @ \cup {s}] ELSE e(k)]
      BY <2>2 DEF SubscribingOf, Subscribed, left
    <3> HIDE DEF e
    <3> QED
      BY <1>1, <1>3, <3>1, <3>2 DEF SessionsTyped
  <2> QED
    BY <2>1, <2>2
<1>5. view' \in [PolledSlots -> [PolledKeys -> Seen(feed)]]
  <2>1. \A k \in ks : Sent(entries'[k].last) \in Seen(feed)
    <3> SUFFICES ASSUME NEW last \in Kept(feed)
                 PROVE  Sent(last) \in Seen(feed)
      BY <1>4 DEF Entry
    <3>1. CASE feed = "deals"
      <4>1. last \in Seq(Nat)
        BY <3>1 DEF Kept
      <4>2. {last[i] : i \in DOMAIN last} \subseteq Nat
        BY <4>1
      <4> QED
        BY <3>1, <4>2 DEF Sent, deals_send_full, Known, Seen
    <3>2. CASE feed # "deals"
      BY <3>2 DEF Sent, price_send_last, Kept, Seen
    <3> QED
      BY <3>1, <3>2
  <2>2. None \in Seen(feed)
    BY DEF Seen
  <2> DEFINE sent(k) == Sent(entries'[k].last)
  <2>3. \E good \in BOOLEAN : view' = [view EXCEPT ![s] = [k \in PolledKeys |->
                 IF k \in ks /\ good THEN sent(k) ELSE None]]
    BY DEF SubscribingOf
  <2> HIDE DEF sent
  <2> QED
    BY <2>1, <2>2, <2>3 DEF SessionsTyped, sent
<1> QED
  BY <1>4, <1>5 DEF SubscribingOf, SessionsTyped

LEMMA KindTyped ==
  ASSUME FeedsBounds, SessionsTyped, Kinds, UNCHANGED feed
  PROVE  SessionsTyped'
<1>1. CASE Keeping
  BY ZenonT(30), <1>1 DEF Keeping, SessionsTyped, Entry
<1>2. CASE Connecting
  BY <1>2 DEF Connecting, SessionsTyped
<1>3. CASE Disconnecting
  <2>1. None \in Seen(feed)
    BY DEF Seen
  <2>2. view' \in [PolledSlots -> [PolledKeys -> Seen(feed)]]
    BY <1>3, <2>1 DEF Disconnecting, SessionsTyped
  <2>3. entries \in [DOMAIN entries -> Entry(feed)]
    BY DEF SessionsTyped
  <2> QED
    BY <1>3, <2>2, <2>3, ClosingTyped DEF Disconnecting
<1>4. CASE Telling
  BY <1>4, TellingTyped DEF Telling
<1>5. CASE Dropping
  BY <1>5 DEF Dropping, SessionsTyped
<1>6. CASE Subscribing
  BY <1>6, SubscribingTyped DEF Subscribing
<1> QED
  BY <1>1, <1>2, <1>3, <1>4, <1>5, <1>6 DEF Kinds

-------------------------------------------------------------------------------
(* The polls and the source.                                               *)

LEMMA ResultTyped ==
  ASSUME FeedsBounds, PollsTyped, NEW k \in PolledKeys, NEW since \in Nat
  PROVE  Result(k, since) \in Datum(feed)
<1>1. CASE feed = "depth"
  <2> DEFINE D == Best(Levels(source), k)
             b == [p \in D |-> source[p]]
  <2>1. source \in [Prices -> Nat]
    BY <1>1 DEF PollsTyped
  <2>2. D \subseteq Prices /\ \A p \in D : source[p] \in Nat \ {0}
    BY <2>1 DEF Best, Levels, FeedsBounds
  <2> HIDE DEF D
  <2>3. b \in Depths
    BY <2>2 DEF Depths
  <2> QED
    BY <1>1, <2>3 DEF D, Result, Datum
<1>2. CASE feed = "deals"
  <2> DEFINE n == IF source - since > Limit THEN Limit
                  ELSE IF source > since THEN source - since ELSE 0
             ids == [i \in 1..n |-> source + 1 - i]
  <2>1. source \in Nat
    BY <1>2 DEF PollsTyped
  <2>2. n \in Nat /\ n <= source
    BY <2>1 DEF FeedsBounds
  <2> HIDE DEF n
  <2>3. \A i \in 1..n : source + 1 - i \in Nat
    BY <2>1, <2>2
  <2>4. ids \in Seq(Nat)
    BY <2>2, <2>3, IsASeq
  <2> QED
    BY <1>2, <2>4 DEF n, Result, Datum
<1>3. CASE feed \notin {"depth", "deals"}
  BY <1>3 DEF PollsTyped, Result, Datum
<1> QED
  BY <1>1, <1>2, <1>3

LEMMA PollsChanged ==
  ASSUME PollsTyped, NEW i \in DOMAIN polls, NEW f \in {"waiting", "result"}, NEW x,
         \/ f = "waiting" /\ x \in BOOLEAN
                          /\ polls' = [polls EXCEPT ![i].waiting = x]
         \/ f = "result" /\ x \in {Unknown, Failed} \cup {Data(d) : d \in Datum(feed)}
                         /\ polls' = [polls EXCEPT ![i].result = x]
  PROVE  polls' \in Seq(Polls(feed))
<1>1. /\ polls[i] \in Polls(feed)
      /\ Len(polls) \in Nat /\ polls \in [1..Len(polls) -> Polls(feed)]
  BY LenProperties, ElementOfSeq DEF PollsTyped
<1>2. PICK p : p \in Polls(feed) /\ polls' = [polls EXCEPT ![i] = p]
  <2>1. CASE f = "waiting"
    <3>1. [polls[i] EXCEPT !.waiting = x] \in Polls(feed)
      BY <1>1, <2>1 DEF Polls
    <3> QED
      BY <2>1, <3>1
  <2>2. CASE f = "result"
    <3>1. [polls[i] EXCEPT !.result = x] \in Polls(feed)
      BY <1>1, <2>2 DEF Polls
    <3> QED
      BY <2>2, <3>1
  <2> QED
    BY <2>1, <2>2
<1> QED
  BY <1>1, <1>2, ExceptSeq DEF PollsTyped

(* SetToSeq lists the elements of a finite set.                            *)
LEMMA SetToSeqLists ==
  ASSUME NEW S, IsFiniteSet(S)
  PROVE  SetToSeq(S) \in [1..Cardinality(S) -> S]
<1>1. PICK f : f \in Bijection(1..Cardinality(S), S)
  BY FS_CardinalityType DEF ExistsBijection
<1>2. f \in [1..Cardinality(S) -> S] /\ IsInjective(f)
  BY <1>1 DEF Bijection, Injection, IsInjective
<1> QED
  BY <1>2 DEF SetToSeq

(* A timer polls for entries that stay.                                    *)
Polled(new) ==
    /\ polls' = polls \o new
    /\ \A i \in DOMAIN new : \E k \in DOMAIN entries :
          new[i] = NewPoll(k, last_id(k))

LEMMA TimerPolls ==
  ASSUME FeedsBounds, SessionsTyped, PollTimer
  PROVE  \E new \in Seq(Polls(feed)) : Polled(new)
<1> DEFINE live == {k \in DOMAIN entries : entries[k].sessions # {}}
           n == Cardinality(live)
           new == [i \in 1..n |-> LET k == SetToSeq(live)[i] IN NewPoll(k, last_id(k))]
<1>1. polls' = polls \o new
  BY DEF PollTimer, on_depth_timer, on_deals_timer, on_kline_timer, on_price_timer,
         on_state_timer, on_today_timer, Poll
<1>2. IsFiniteSet(live)
  BY FS_Subset DEF FeedsBounds, SessionsTyped
<1>3. n \in Nat
  BY <1>2, FS_CardinalityType
<1>4. \A i \in 1..n : SetToSeq(live)[i] \in DOMAIN entries
  BY <1>2, SetToSeqLists
<1>5. \A k \in DOMAIN entries : NewPoll(k, last_id(k)) \in Polls(feed)
  <2> SUFFICES ASSUME NEW k \in DOMAIN entries
               PROVE  NewPoll(k, last_id(k)) \in Polls(feed)
    OBVIOUS
  <2>1. k \in PolledKeys /\ entries[k].last \in Kept(feed)
    BY DEF SessionsTyped, Entry
  <2>2. last_id(k) \in Nat
    BY <2>1 DEF last_id, Kept
  <2> QED
    BY <2>1, <2>2 DEF NewPoll, Polls
<1> HIDE DEF n, live
<1>6. \A i \in 1..n : \E k \in DOMAIN entries : new[i] = NewPoll(k, last_id(k))
  BY <1>4
<1>7. new \in Seq(Polls(feed)) /\ DOMAIN new = 1..n
  BY <1>3, <1>5, <1>6, IsASeq
<1> HIDE DEF new
<1> QED
  BY <1>1, <1>6, <1>7 DEF Polled

LEMMA NextPolls ==
  ASSUME FeedsBounds, SessionsTyped, PollsTyped, [PolledNext]_polled
  PROVE  PollsTyped'
<1>0. UNCHANGED feed
  BY NextKind
<1> USE <1>0
<1>1. CASE UNCHANGED polled
  BY <1>1 DEF polled, PollsTyped
<1>2. CASE \E s \in PolledSlots : connect(s) \/ disconnect(s) \/ on_method_unsubscribe(s)
  BY <1>2 DEF connect, disconnect, on_method_unsubscribe, PollsTyped
<1>3. CASE \E s \in PolledSlots, ks \in SUBSET PolledKeys, good \in BOOLEAN :
              \/ on_method_depth_subscribe(s, ks, good)
              \/ on_method_kline_subscribe(s, ks, good)
              \/ on_method_price_subscribe(s, ks, good)
              \/ on_method_state_subscribe(s, ks, good)
              \/ on_method_today_subscribe(s, ks, good)
              \/ on_method_deals_subscribe(s, ks, good)
  BY <1>3
     DEF on_method_depth_subscribe, on_method_kline_subscribe, on_method_price_subscribe,
         on_method_state_subscribe, on_method_today_subscribe, on_method_deals_subscribe,
         SubscribeAnew, PollsTyped
<1>4. CASE PollTimer
  <2>1. PICK new \in Seq(Polls(feed)) : Polled(new)
    BY <1>4, TimerPolls
  <2>2. UNCHANGED source
    BY <1>4 DEF PollTimer, on_depth_timer, on_deals_timer, on_kline_timer,
                on_price_timer, on_state_timer, on_today_timer, Poll
  <2>3. polls' \in Seq(Polls(feed))
    BY <2>1, ConcatProperties DEF Polled, PollsTyped
  <2> QED
    BY <2>2, <2>3 DEF PollsTyped
<1>5. CASE Recv
  <2>1. polls # <<>> /\ polls' = Tail(polls) /\ UNCHANGED source
    BY <1>5 DEF Recv, on_depth_recv, on_deals_recv, on_kline_recv, on_price_recv,
                on_state_recv, on_today_recv, Receive
  <2>2. polls' \in Seq(Polls(feed))
    BY <2>1, HeadTailProperties DEF PollsTyped
  <2> QED
    BY <2>1, <2>2 DEF PollsTyped
<1>6. CASE \E i \in DOMAIN polls : on_poll_timeout(i)
  <2>1. PICK i \in DOMAIN polls : on_poll_timeout(i)
    BY <1>6
  <2>2. polls' \in Seq(Polls(feed))
    BY <2>1, PollsChanged DEF on_poll_timeout
  <2> QED
    BY <2>1, <2>2 DEF on_poll_timeout, PollsTyped
<1>7. CASE CleanDue
  BY <1>7 DEF CleanDue, PollsTyped
<1>8. CASE SourceChange
  <2>1. CASE feed = "depth"
    BY <1>8, <2>1 DEF SourceChange, PollsTyped, FeedsBounds
  <2>2. CASE feed # "depth"
    BY <1>8, <2>2 DEF SourceChange, PollsTyped
  <2> QED
    BY <2>1, <2>2
<1>9. CASE BackendAnswer
  <2>1. PICK i \in DOMAIN polls :
           polls' = [polls EXCEPT ![i].result = Data(Result(polls[i].key, polls[i].since))]
    BY <1>9 DEF BackendAnswer
  <2>2. polls[i] \in Polls(feed)
    BY ElementOfSeq, LenProperties DEF PollsTyped
  <2>3. Result(polls[i].key, polls[i].since) \in Datum(feed)
    BY <2>2, ResultTyped DEF Polls
  <2> DEFINE d == Result(polls[i].key, polls[i].since)
  <2>4. Data(d) \in {Unknown, Failed} \cup {Data(e) : e \in Datum(feed)}
    BY <2>3
  <2> HIDE DEF d
  <2>5. polls' \in Seq(Polls(feed))
    BY <2>1, <2>4, PollsChanged DEF d
  <2> QED
    BY <1>9, <2>5 DEF BackendAnswer, PollsTyped
<1>10. CASE BackendError
  <2>1. PICK i \in DOMAIN polls : polls' = [polls EXCEPT ![i].result = Failed]
    BY <1>10 DEF BackendError
  <2>2. polls' \in Seq(Polls(feed))
    BY <2>1, PollsChanged
  <2> QED
    BY <1>10, <2>2 DEF BackendError, PollsTyped
<1>11. CASE LinkLost
  BY <1>11, EmptySeq DEF LinkLost, PollsTyped
<1> QED
  BY <1>1, <1>2, <1>3, <1>4, <1>5, <1>6, <1>7, <1>8, <1>9, <1>10, <1>11 DEF PolledNext

LEMMA FeedsTypedStep ==
  ASSUME FeedsBounds, FeedsTyped, [PolledNext]_polled
  PROVE  FeedsTyped' /\ Kinds /\ UNCHANGED feed
BY NextKind, KindTyped, NextPolls DEF FeedsTyped

LEMMA FeedsTypedInit ==
  ASSUME FeedsBounds, PolledInit
  PROVE  FeedsTyped
<1>1. /\ feed \in {"depth", "deals", "kline", "price", "state", "today"}
      /\ DOMAIN entries = {} /\ entries = [k \in {} |-> NewEntry] /\ polls = <<>>
      /\ source \in IF feed = "depth" THEN [Prices -> Nat] ELSE Nat
  BY DEF PolledInit, init_depth, init_deals, init_kline, init_price, init_state,
         init_today, Started
<1>2. polls \in Seq(Polls(feed))
  BY <1>1
<1>3. entries \in [DOMAIN entries -> Entry(feed)]
  BY <1>1
<1>4. view \in [PolledSlots -> [PolledKeys -> Seen(feed)]]
  BY DEF PolledInit, Seen
<1> QED
  BY <1>1, <1>2, <1>3, <1>4 DEF PolledInit, FeedsTyped, SessionsTyped, PollsTyped

-------------------------------------------------------------------------------
(* The entries have the sessions that follow them.                         *)

LEMMA ClosingSessions ==
  ASSUME SessionsTyped, SessionsInv, NEW F, NEW gone,
         NEW ents, Closing(F, gone, ents),
         DOMAIN ents = DOMAIN entries,
         \A k \in DOMAIN entries : entries'[k].sessions = entries[k].sessions \ gone,
         \A s \in PolledSlots \ open' : \A k \in PolledKeys : view'[s][k] = None
  PROVE  SessionsInv'
<1>1. DOMAIN entries' = DOMAIN entries
  BY DEF Closing, Unsubscribed
<1>2. ClosedForgotten'
  BY DEF SessionsInv, ClosedForgotten, Closing
<1>3. OnlySubscribers'
  <2> SUFFICES ASSUME NEW k \in DOMAIN entries, NEW s \in entries[k].sessions \ gone
               PROVE  (s \in open' /\ k \in subscribed'[s]) \/ s \in missed'
    BY <1>1 DEF OnlySubscribers
  <2>1. (s \in open /\ k \in subscribed[s]) \/ s \in missed
    BY DEF SessionsInv, EntriesExact, OnlySubscribers
  <2>2. s \in PolledSlots
    BY DEF SessionsTyped, Entry
  <2> QED
    BY <2>1, <2>2 DEF Closing
<1>4. StillSubscribed'
  BY <1>1 DEF SessionsTyped, SessionsInv, EntriesExact, StillSubscribed, Closing
<1> QED
  BY <1>2, <1>3, <1>4 DEF SessionsInv, EntriesExact

(* The entries after a subscription.                                       *)
LEMMA SubscribedEntries ==
  ASSUME SessionsTyped, NEW s, NEW ks \in SUBSET PolledKeys, SubscribingOf(s, ks)
  PROVE  /\ DOMAIN entries' = DOMAIN entries \cup ks
         /\ \A k \in DOMAIN entries' :
               /\ entries'[k].sessions =
                     (IF k \in DOMAIN entries THEN entries[k].sessions \ {s} ELSE {})
                         \cup (IF k \in ks THEN {s} ELSE {})
               /\ entries'[k].last =
                     IF k \in DOMAIN entries THEN entries[k].last ELSE NothingYet
<1> DEFINE left == Unsubscribed(entries, {s})
<1>1. /\ DOMAIN left = DOMAIN entries
      /\ \A k \in DOMAIN entries : /\ left[k] \in Entry(feed)
                                   /\ left[k].sessions = entries[k].sessions \ {s}
                                   /\ left[k].last = entries[k].last
  BY DEF Unsubscribed, SessionsTyped, Entry
<1>2. CASE ks = {}
  BY <1>1, <1>2 DEF SubscribingOf
<1>3. CASE ks # {}
  <2> HIDE DEF left
  <2> DEFINE e(k) == IF k \in DOMAIN left THEN left[k] ELSE NewEntry
  <2>1. \A k \in DOMAIN left \cup ks :
           /\ e(k) \in Entry(feed)
           /\ e(k).sessions = IF k \in DOMAIN entries THEN entries[k].sessions \ {s} ELSE {}
           /\ e(k).last = IF k \in DOMAIN entries THEN entries[k].last ELSE NothingYet
    BY <1>1, NewEntryTyped DEF NewEntry
  <2>2. entries' = [k \in DOMAIN left \cup ks |->
                       IF k \in ks THEN [e(k) EXCEPT !.sessions = @ \cup {s}] ELSE e(k)]
    BY <1>3 DEF SubscribingOf, Subscribed, left
  <2> HIDE DEF e
  <2>3. \A f \in Entry(feed) :
           LET joined == [f EXCEPT !.sessions = @ \cup {s}]
           IN joined.sessions = f.sessions \cup {s} /\ joined.last = f.last
    BY DEF Entry
  <2>4. DOMAIN entries' = DOMAIN entries \cup ks
    BY <1>1, <2>2
  <2>5. \A k \in DOMAIN entries' :
           /\ entries'[k].sessions = IF k \in ks THEN e(k).sessions \cup {s} ELSE e(k).sessions
           /\ entries'[k].last = e(k).last
    BY <2>1, <2>2, <2>3
  <2> QED
    BY <1>1, <2>1, <2>4, <2>5
<1> QED
  BY <1>2, <1>3

LEMMA SubscribingSessions ==
  ASSUME SessionsTyped, SessionsInv, NEW s \in open, NEW ks \in SUBSET PolledKeys,
         SubscribingOf(s, ks)
  PROVE  SessionsInv'
<1> DEFINE now(k) == (IF k \in DOMAIN entries THEN entries[k].sessions \ {s} ELSE {})
                         \cup (IF k \in ks THEN {s} ELSE {})
<1>1. /\ DOMAIN entries' = DOMAIN entries \cup ks
      /\ \A k \in DOMAIN entries' : entries'[k].sessions = now(k)
  BY ZenonT(30), SubscribedEntries
<1>2. s \in PolledSlots
  BY DEF SessionsTyped
<1>3. ClosedForgotten'
  BY <1>2 DEF SessionsTyped, SessionsInv, ClosedForgotten, SubscribingOf
<1>4. OnlySubscribers'
  <2> SUFFICES ASSUME NEW k \in DOMAIN entries \cup ks, NEW t \in now(k)
               PROVE  (t \in open' /\ k \in subscribed'[t]) \/ t \in missed'
    BY <1>1 DEF OnlySubscribers
  <2>1. CASE t = s
    BY <1>2, <2>1 DEF SubscribingOf, SessionsTyped
  <2>2. CASE t # s
    <3>1. k \in DOMAIN entries /\ t \in entries[k].sessions
      BY <2>2
    <3>2. (t \in open /\ k \in subscribed[t]) \/ t \in missed
      BY <3>1 DEF SessionsInv, EntriesExact, OnlySubscribers
    <3> QED
      BY <2>2, <3>2 DEF SubscribingOf, SessionsTyped
  <2> QED
    BY <2>1, <2>2
<1>5. StillSubscribed'
  <2> SUFFICES ASSUME NEW t \in open, NEW k \in subscribed'[t] \ lost'[t]
               PROVE  k \in DOMAIN entries \cup ks /\ t \in now(k)
    BY ZenonT(30), <1>1 DEF StillSubscribed, SubscribingOf
  <2>1. CASE t = s
    BY <1>2, <2>1 DEF SubscribingOf, SessionsTyped
  <2>2. CASE t # s
    BY <2>2 DEF SubscribingOf, SessionsTyped, SessionsInv, EntriesExact, StillSubscribed
  <2> QED
    BY <2>1, <2>2
<1> QED
  BY <1>3, <1>4, <1>5 DEF SessionsInv, EntriesExact

LEMMA KindSessions ==
  ASSUME FeedsBounds, SessionsTyped, SessionsInv, Kinds
  PROVE  SessionsInv'
<1>1. CASE Keeping
  <2>1. /\ DOMAIN entries' = DOMAIN entries
        /\ \A k \in DOMAIN entries : entries'[k].sessions = entries[k].sessions
    BY <1>1 DEF Keeping, SessionsTyped, Entry
  <2> QED
    BY <1>1, <2>1 DEF Keeping, SessionsInv, ClosedForgotten, EntriesExact,
                      OnlySubscribers, StillSubscribed
<1>2. CASE Connecting
  BY <1>2 DEF Connecting, SessionsInv, ClosedForgotten, EntriesExact,
              OnlySubscribers, StillSubscribed
<1>3. CASE Disconnecting
  <2>1. PICK s \in open : \E gone \in SUBSET {s} :
           /\ Closing({s}, gone, entries)
           /\ view' = [view EXCEPT ![s] = [k \in PolledKeys |-> None]]
    BY <1>3 DEF Disconnecting
  <2>2. \A t \in PolledSlots \ open' : \A k \in PolledKeys : view'[t][k] = None
    BY <2>1 DEF Closing, SessionsTyped, SessionsInv, ClosedForgotten
  <2>3. PICK gone : Closing({s}, gone, entries)
    BY <2>1
  <2>4. \A k \in DOMAIN entries : entries'[k].sessions = entries[k].sessions \ gone
    BY <2>3 DEF Closing, Unsubscribed, SessionsTyped, Entry
  <2> QED
    BY <2>2, <2>3, <2>4, ClosingSessions
<1>4. CASE Telling
  <2>1. PICK k \in DOMAIN entries, d \in Datum(feed), F \in SUBSET open, gone \in SUBSET open :
           TellingOf(k, d, F, gone)
    BY <1>4 DEF Telling
  <2>2. /\ DOMAIN Refreshed(k, d) = DOMAIN entries
        /\ \A j \in DOMAIN entries : entries'[j].sessions = entries[j].sessions \ gone
    BY <2>1 DEF TellingOf, Closing, Unsubscribed, Refreshed, SessionsTyped, Entry
  <2>3. \A t \in PolledSlots \ open' : \A j \in PolledKeys : view'[t][j] = None
    BY <2>1 DEF TellingOf, Closing, SessionsInv, ClosedForgotten
  <2> QED
    BY <2>1, <2>2, <2>3, ClosingSessions DEF TellingOf
<1>5. CASE Dropping
  BY <1>5 DEF Dropping, SessionsTyped, SessionsInv, ClosedForgotten, EntriesExact,
              OnlySubscribers, StillSubscribed
<1>6. CASE Subscribing
  BY <1>6, SubscribingSessions DEF Subscribing
<1> QED
  BY <1>1, <1>2, <1>3, <1>4, <1>5, <1>6 DEF Kinds

-------------------------------------------------------------------------------
(* What a step does to one session and one key: nothing, it learns of an   *)
(* answer, or it begins anew.                                              *)

Stays(s, k) ==
    /\ s \in open /\ view'[s][k] = view[s][k]
    /\ Watching(s, k)' => Watching(s, k)
    /\ k \in DOMAIN entries' /\ s \in entries'[k].sessions =>
           /\ k \in DOMAIN entries /\ s \in entries[k].sessions
           /\ entries'[k].last = entries[k].last

Learns(s, k, d) ==
    /\ s \in open /\ k \in DOMAIN entries /\ s \in entries[k].sessions
    /\ Watching(s, k)' => Watching(s, k)
    /\ view'[s][k] = Learnt(k, d, entries[k], view[s][k])
    /\ k \in DOMAIN entries' /\ entries'[k].last = NewLast(d, entries[k].last)
    /\ polls # <<>> /\ Head(polls).key = k /\ Head(polls).result = Data(d)
    /\ feed = "deals" => d # <<>>

Begins(s, k) ==
    \/ view'[s][k] = None /\ (feed = "depth" => ~Watching(s, k)')
    \/ k \in DOMAIN entries' /\ view'[s][k] = Sent(entries'[k].last)

LEMMA KindOfSession ==
  ASSUME SessionsTyped, SessionsInv, Kinds, NEW s \in open', NEW k \in PolledKeys
  PROVE  Stays(s, k) \/ Begins(s, k) \/ \E d \in Datum(feed) : Learns(s, k, d)
<1>1. CASE Keeping
  <2>1. /\ DOMAIN entries' = DOMAIN entries
        /\ \A j \in DOMAIN entries : /\ entries'[j].sessions = entries[j].sessions
                                     /\ entries'[j].last = entries[j].last
    BY <1>1 DEF Keeping, SessionsTyped, Entry
  <2> QED
    BY <1>1, <2>1 DEF Keeping, Stays, Watching
<1>2. CASE Connecting
  <2>1. CASE s \in open
    BY <1>2, <2>1 DEF Connecting, Stays, Watching
  <2>2. CASE s \notin open
    BY <1>2, <2>2 DEF Connecting, Begins, Watching, SessionsInv, ClosedForgotten
  <2> QED
    BY <2>1, <2>2
<1>3. CASE Disconnecting
  <2>1. PICK t \in open, gone \in SUBSET open :
           /\ Closing({t}, gone, entries)
           /\ view' = [view EXCEPT ![t] = [j \in PolledKeys |-> None]]
    BY <1>3 DEF Disconnecting
  <2>2. /\ DOMAIN entries' = DOMAIN entries
        /\ \A j \in DOMAIN entries : /\ entries'[j].sessions = entries[j].sessions \ gone
                                     /\ entries'[j].last = entries[j].last
    BY <2>1 DEF Closing, Unsubscribed, SessionsTyped, Entry
  <2>3. s \in open /\ s # t /\ s \in PolledSlots /\ s \notin gone
    BY <2>1 DEF Closing, SessionsTyped
  <2> QED
    BY <2>1, <2>2, <2>3 DEF Closing, Stays, Watching, SessionsTyped
<1>4. CASE Telling
  <2>1. PICK j \in DOMAIN entries, d \in Datum(feed), F \in SUBSET open, gone \in SUBSET open :
           /\ TellingOf(j, d, F, gone)
           /\ polls # <<>> /\ Head(polls).key = j /\ Head(polls).result = Data(d)
           /\ feed = "deals" => d # <<>>
    BY <1>4 DEF Telling
  <2>2. /\ DOMAIN entries' = DOMAIN entries
        /\ \A i \in DOMAIN entries :
              /\ entries'[i].sessions = entries[i].sessions \ gone
              /\ entries'[i].last = IF i = j THEN NewLast(d, entries[j].last)
                                    ELSE entries[i].last
    BY <2>1 DEF TellingOf, Closing, Unsubscribed, Refreshed, SessionsTyped, Entry
  <2>3. s \in open /\ s \in PolledSlots /\ s \notin F /\ s \notin gone
    BY <2>1 DEF TellingOf, Closing, SessionsTyped
  <2>4. Watching(s, k)' => Watching(s, k)
    BY <2>1, <2>3 DEF TellingOf, Closing, Watching
  <2>5. CASE k = j /\ s \in entries[k].sessions
    <3>1. view'[s][k] = Learnt(k, d, entries[k], view[s][k])
      BY <2>1, <2>3, <2>5 DEF TellingOf, SessionsTyped
    <3> QED
      BY <2>1, <2>2, <2>3, <2>4, <2>5, <3>1 DEF Learns
  <2>6. CASE ~(k = j /\ s \in entries[k].sessions)
    <3>1. view'[s][k] = view[s][k]
      BY <2>1, <2>3, <2>6 DEF TellingOf, SessionsTyped
    <3> QED
      BY <2>2, <2>3, <2>4, <2>6, <3>1 DEF Stays
  <2> QED
    BY <2>5, <2>6
<1>5. CASE Dropping
  BY <1>5 DEF Dropping, Stays, Watching, SessionsTyped
<1>6. CASE Subscribing
  <2>1. PICK t \in open, ks \in SUBSET PolledKeys : SubscribingOf(t, ks)
    BY <1>6 DEF Subscribing
  <2>2. s \in open /\ s \in PolledSlots
    BY <2>1 DEF SubscribingOf, SessionsTyped
  <2>3. CASE s = t
    <3>1. PICK good \in BOOLEAN :
             /\ feed = "depth" => (good <=> ks # {})
             /\ view' = [view EXCEPT ![t] = [j \in PolledKeys |->
                    IF j \in ks /\ good THEN Sent(entries'[j].last) ELSE None]]
      BY <2>1 DEF SubscribingOf
    <3>2. view'[s][k] = IF k \in ks /\ good THEN Sent(entries'[k].last) ELSE None
      BY <2>2, <2>3, <3>1 DEF SessionsTyped
    <3>3. subscribed'[s] = ks
      BY <2>1, <2>2, <2>3 DEF SubscribingOf, SessionsTyped
    <3>4. DOMAIN entries' = DOMAIN entries \cup ks
      BY <2>1, SubscribedEntries
    <3> QED
      BY <3>1, <3>2, <3>3, <3>4 DEF Begins, Watching
  <2>4. CASE s # t
    <3>1. view'[s][k] = view[s][k] /\ (Watching(s, k)' => Watching(s, k))
      BY <2>1, <2>2, <2>4 DEF SubscribingOf, Watching, SessionsTyped
    <3>2. k \in DOMAIN entries' /\ s \in entries'[k].sessions =>
             /\ k \in DOMAIN entries /\ s \in entries[k].sessions
             /\ entries'[k].last = entries[k].last
      <4>1. /\ DOMAIN entries' = DOMAIN entries \cup ks
            /\ \A j \in DOMAIN entries' :
                  /\ entries'[j].sessions =
                        (IF j \in DOMAIN entries THEN entries[j].sessions \ {t} ELSE {})
                            \cup (IF j \in ks THEN {t} ELSE {})
                  /\ entries'[j].last =
                        IF j \in DOMAIN entries THEN entries[j].last ELSE NothingYet
        BY <2>1, SubscribedEntries
      <4> QED
        BY <2>4, <4>1
    <3> QED
      BY <2>2, <3>1, <3>2 DEF Stays
  <2> QED
    BY <2>3, <2>4
<1> QED
  BY <1>1, <1>2, <1>3, <1>4, <1>5, <1>6 DEF Kinds

-------------------------------------------------------------------------------
(* Who watches is in step with what the entry holds.                       *)

Matches(copy, last, k) ==
    CASE feed = "depth" -> last # None =>
             /\ copy # None /\ Covers(copy[1], last[1])
             /\ k >= Cardinality(Prices) => copy = last
      [] feed = "deals" -> Follows(copy, last)
      [] OTHER -> copy \in {None, last}

LEMMA InStepMatches ==
  InStep <=> \A s \in open : \A k \in PolledKeys :
                 Watching(s, k) => Matches(view[s][k], entries[k].last, k)
BY DEF InStep, Matches, Follows

(* A patched depth covers the new one, and is the new one where no level   *)
(* can be pushed out.                                                      *)
LEMMA PatchedCovers ==
  ASSUME FeedsBounds, NEW copy \in Depths, NEW last \in Depths, NEW d \in Depths,
         NEW k \in Nat, Covers(copy, last), k >= Cardinality(Prices) => copy = last
  PROVE  LET new == Patched(Some(copy), get_list_diff(last, d, k))[1]
         IN Covers(new, d) /\ (k >= Cardinality(Prices) => new = d)
<1> DEFINE diff == get_list_diff(last, d, k)
           left == {p \in DOMAIN copy : p \in DOMAIN diff => diff[p] > 0}
           plus == {p \in DOMAIN diff : diff[p] > 0}
           after == [p \in left \cup plus |-> IF p \in plus THEN diff[p] ELSE copy[p]]
           changed == {p \in DOMAIN d : p \notin DOMAIN last \/ last[p] # d[p]}
           gone == {p \in DOMAIN last \ DOMAIN d :
                       \/ Cardinality(DOMAIN d) < k
                       \/ \E q \in DOMAIN d : p < q}
<1>1. Patched(Some(copy), diff)[1] = after
  BY DEF Patched, Some, None
<1>2. /\ copy \in [DOMAIN copy -> Nat \ {0}] /\ DOMAIN copy \subseteq Prices
      /\ last \in [DOMAIN last -> Nat \ {0}] /\ DOMAIN last \subseteq Prices
      /\ d \in [DOMAIN d -> Nat \ {0}] /\ DOMAIN d \subseteq Prices
  BY DEF Depths
<1>3. diff = [p \in gone \cup changed |-> IF p \in changed THEN d[p] ELSE 0]
  BY DEF get_list_diff
<1> HIDE DEF diff
<1>4. /\ DOMAIN diff = gone \cup changed
      /\ \A p \in changed : diff[p] = d[p] /\ d[p] > 0
      /\ \A p \in gone : diff[p] = 0
  BY <1>2, <1>3
<1>5. plus = changed
  BY <1>4
<1>6. left = DOMAIN copy \ gone
  BY <1>4
<1>7. \A p \in DOMAIN d : p \in DOMAIN after /\ after[p] = d[p]
  <2> SUFFICES ASSUME NEW p \in DOMAIN d
               PROVE  p \in DOMAIN after /\ after[p] = d[p]
    OBVIOUS
  <2>1. CASE p \in changed
    BY <1>4, <1>5, <2>1
  <2>2. CASE p \notin changed
    <3>1. p \in DOMAIN copy /\ copy[p] = d[p]
      BY <2>2 DEF Covers
    <3> QED
      BY <1>5, <1>6, <2>2, <3>1
  <2> QED
    BY <2>1, <2>2
<1>8. ASSUME k >= Cardinality(Prices)
      PROVE  after = d
  <2>1. \A p \in DOMAIN last \ DOMAIN d : Cardinality(DOMAIN d) < k
    <3> SUFFICES ASSUME NEW p \in Prices, p \notin DOMAIN d
                 PROVE  Cardinality(DOMAIN d) < k
      BY <1>2
    <3>1. /\ Cardinality(DOMAIN d) \in Nat /\ Cardinality(Prices) \in Nat
          /\ Cardinality(DOMAIN d) <= Cardinality(Prices)
          /\ Cardinality(DOMAIN d) = Cardinality(Prices) => DOMAIN d = Prices
      BY <1>2, FS_Subset, FS_CardinalityType DEF FeedsBounds
    <3> QED
      BY <1>8, <3>1
  <2>2. gone = DOMAIN last \ DOMAIN d
    BY <2>1
  <2>3. DOMAIN after = DOMAIN d
    BY <1>5, <1>6, <1>7, <1>8, <2>2
  <2> QED
    BY <1>2, <1>7, <2>3
<1> QED
  BY <1>1, <1>7, <1>8 DEF Covers, diff

LEMMA DepthLearns ==
  ASSUME FeedsBounds, SessionsTyped, feed = "depth", NEW s \in open, NEW k \in PolledKeys,
         NEW d \in Depths, Learns(s, k, d), Matches(view[s][k], entries[k].last, k)
  PROVE  Matches(view'[s][k], entries'[k].last, k)
<1> DEFINE val == entries[k]
<1>1. entries'[k].last = Some(d) /\ view'[s][k] = Learnt(k, d, val, view[s][k])
  BY DEF Learns, NewLast
<1>2. CASE val.last = None \/ val.clean_due
  BY <1>1, <1>2 DEF Learnt, Matches, Covers, Some, None
<1>3. CASE ~(val.last = None \/ val.clean_due)
  <2>1. PICK last \in Depths : val.last = Some(last)
    BY <1>3 DEF Learns, SessionsTyped, Entry, Kept, Datum
  <2>2. view[s][k] # None
    BY <1>3 DEF Matches
  <2>3. PICK copy \in Depths : view[s][k] = Some(copy)
    BY <2>2 DEF SessionsTyped, Seen, Datum
  <2>4. Some(last)[1] = last /\ Some(copy)[1] = copy /\ Some(d)[1] = d
    BY DEF Some
  <2>5. Covers(copy, last) /\ (k >= Cardinality(Prices) => copy = last)
    BY <1>3, <2>1, <2>3, <2>4 DEF Matches
  <2>6. view'[s][k] = Patched(Some(copy), get_list_diff(last, d, k))
    BY <1>1, <1>3, <2>1, <2>3, <2>4 DEF Learnt
  <2> DEFINE new == Patched(Some(copy), get_list_diff(last, d, k))[1]
  <2>7. view'[s][k] = Some(new)
    BY <2>6, DiffIsDepth
  <2>8. Covers(new, d) /\ (k >= Cardinality(Prices) => new = d)
    BY <2>5, PatchedCovers DEF FeedsBounds
  <2> HIDE DEF new
  <2>9. Some(new)[1] = new /\ Some(new) # None
    BY DEF Some, None
  <2> QED
    BY <1>1, <2>4, <2>7, <2>8, <2>9 DEF Matches
<1> QED
  BY <1>2, <1>3

LEMMA InStepStep ==
  ASSUME FeedsBounds, SessionsTyped, SessionsInv, SessionsInv', InStep, Kinds,
         UNCHANGED feed, feed # "deals"
  PROVE  InStep'
<1> SUFFICES ASSUME NEW s \in open', NEW k \in PolledKeys, Watching(s, k)'
             PROVE  Matches(view'[s][k], entries'[k].last, k)
  BY DEF InStep, Matches
<1>1. k \in DOMAIN entries' /\ s \in entries'[k].sessions
  BY DEF SessionsInv, EntriesExact, StillSubscribed, Watching
<1>2. s \in open /\ Watching(s, k) => Matches(view[s][k], entries[k].last, k)
  BY InStepMatches
<1>3. CASE Stays(s, k)
  BY <1>1, <1>2, <1>3 DEF Stays
<1>4. CASE Begins(s, k)
  BY <1>4 DEF Begins, Matches, Sent, price_send_last, Covers
<1>5. CASE \E d \in Datum(feed) : Learns(s, k, d)
  <2>1. PICK d \in Datum(feed) : Learns(s, k, d)
    BY <1>5
  <2>2. CASE feed = "depth"
    BY <1>2, <2>1, <2>2, DepthLearns DEF Learns, Datum
  <2>3. CASE feed # "depth"
    BY <2>1, <2>3 DEF Learns, Learnt, NewLast, Matches
  <2> QED
    BY <2>2, <2>3
<1> QED
  BY <1>3, <1>4, <1>5, KindOfSession

-------------------------------------------------------------------------------
(* What a step does to what an entry keeps, and to the polls.              *)

LastStays(k) == k \in DOMAIN entries /\ entries'[k].last = entries[k].last

LastLearns(k, d) ==
    /\ k \in DOMAIN entries /\ entries'[k].last = NewLast(d, entries[k].last)
    /\ polls # <<>> /\ Head(polls).key = k /\ Head(polls).result = Data(d)
    /\ polls' = Tail(polls) /\ UNCHANGED source
    /\ feed = "deals" => d # <<>>

LEMMA KindOfEntry ==
  ASSUME SessionsTyped, Kinds, NEW k \in DOMAIN entries'
  PROVE  \/ LastStays(k) \/ entries'[k].last = NothingYet
         \/ \E d \in Datum(feed) : LastLearns(k, d)
<1>1. CASE Keeping
  BY <1>1 DEF Keeping, SessionsTyped, Entry, LastStays
<1>2. CASE Connecting \/ Dropping
  BY <1>2 DEF Connecting, Dropping, LastStays
<1>3. CASE Disconnecting
  BY <1>3 DEF Disconnecting, Closing, Unsubscribed, SessionsTyped, Entry, LastStays
<1>4. CASE Telling
  <2>1. PICK j \in DOMAIN entries, d \in Datum(feed), F \in SUBSET open, gone \in SUBSET open :
           /\ TellingOf(j, d, F, gone)
           /\ polls # <<>> /\ Head(polls).key = j /\ Head(polls).result = Data(d)
           /\ polls' = Tail(polls) /\ UNCHANGED source
           /\ feed = "deals" => d # <<>>
    BY <1>4 DEF Telling
  <2>2. /\ DOMAIN entries' = DOMAIN entries
        /\ \A i \in DOMAIN entries :
              entries'[i].last = IF i = j THEN NewLast(d, entries[j].last) ELSE entries[i].last
    BY <2>1 DEF TellingOf, Closing, Unsubscribed, Refreshed, SessionsTyped, Entry
  <2> QED
    BY <2>1, <2>2 DEF LastStays, LastLearns
<1>5. CASE Subscribing
  BY <1>5, SubscribedEntries DEF Subscribing, LastStays
<1> QED
  BY <1>1, <1>2, <1>3, <1>4, <1>5 DEF Kinds

PollsSame ==
    /\ DOMAIN polls' = DOMAIN polls
    /\ \A j \in DOMAIN polls : /\ polls'[j].key = polls[j].key
                               /\ polls'[j].since = polls[j].since
                               /\ polls'[j].result = polls[j].result

PollsAnswered ==
    /\ DOMAIN polls' = DOMAIN polls
    /\ \E i \in DOMAIN polls :
          /\ Waits(i)
          /\ \A j \in DOMAIN polls :
                /\ polls'[j].key = polls[j].key
                /\ polls'[j].since = polls[j].since
                /\ j # i => polls'[j].result = polls[j].result
          /\ polls'[i].result \in {Failed, Data(Result(polls[i].key, polls[i].since))}

PollsRead == polls # <<>> /\ Head(polls).result # Unknown /\ polls' = Tail(polls)
PollsAsked == \E new \in Seq(Polls(feed)) : Polled(new)

LEMMA NextPollsKind ==
  ASSUME FeedsBounds, FeedsTyped, [PolledNext]_polled, feed = "deals"
  PROVE  \/ PollsSame /\ source' \in {source, source + 1}
         \/ /\ PollsAnswered \/ PollsRead \/ PollsAsked \/ polls' = <<>>
            /\ UNCHANGED source
<1>0. \A j \in DOMAIN polls : polls[j] \in Polls(feed)
  BY LenProperties, ElementOfSeq DEF FeedsTyped, PollsTyped
<1>1. CASE UNCHANGED polled
  BY <1>1 DEF polled, PollsSame
<1>2. CASE \E s \in PolledSlots : connect(s) \/ disconnect(s) \/ on_method_unsubscribe(s)
  BY <1>2 DEF connect, disconnect, on_method_unsubscribe, PollsSame
<1>3. CASE \E s \in PolledSlots, ks \in SUBSET PolledKeys, good \in BOOLEAN :
              \/ on_method_depth_subscribe(s, ks, good)
              \/ on_method_kline_subscribe(s, ks, good)
              \/ on_method_price_subscribe(s, ks, good)
              \/ on_method_state_subscribe(s, ks, good)
              \/ on_method_today_subscribe(s, ks, good)
              \/ on_method_deals_subscribe(s, ks, good)
  BY <1>3
     DEF on_method_depth_subscribe, on_method_kline_subscribe, on_method_price_subscribe,
         on_method_state_subscribe, on_method_today_subscribe, on_method_deals_subscribe,
         SubscribeAnew, PollsSame
<1>4. CASE PollTimer
  <2>1. PollsAsked
    BY <1>4, TimerPolls DEF FeedsTyped, PollsAsked
  <2>2. UNCHANGED source
    BY <1>4 DEF PollTimer, on_depth_timer, on_deals_timer, on_kline_timer,
                on_price_timer, on_state_timer, on_today_timer, Poll
  <2> QED
    BY <2>1, <2>2
<1>5. CASE Recv
  BY <1>5 DEF Recv, on_depth_recv, on_deals_recv, on_kline_recv, on_price_recv,
              on_state_recv, on_today_recv, Receive, PollsRead
<1>6. CASE \E i \in DOMAIN polls : on_poll_timeout(i)
  BY <1>0, <1>6 DEF on_poll_timeout, PollsSame, Polls
<1>7. CASE CleanDue
  BY <1>7 DEF CleanDue, PollsSame
<1>8. CASE SourceChange
  BY <1>8 DEF SourceChange, PollsSame
<1>9. CASE BackendAnswer
  <2>1. PICK i \in DOMAIN polls :
           /\ Waits(i)
           /\ polls' = [polls EXCEPT ![i].result = Data(Result(polls[i].key, polls[i].since))]
    BY <1>9 DEF BackendAnswer
  <2> DEFINE d == Data(Result(polls[i].key, polls[i].since))
  <2>2. polls' = [polls EXCEPT ![i].result = d]
    BY <2>1
  <2> HIDE DEF d
  <2>3. /\ DOMAIN polls' = DOMAIN polls /\ polls'[i].result = d
        /\ \A j \in DOMAIN polls :
              /\ polls'[j].key = polls[j].key
              /\ polls'[j].since = polls[j].since
              /\ j # i => polls'[j].result = polls[j].result
    BY <1>0, <2>2 DEF Polls
  <2>4. UNCHANGED source
    BY <1>9 DEF BackendAnswer
  <2> QED
    BY <2>1, <2>3, <2>4 DEF d, PollsAnswered
<1>10. CASE BackendError
  <2>1. PICK i \in DOMAIN polls : Waits(i) /\ polls' = [polls EXCEPT ![i].result = Failed]
    BY <1>10 DEF BackendError
  <2>2. /\ DOMAIN polls' = DOMAIN polls /\ polls'[i].result = Failed
        /\ \A j \in DOMAIN polls :
              /\ polls'[j].key = polls[j].key
              /\ polls'[j].since = polls[j].since
              /\ j # i => polls'[j].result = polls[j].result
    BY <1>0, <2>1 DEF Polls
  <2>3. UNCHANGED source
    BY <1>10 DEF BackendError
  <2> QED
    BY <2>1, <2>2, <2>3 DEF PollsAnswered
<1>11. CASE LinkLost
  BY <1>11 DEF LinkLost
<1> QED
  BY <1>1, <1>2, <1>3, <1>4, <1>5, <1>6, <1>7, <1>8, <1>9, <1>10, <1>11 DEF PolledNext

-------------------------------------------------------------------------------
(* Answers about deals, and what is kept of them.                          *)
Ids(seq) == {seq[i] : i \in DOMAIN seq}

LEMMA DealsAtIds ==
  ASSUME FeedsBounds, NEW top \in Nat, NEW since \in Nat
  PROVE  LET d == DealsAt(top, since)
         IN /\ d \in Seq(Nat) /\ Len(d) <= Limit
            /\ \A i \in 1..Len(d) : d[i] = top + 1 - i /\ d[i] \in since + 1..top
            /\ \A e \in since + 1..top : Len(d) < Limit \/ e > top - Limit => e \in Ids(d)
            /\ d # <<>> => since < top /\ d[1] = top
<1> DEFINE n == IF top - since > Limit THEN Limit ELSE IF top > since THEN top - since ELSE 0
           d == DealsAt(top, since)
<1>1. n \in Nat /\ n <= Limit /\ n <= top /\ (n # 0 => since < top /\ n <= top - since)
  BY DEF FeedsBounds
<1>2. n < Limit => n = IF top > since THEN top - since ELSE 0
  BY DEF FeedsBounds
<1>3. d = [i \in 1..n |-> top + 1 - i]
  BY DEF DealsAt
<1> HIDE DEF n, d
<1>4. \A i \in 1..n : top + 1 - i \in Nat
  BY <1>1
<1>5. d \in Seq(Nat)
  BY <1>1, <1>3, <1>4, IsASeq
<1>6. Len(d) = n /\ DOMAIN d = 1..n
  BY <1>1, <1>3, <1>5
<1>7. \A i \in 1..n : d[i] = top + 1 - i /\ d[i] \in since + 1..top
  BY <1>1, <1>3
<1>8. \A e \in since + 1..top : n < Limit \/ e > top - Limit => e \in Ids(d)
  <2> SUFFICES ASSUME NEW e \in since + 1..top, n < Limit \/ e > top - Limit
               PROVE  \E i \in 1..n : d[i] = e
    BY <1>6 DEF Ids
  <2>1. top + 1 - e \in 1..n
    BY <1>1, <1>2 DEF n, FeedsBounds
  <2>2. d[top + 1 - e] = e
    BY <1>3, <2>1
  <2> QED
    BY <2>1, <2>2
<1>9. d # <<>> => since < top /\ d[1] = top
  <2> SUFFICES ASSUME d # <<>> PROVE since < top /\ d[1] = top
    OBVIOUS
  <2>1. n # 0
    BY <1>5, <1>6, EmptySeq
  <2> QED
    BY <1>1, <1>7, <2>1
<1> QED
  BY <1>1, <1>5, <1>6, <1>7, <1>8, <1>9 DEF d

LEMMA DealsAtBelow ==
  ASSUME FeedsBounds, NEW m \in Nat, NEW top \in 0..m, NEW since \in Nat
  PROVE  /\ DealsAt(top, since) \in Seq(Nat) /\ Len(DealsAt(top, since)) <= Limit
         /\ \A i \in 1..Len(DealsAt(top, since)) : DealsAt(top, since)[i] <= m
<1> DEFINE d == DealsAt(top, since)
<1>0. top \in Nat
  OBVIOUS
<1>1. /\ d \in Seq(Nat) /\ Len(d) <= Limit
      /\ \A i \in 1..Len(d) : d[i] \in since + 1..top
  BY <1>0, DealsAtIds
<1> HIDE DEF d
<1>2. \A i \in 1..Len(d) : d[i] <= m
  BY <1>1
<1> QED
  BY <1>1, <1>2 DEF d

(* An answer in front of what was kept: all of it, and what was kept of    *)
(* that only if the answer is everything since.                            *)
LEMMA NewLastIs ==
  ASSUME FeedsBounds, feed = "deals", NEW d \in Seq(Nat), d # <<>>, Len(d) <= Limit,
         NEW last \in Seq(Nat)
  PROVE  LET new == NewLast(d, last)
         IN /\ new \in Seq(Nat) /\ Len(new) \in Len(d)..Len(d) + Len(last)
            /\ \A i \in 1..Len(d) : new[i] = d[i]
            /\ \A i \in Len(d) + 1..Len(new) : new[i] = last[i - Len(d)]
            /\ new[1] = d[1]
            /\ Len(new) > Len(d) => Len(d) < Limit
<1> DEFINE all == d \o last
           n == IF Len(all) > Limit THEN Limit ELSE Len(all)
           new == NewLast(d, last)
<1>1. Len(d) \in Nat \ {0} /\ Len(last) \in Nat
  BY EmptySeq, LenProperties
<1>2. all \in Seq(Nat) /\ Len(all) = Len(d) + Len(last)
  BY ConcatProperties
<1>3. \A i \in 1..Len(all) : all[i] = IF i <= Len(d) THEN d[i] ELSE last[i - Len(d)]
  BY ConcatProperties
<1>4. new = SubSeq(all, 1, n)
  BY DEF NewLast
<1> HIDE DEF all
<1>5. n \in Len(d)..Len(all) /\ (n > Len(d) => Len(d) < Limit)
  BY SMTT(20), <1>1, <1>2 DEF FeedsBounds
<1> HIDE DEF n
<1>6. /\ SubSeq(all, 1, n) \in Seq(Nat) /\ Len(SubSeq(all, 1, n)) = n
      /\ \A i \in 1..n : SubSeq(all, 1, n)[i] = all[i]
  BY <1>1, <1>2, <1>5, SubSeqProperties
<1>7. \A i \in 1..n : i \in 1..Len(all)
  BY <1>1, <1>2, <1>5
<1> HIDE DEF new
<1>8. \A i \in 1..n : new[i] = IF i <= Len(d) THEN d[i] ELSE last[i - Len(d)]
  BY <1>3, <1>4, <1>6, <1>7
<1>9. /\ new \in Seq(Nat) /\ Len(new) = n
      /\ n \in Len(d)..Len(d) + Len(last)
  BY <1>1, <1>2, <1>4, <1>5, <1>6
<1> DEFINE a == Len(d)
<1>10. /\ \A i \in 1..a : new[i] = d[i]
       /\ \A i \in a + 1..n : new[i] = last[i - a]
  <2>1. a \in Nat \ {0} /\ n \in Nat /\ a <= n
    BY <1>1, <1>9
  <2>2. \A i \in 1..n : new[i] = IF i <= a THEN d[i] ELSE last[i - a]
    BY <1>8
  <2> HIDE DEF a
  <2> QED
    BY <2>1, <2>2
<1>11. new[1] = d[1]
  BY <1>1, <1>10
<1> QED
  BY <1>5, <1>9, <1>10, <1>11 DEF new

(* What is newly kept is without gaps again, and whatever is left of the   *)
(* old is not newer than the answer asked for.                             *)
LEMMA NewLastKept ==
  ASSUME FeedsBounds, feed = "deals", NEW top \in Nat, NEW since \in Nat,
         NEW last \in Seq(Nat), Gapless(last),
         \A i \in DOMAIN last : last[i] <= top,
         last # <<>> => since <= last[1],
         DealsAt(top, since) # <<>>
  PROVE  LET new == NewLast(DealsAt(top, since), last)
         IN /\ new \in Seq(Nat) /\ new # <<>> /\ new[1] = top
            /\ Gapless(new)
            /\ \A i \in DOMAIN new :
                  /\ new[i] <= top
                  /\ \/ new[i] \in Ids(DealsAt(top, since))
                     \/ new[i] \in Ids(last) /\ new[i] <= since
<1> DEFINE d == DealsAt(top, since)
           new == NewLast(d, last)
<1>1. /\ d \in Seq(Nat) /\ Len(d) <= Limit
      /\ \A i \in 1..Len(d) : d[i] = top + 1 - i /\ d[i] \in since + 1..top
      /\ \A e \in since + 1..top : Len(d) < Limit \/ e > top - Limit => e \in Ids(d)
      /\ since < top /\ d[1] = top
  BY DealsAtIds
<1> HIDE DEF d
<1>2. /\ new \in Seq(Nat) /\ Len(new) \in Len(d)..Len(d) + Len(last)
      /\ \A i \in 1..Len(d) : new[i] = d[i]
      /\ \A i \in Len(d) + 1..Len(new) : new[i] = last[i - Len(d)]
      /\ new[1] = d[1]
      /\ Len(new) > Len(d) => Len(d) < Limit
  BY <1>1, NewLastIs DEF d
<1> HIDE DEF new
<1> DEFINE a == Len(d)
           b == Len(new)
           c == Len(last)
<1>3. /\ a \in Nat \ {0} /\ c \in Nat /\ b \in a..a + c
      /\ b > a => a < Limit
  BY <1>1, <1>2, EmptySeq, LenProperties DEF d
<1>4. /\ DOMAIN new = 1..b /\ DOMAIN d = 1..a /\ DOMAIN last = 1..c
      /\ \A i \in 1..c : last[i] \in Nat
  <2>1. DOMAIN new = 1..b /\ DOMAIN d = 1..a /\ DOMAIN last = 1..c
    BY <1>1, <1>2, LenProperties
  <2>2. \A i \in 1..c : last[i] \in Nat
    BY ElementOfSeq
  <2> QED
    BY <2>1, <2>2
<1>5. /\ \A i \in 1..a : d[i] = top + 1 - i /\ d[i] \in since + 1..top
      /\ \A e \in since + 1..top : a < Limit \/ e > top - Limit => e \in Ids(d)
      /\ \A i \in 1..a : new[i] = d[i]
      /\ \A i \in a + 1..b : new[i] = last[i - a]
  BY <1>1, <1>2
<1> HIDE DEF a, b, c
<1>6. ASSUME NEW i \in DOMAIN new, i > a
      PROVE  /\ i - a \in DOMAIN last /\ new[i] = last[i - a]
             /\ last # <<>> /\ since <= last[1]
             /\ \A e \in since + 1..top : e \in Ids(d)
  <2>1. i - a \in DOMAIN last /\ new[i] = last[i - a]
    BY <1>5, <1>3, <1>4, <1>6
  <2>2. last # <<>>
    BY <1>3, <1>4, <2>1, EmptySeq DEF c
  <2>3. a < Limit
    BY <1>3, <1>4, <1>6
  <2> QED
    BY <1>5, <2>1, <2>2, <2>3
<1>7. ASSUME NEW j \in 1..a
       PROVE  new[j] = top + 1 - j /\ new[j] \in Ids(d)
  <2>1. new[j] = d[j] /\ d[j] = top + 1 - j
    BY <1>3, <1>5
  <2> QED
    BY <1>3, <1>4, <2>1 DEF Ids
<1>8. ASSUME NEW i \in DOMAIN new
      PROVE  /\ new[i] <= top /\ new[i] \in Nat
             /\ \/ new[i] \in Ids(d)
                \/ new[i] \in Ids(last) /\ new[i] <= since
  <2>1. CASE i <= a
    <3>1. i \in 1..a
      BY <1>3, <1>4, <2>1
    <3> QED
      BY <1>3, <1>5, <1>7, <3>1
  <2>2. CASE i > a
    <3>1. new[i] \in Ids(last) /\ new[i] <= top /\ new[i] \in Nat
      BY <1>4, <1>6, <2>2 DEF Ids
    <3>2. new[i] > since => new[i] \in Ids(d)
      BY <1>6, <2>2, <3>1
    <3> QED
      BY <3>1, <3>2
  <2> QED
    BY <1>3, <1>4, <2>1, <2>2
<1>9. ASSUME NEW i \in DOMAIN new, NEW e \in new[i] + 1..top
      PROVE  \E j \in 1..i - 1 : new[j] = e
  <2>1. CASE i <= a
    <3>1. new[i] = top + 1 - i /\ i \in 1..a
      BY <1>3, <1>4, <1>7, <2>1
    <3>2. top + 1 - e \in 1..i - 1
      BY <1>3, <3>1
    <3>3. new[top + 1 - e] = e
      BY <1>3, <1>7, <3>1, <3>2
    <3> QED
      BY <3>2, <3>3
  <2>2. CASE i > a /\ e > since
    <3>1. e \in Ids(d)
      BY <1>6, <1>8, <2>2
    <3>2. PICK j \in 1..a : d[j] = e
      BY <1>4, <3>1 DEF Ids
    <3>3. j \in 1..i - 1 /\ new[j] = e
      BY <1>5, <1>3, <1>4, <2>2, <3>2
    <3> QED
      BY <3>3
  <2>3. CASE i > a /\ e <= since
    <3> DEFINE m == i - a
    <3>1. m \in DOMAIN last /\ new[i] = last[m] /\ since <= last[1]
      BY <1>6, <2>3
    <3>2. last[m] \in Nat /\ last[1] \in Nat
      BY <1>3, <1>4, <3>1
    <3>3. e \in last[m] + 1..last[1]
      BY <3>1, <3>2, <2>3
    <3>4. PICK j \in 1..m - 1 : last[j] = e
      BY <3>1, <3>3 DEF Gapless
    <3>5. j + a \in a + 1..b /\ j + a \in 1..i - 1 /\ (j + a) - a = j
      BY <1>3, <1>4, <2>3
    <3>6. new[j + a] = e
      BY <1>5, <3>4, <3>5
    <3> QED
      BY <3>5, <3>6
  <2> QED
    BY <1>3, <1>4, <1>8, <2>1, <2>2, <2>3
<1>10. Gapless(new)
  BY <1>1, <1>2, <1>8, <1>9 DEF Gapless
<1>11. new # <<>>
  BY <1>3, EmptySeq DEF b
<1> QED
  BY <1>1, <1>2, <1>8, <1>10, <1>11 DEF d, new

-------------------------------------------------------------------------------
(* Bounds on deals stay.                                                   *)

PollsKinds == PollsSame \/ PollsAnswered \/ PollsRead \/ PollsAsked \/ polls' = <<>>

(* The answer to be read is of when no deal was newer than m.              *)
ReadsUpTo(m) ==
    \A d \in Datum(feed) : polls # <<>> /\ Head(polls).result = Data(d) =>
        \E top \in 0..m : \E since \in Nat : d = DealsAt(top, since)

LEMMA PollsBounded ==
  ASSUME FeedsTyped, feed = "deals", PollsKinds, NEW m \in Nat, Bounded(m)
  PROVE  \A i \in DOMAIN polls' : polls'[i].since <= m
<1>1. CASE PollsSame \/ PollsAnswered
  BY <1>1 DEF PollsSame, PollsAnswered, Bounded
<1>2. CASE PollsRead
  <2>1. /\ DOMAIN polls' = 1..Len(polls) - 1 /\ DOMAIN polls = 1..Len(polls)
        /\ Len(polls) \in Nat
        /\ \A i \in 1..Len(polls) - 1 : polls'[i] = polls[i + 1]
    BY <1>2, HeadTailProperties, LenProperties DEF PollsRead, FeedsTyped, PollsTyped
  <2> QED
    BY <2>1 DEF Bounded
<1>3. CASE PollsAsked
  <2>1. PICK new \in Seq(Polls(feed)) : Polled(new)
    BY <1>3 DEF PollsAsked
  <2>2. /\ polls' = polls \o new
        /\ DOMAIN polls = 1..Len(polls) /\ DOMAIN new = 1..Len(new)
        /\ DOMAIN (polls \o new) = 1..Len(polls) + Len(new)
        /\ Len(polls) \in Nat /\ Len(new) \in Nat
        /\ \A i \in 1..Len(polls) + Len(new) :
              (polls \o new)[i] = IF i <= Len(polls) THEN polls[i] ELSE new[i - Len(polls)]
    BY <2>1, ConcatProperties, LenProperties DEF Polled, FeedsTyped, PollsTyped
  <2>3. \A i \in DOMAIN new : new[i].since <= m
    <3> SUFFICES ASSUME NEW k \in DOMAIN entries
                 PROVE  NewPoll(k, last_id(k)).since <= m
      BY <2>1 DEF Polled
    <3>1. entries[k].last \in Seq(Nat)
      BY DEF FeedsTyped, SessionsTyped, Entry, Kept
    <3>2. last_id(k) <= m
      BY <3>1, EmptySeq DEF last_id, Bounded
    <3> QED
      BY <3>2 DEF NewPoll
  <2> DEFINE all == polls \o new
  <2>4. polls' = all /\ DOMAIN all = 1..Len(polls) + Len(new)
    BY <2>2
  <2>5. \A i \in DOMAIN all : all[i].since <= m
    BY <2>2, <2>3 DEF Bounded
  <2> HIDE DEF all
  <2> QED
    BY <2>4, <2>5
<1>4. CASE polls' = <<>>
  BY <1>4
<1> QED
  BY <1>1, <1>2, <1>3, <1>4 DEF PollsKinds

LEMMA LastBounded ==
  ASSUME FeedsBounds, FeedsTyped, feed = "deals", Kinds, NEW m \in Nat, Bounded(m),
         ReadsUpTo(m), NEW k \in DOMAIN entries'
  PROVE  \A i \in DOMAIN entries'[k].last : entries'[k].last[i] <= m
<1>1. CASE LastStays(k)
  BY <1>1 DEF LastStays, Bounded
<1>2. CASE entries'[k].last = NothingYet
  BY <1>2 DEF NothingYet, None
<1>3. CASE \E d \in Datum(feed) : LastLearns(k, d)
  <2>1. PICK d \in Datum(feed) : LastLearns(k, d)
    BY <1>3
  <2>2. PICK top \in 0..m, since \in Nat : d = DealsAt(top, since)
    BY <2>1 DEF LastLearns, ReadsUpTo
  <2>3. /\ d \in Seq(Nat) /\ Len(d) <= Limit
        /\ \A i \in 1..Len(d) : d[i] <= m
    BY <2>2, DealsAtBelow
  <2> DEFINE last == entries[k].last
             new == NewLast(d, last)
  <2>4. last \in Seq(Nat) /\ \A i \in 1..Len(last) : last[i] <= m
    BY <2>1 DEF FeedsTyped, SessionsTyped, Entry, Kept, LastLearns, Bounded
  <2>5. d # <<>> /\ entries'[k].last = new
    BY <2>1 DEF LastLearns
  <2> HIDE DEF last
  <2>6. /\ new \in Seq(Nat) /\ Len(new) \in Len(d)..Len(d) + Len(last)
        /\ \A i \in 1..Len(d) : new[i] = d[i]
        /\ \A i \in Len(d) + 1..Len(new) : new[i] = last[i - Len(d)]
    BY <2>3, <2>4, <2>5, NewLastIs
  <2> HIDE DEF new
  <2>7. Len(d) \in Nat /\ Len(last) \in Nat /\ Len(new) \in Nat /\ DOMAIN new = 1..Len(new)
    BY <2>3, <2>4, <2>6
  <2>8. ASSUME NEW i \in 1..Len(new)
        PROVE  new[i] <= m
    <3>1. CASE i <= Len(d)
      BY SMTT(20), <2>3, <2>6, <2>7, <3>1
    <3>2. CASE i > Len(d)
      <4>1. i \in Len(d) + 1..Len(new) /\ i - Len(d) \in 1..Len(last)
        BY <2>6, <2>7, <3>2
      <4> QED
        BY <2>4, <2>6, <4>1
    <3> QED
      BY <2>7, <3>1, <3>2
  <2> QED
    BY <2>5, <2>7, <2>8
<1> QED
  BY <1>1, <1>2, <1>3, KindOfEntry DEF FeedsTyped

LEMMA CopyBounded ==
  ASSUME FeedsBounds, FeedsTyped, SessionsInv, SessionsInv', feed = "deals", Kinds,
         NEW m \in Nat, Bounded(m), ReadsUpTo(m), NEW s \in PolledSlots,
         NEW k \in PolledKeys, view'[s][k] # None
  PROVE  \A e \in view'[s][k][1] : e <= m
<1>1. s \in open'
  BY DEF SessionsInv, ClosedForgotten
<1>2. CASE Stays(s, k)
  BY <1>2 DEF Stays, Bounded
<1>3. CASE Begins(s, k)
  <2>1. /\ k \in DOMAIN entries' /\ entries'[k].last # <<>>
        /\ view'[s][k] = Known(None, entries'[k].last)
    BY <1>3 DEF Begins, Sent, deals_send_full
  <2>2. view'[s][k][1] = {entries'[k].last[i] : i \in DOMAIN entries'[k].last}
    BY <2>1 DEF Known, Some, None
  <2> QED
    BY <2>1, <2>2, LastBounded
<1>4. CASE \E d \in Datum(feed) : Learns(s, k, d)
  <2>1. PICK d \in Datum(feed) : Learns(s, k, d)
    BY <1>4
  <2>2. PICK top \in 0..m, since \in Nat : d = DealsAt(top, since)
    BY <2>1 DEF Learns, ReadsUpTo
  <2>3. /\ d \in Seq(Nat) /\ Len(d) <= Limit
        /\ \A i \in 1..Len(d) : d[i] <= m
    BY <2>2, DealsAtBelow
  <2>4. view'[s][k] = Known(view[s][k], d)
    BY <2>1 DEF Learns, Learnt
  <2>5. view'[s][k][1] = (IF view[s][k] = None THEN {} ELSE view[s][k][1])
                             \cup {d[i] : i \in DOMAIN d}
    BY <2>4 DEF Known, Some
  <2>6. DOMAIN d = 1..Len(d)
    BY <2>3
  <2> QED
    BY <2>3, <2>5, <2>6 DEF Bounded
<1> QED
  BY <1>1, <1>2, <1>3, <1>4, KindOfSession DEF FeedsTyped

LEMMA BoundedStep ==
  ASSUME FeedsBounds, FeedsTyped, SessionsInv, SessionsInv', feed = "deals", Kinds,
         PollsKinds, NEW m \in Nat, Bounded(m), ReadsUpTo(m)
  PROVE  /\ \A i \in DOMAIN polls' : polls'[i].since <= m
         /\ \A k \in DOMAIN entries' : \A i \in DOMAIN entries'[k].last :
               entries'[k].last[i] <= m
         /\ \A s \in PolledSlots : \A k \in PolledKeys :
               view'[s][k] # None => \A d \in view'[s][k][1] : d <= m
BY PollsBounded, LastBounded, CopyBounded

-------------------------------------------------------------------------------
(* Polls go on being answered in order.                                    *)

Answered(tops) == \A i \in DOMAIN polls : Done(i) => AnswerOf(tops, i)

(* An answer to be read is of when its poll was answered.                  *)
LEMMA HeadAnswered ==
  ASSUME FeedsTyped, feed = "deals", NEW tops \in [DOMAIN polls -> Nat], Answered(tops),
         polls # <<>>, NEW d, Head(polls).result = Data(d)
  PROVE  /\ 1 \in DOMAIN polls /\ Head(polls) = polls[1] /\ Done(1)
         /\ AnswerOf(tops, 1) /\ tops[1] \in Nat
         /\ polls[1].since \in Nat /\ polls[1].key \in PolledKeys
         /\ d = DealsAt(tops[1], polls[1].since)
<1>1. 1 \in DOMAIN polls /\ Head(polls) = polls[1] /\ polls[1] \in Polls(feed)
  BY EmptySeq, LenProperties, HeadTailProperties DEF FeedsTyped, PollsTyped
<1>2. Data(d) # Unknown /\ Data(d) # Failed
  BY DEF Data, Unknown, Failed
<1>3. Done(1) /\ AnswerOf(tops, 1)
  BY <1>1, <1>2 DEF Done, Answered
<1>4. polls[1].result = Data(DealsAt(tops[1], polls[1].since))
  BY <1>1, <1>2, <1>3 DEF AnswerOf
<1>5. \A e : Data(d) = Data(e) => d = e
  BY DEF Data, Some
<1> QED
  BY <1>1, <1>3, <1>4, <1>5 DEF Polls

LEMMA AllReadUpTo ==
  ASSUME FeedsTyped, feed = "deals", NEW tops \in [DOMAIN polls -> Nat], Answered(tops),
         NEW m \in Nat, polls # <<>> /\ Done(1) => tops[1] <= m
  PROVE  ReadsUpTo(m)
<1> SUFFICES ASSUME NEW d \in Datum(feed), polls # <<>>, Head(polls).result = Data(d)
             PROVE  \E top \in 0..m : \E since \in Nat : d = DealsAt(top, since)
  BY DEF ReadsUpTo
<1>1. /\ Done(1) /\ tops[1] \in Nat /\ polls[1].since \in Nat
      /\ d = DealsAt(tops[1], polls[1].since)
  BY HeadAnswered
<1>2. tops[1] \in 0..m
  BY <1>1
<1> QED
  BY <1>1, <1>2

BoundedAfter(m) ==
    /\ \A i \in DOMAIN polls' : polls'[i].since <= m
    /\ \A k \in DOMAIN entries' : \A i \in DOMAIN entries'[k].last :
          entries'[k].last[i] <= m
    /\ \A s \in PolledSlots : \A k \in PolledKeys :
          view'[s][k] # None => \A d \in view'[s][k][1] : d <= m

LEMMA AnswersStay ==
  ASSUME FeedsBounds, FeedsTyped, SessionsInv, SessionsInv', feed = "deals", Kinds,
         PollsKinds, NEW tops \in [DOMAIN polls -> Nat], Answered(tops)
  PROVE  /\ \A i \in DOMAIN polls : Done(i) => BoundedAfter(tops[i])
         /\ Bounded(source) => BoundedAfter(source)
<1>1. ASSUME NEW i \in DOMAIN polls, Done(i)
      PROVE  BoundedAfter(tops[i])
  <2>1. AnswerOf(tops, i) /\ tops[i] \in Nat
    BY <1>1 DEF Answered
  <2>2. i \in Nat /\ i >= 1
    BY LenProperties DEF FeedsTyped, PollsTyped
  <2>3. tops[1] <= tops[i]
    BY <2>1, <2>2 DEF AnswerOf
  <2>4. ReadsUpTo(tops[i])
    BY <2>1, <2>3, AllReadUpTo
  <2>5. Bounded(tops[i])
    BY <2>1 DEF AnswerOf
  <2> QED
    BY <2>1, <2>4, <2>5, BoundedStep DEF BoundedAfter
<1>2. ASSUME Bounded(source)
      PROVE  BoundedAfter(source)
  <2>1. source \in Nat
    BY DEF FeedsTyped, PollsTyped
  <2>2. polls # <<>> /\ Done(1) => tops[1] <= source
    BY LenProperties, EmptySeq DEF FeedsTyped, PollsTyped, Answered, AnswerOf
  <2>3. ReadsUpTo(source)
    BY <2>1, <2>2, AllReadUpTo
  <2> QED
    BY <1>2, <2>1, <2>3, BoundedStep DEF BoundedAfter
<1> QED
  BY <1>1, <1>2

(* What AnswersInv asks of an answer, in the state after.                   *)
AnswerAfter(tops, i) ==
    /\ tops[i] <= source' /\ BoundedAfter(tops[i])
    /\ \A j \in 1..i : polls'[j].result # Unknown /\ tops[j] <= tops[i]
    /\ polls'[i].result \in {Failed, Data(DealsAt(tops[i], polls'[i].since))}

AnsweredAfter(tops) ==
    /\ tops \in [DOMAIN polls' -> Nat]
    /\ \A i \in DOMAIN polls' : polls'[i].result # Unknown => AnswerAfter(tops, i)

LEMMA AnswersAfter ==
  ASSUME NEW tops, AnsweredAfter(tops)
  PROVE  AnswersInv'
<1>1. \A i \in DOMAIN polls' : (Done(i))' => (AnswerOf(tops, i))'
  BY DEF Done, AnswerOf, AnsweredAfter, AnswerAfter, Bounded, BoundedAfter
<1> QED
  BY <1>1 DEF AnswersInv, AnsweredAfter

LEMMA AnsweredStays ==
  ASSUME FeedsBounds, FeedsTyped, FeedsTyped', SessionsInv, SessionsInv', feed = "deals",
         UNCHANGED feed, Kinds, Bounded(source), AnswersInv,
         \/ PollsSame /\ source' \in {source, source + 1}
         \/ /\ PollsAnswered \/ PollsRead \/ PollsAsked \/ polls' = <<>>
            /\ UNCHANGED source
  PROVE  AnswersInv' /\ Bounded(source)'
<1>1. PICK tops \in [DOMAIN polls -> Nat] : Answered(tops)
  BY DEF AnswersInv, Answered
<1>2. /\ \A i \in DOMAIN polls : Done(i) => BoundedAfter(tops[i])
      /\ BoundedAfter(source)
  BY <1>1, AnswersStay DEF PollsKinds
<1>3. /\ source \in Nat /\ source' \in Nat /\ source <= source'
      /\ Len(polls) \in Nat /\ DOMAIN polls = 1..Len(polls) /\ polls \in Seq(Polls(feed))
  BY LenProperties DEF FeedsTyped, PollsTyped
<1>4. Bounded(source)'
  <2>1. \A i \in DOMAIN polls' : polls'[i].since <= source'
    <3>1. polls' \in Seq(Polls(feed))
      BY DEF FeedsTyped, PollsTyped
    <3>2. \A i \in DOMAIN polls' : polls'[i] \in Polls(feed)
      BY <3>1, ElementOfSeq, LenProperties
    <3>3. \A i \in DOMAIN polls' : polls'[i].since \in Nat
      BY <3>2 DEF Polls
    <3> QED
      BY <1>2, <1>3, <3>3 DEF BoundedAfter
  <2>2. \A k \in DOMAIN entries' : \A i \in DOMAIN entries'[k].last :
           entries'[k].last[i] <= source'
    <3>1. \A k \in DOMAIN entries' : entries'[k].last \in Seq(Nat)
      BY DEF FeedsTyped, SessionsTyped, Entry, Kept
    <3>2. \A k \in DOMAIN entries' : \A i \in DOMAIN entries'[k].last :
             entries'[k].last[i] \in Nat
      BY <3>1, ElementOfSeq, LenProperties
    <3> QED
      BY <1>2, <1>3, <3>2 DEF BoundedAfter
  <2>3. \A s \in PolledSlots : \A k \in PolledKeys :
           view'[s][k] # None => \A d \in view'[s][k][1] : d <= source'
    <3>1. \A s \in PolledSlots : \A k \in PolledKeys :
             view'[s][k] # None => \A d \in view'[s][k][1] : d \in Nat
      <4> SUFFICES ASSUME NEW s \in PolledSlots, NEW k \in PolledKeys, view'[s][k] # None
                   PROVE  \A d \in view'[s][k][1] : d \in Nat
        OBVIOUS
      <4>1. view'[s][k] \in Seen(feed)
        BY DEF FeedsTyped, SessionsTyped
      <4>2. PICK c \in SUBSET Nat : view'[s][k] = Some(c)
        BY <4>1 DEF Seen
      <4>3. Some(c)[1] = c
        BY DEF Some
      <4> QED
        BY <4>2, <4>3
    <3> QED
      BY <1>2, <1>3, <3>1 DEF BoundedAfter
  <2> QED
    BY <2>1, <2>2, <2>3 DEF Bounded
<1>5. CASE PollsSame
  <2>1. \A i \in DOMAIN polls' : polls'[i].result # Unknown => AnswerAfter(tops, i)
    <3> SUFFICES ASSUME NEW i \in DOMAIN polls, Done(i)
                 PROVE  AnswerAfter(tops, i)
      BY <1>5 DEF PollsSame, Done
    <3>1. AnswerOf(tops, i) /\ BoundedAfter(tops[i]) /\ tops[i] \in Nat
      BY <1>1, <1>2 DEF Answered
    <3>2. \A j \in 1..i : j \in DOMAIN polls
      BY <1>3
    <3> QED
      <4>1. polls'[i].since = polls[i].since /\ polls'[i].result = polls[i].result
        BY <1>5 DEF PollsSame
      <4>2. \A j \in 1..i : polls'[j].result # Unknown /\ tops[j] <= tops[i]
        BY <1>5, <3>1, <3>2 DEF AnswerOf, Done, PollsSame
      <4>3. tops[i] <= source'
        BY <1>3, <3>1 DEF AnswerOf
      <4>4. polls'[i].result \in {Failed, Data(DealsAt(tops[i], polls'[i].since))}
        BY <3>1, <4>1 DEF AnswerOf
      <4> QED
        BY <3>1, <4>2, <4>3, <4>4 DEF AnswerAfter
  <2>2. tops \in [DOMAIN polls' -> Nat]
    BY <1>5 DEF PollsSame
  <2>3. AnsweredAfter(tops)
    BY <2>1, <2>2 DEF AnsweredAfter
  <2> QED
    BY <1>4, <2>3, AnswersAfter
<1>6. CASE PollsAnswered /\ UNCHANGED source
  <2>1. PICK n \in DOMAIN polls :
           /\ Waits(n)
           /\ \A j \in DOMAIN polls :
                 /\ polls'[j].key = polls[j].key
                 /\ polls'[j].since = polls[j].since
                 /\ j # n => polls'[j].result = polls[j].result
           /\ polls'[n].result \in {Failed, Data(Result(polls[n].key, polls[n].since))}
    BY <1>6 DEF PollsAnswered
  <2> DEFINE new == [tops EXCEPT ![n] = source]
  <2>2. /\ DOMAIN polls' = DOMAIN polls
        /\ new \in [DOMAIN polls' -> Nat] /\ new[n] = source
        /\ \A j \in DOMAIN polls : j # n => new[j] = tops[j]
    BY <1>3, <1>6 DEF PollsAnswered
  <2> HIDE DEF new
  <2>3. AnswerAfter(new, n)
    <3>1. \A j \in 1..n - 1 : j \in DOMAIN polls /\ Done(j) /\ j # n
      BY <1>3, <2>1 DEF Waits, Done
    <3>2. \A j \in 1..n - 1 : polls'[j].result # Unknown /\ new[j] <= source
      BY <1>1, <2>1, <2>2, <3>1 DEF Answered, AnswerOf, Done
    <3>3. polls'[n].result # Unknown
      BY <2>1 DEF Data, Failed, Unknown
    <3>4. Result(polls[n].key, polls[n].since) = DealsAt(source, polls[n].since)
      BY DEF Result, DealsAt
    <3>5. \A j \in 1..n : j = n \/ j \in 1..n - 1
      BY <1>3
    <3> QED
      BY <1>2, <1>3, <1>6, <2>1, <2>2, <3>2, <3>3, <3>4, <3>5 DEF AnswerAfter
  <2>4. ASSUME NEW i \in DOMAIN polls, i # n, polls'[i].result # Unknown
        PROVE  AnswerAfter(new, i)
    <3>1. AnswerOf(tops, i) /\ BoundedAfter(tops[i])
      BY <1>1, <1>2, <2>1, <2>4 DEF Answered, Done
    <3>2. ~Done(n)
      BY <2>1 DEF Waits, Done
    <3>3. \A j \in 1..i : j \in DOMAIN polls /\ Done(j) /\ j # n /\ tops[j] <= tops[i]
      BY <1>3, <3>1, <3>2 DEF AnswerOf
    <3>4. new[i] = tops[i] /\ \A j \in 1..i : new[j] = tops[j]
      BY <2>2, <2>4, <3>3
    <3>5. \A j \in 1..i : polls'[j].result # Unknown
      BY <2>1, <3>3 DEF Done
    <3> QED
      BY <1>6, <2>1, <2>4, <3>1, <3>3, <3>4, <3>5 DEF AnswerAfter, AnswerOf
  <2>5. AnsweredAfter(new)
    BY <2>2, <2>3, <2>4 DEF AnsweredAfter
  <2> QED
    BY <1>4, <2>5, AnswersAfter
<1>7. CASE PollsRead /\ UNCHANGED source
  <2>1. /\ DOMAIN polls' = 1..Len(polls) - 1
        /\ \A i \in 1..Len(polls) - 1 : polls'[i] = polls[i + 1]
    BY <1>3, <1>7, HeadTailProperties, LenProperties DEF PollsRead
  <2> DEFINE new == [i \in DOMAIN polls' |-> tops[i + 1]]
  <2>2. new \in [DOMAIN polls' -> Nat] /\ \A i \in DOMAIN polls' : new[i] = tops[i + 1]
    BY <1>3, <2>1
  <2> HIDE DEF new
  <2>3. ASSUME NEW i \in DOMAIN polls', polls'[i].result # Unknown
        PROVE  AnswerAfter(new, i)
    <3>1. i + 1 \in DOMAIN polls /\ polls'[i] = polls[i + 1] /\ new[i] = tops[i + 1]
      BY <1>3, <2>1, <2>2
    <3>2. AnswerOf(tops, i + 1) /\ BoundedAfter(tops[i + 1])
      BY <1>1, <1>2, <2>3, <3>1 DEF Answered, Done
    <3>3. ASSUME NEW j \in 1..i
          PROVE  /\ j \in DOMAIN polls' /\ j + 1 \in 1..i + 1
                 /\ polls'[j] = polls[j + 1] /\ new[j] = tops[j + 1]
      <4>1. j \in 1..Len(polls) - 1 /\ j + 1 \in 1..i + 1
        BY <1>3, <2>1
      <4> QED
        BY <2>1, <2>2, <4>1
    <3>4. \A j \in 1..i + 1 : Done(j) /\ tops[j] <= tops[i + 1]
      BY <3>2 DEF AnswerOf
    <3>5. \A j \in 1..i : polls'[j].result # Unknown /\ new[j] <= new[i]
      BY <3>1, <3>3, <3>4 DEF Done
    <3> QED
      BY <1>7, <3>1, <3>2, <3>5 DEF AnswerAfter, AnswerOf
  <2>4. AnsweredAfter(new)
    BY <2>2, <2>3 DEF AnsweredAfter
  <2> QED
    BY <1>4, <2>4, AnswersAfter
<1>8. CASE PollsAsked /\ UNCHANGED source
  <2>1. PICK asked \in Seq(Polls(feed)) : Polled(asked)
    BY <1>8 DEF PollsAsked
  <2> DEFINE all == polls \o asked
  <2>2. /\ Len(asked) \in Nat /\ DOMAIN asked = 1..Len(asked)
        /\ DOMAIN all = 1..Len(polls) + Len(asked)
        /\ \A i \in 1..Len(polls) + Len(asked) :
              all[i] = IF i <= Len(polls) THEN polls[i] ELSE asked[i - Len(polls)]
    BY <1>3, ConcatProperties, LenProperties
  <2>3. polls' = all
    BY <2>1 DEF Polled
  <2> HIDE DEF all
  <2>4. /\ \A i \in DOMAIN polls : i \in DOMAIN polls' /\ polls'[i] = polls[i]
        /\ \A i \in DOMAIN polls' \ DOMAIN polls :
              i - Len(polls) \in DOMAIN asked /\ polls'[i] = asked[i - Len(polls)]
    BY <1>3, <2>2, <2>3
  <2>5. \A i \in DOMAIN polls' \ DOMAIN polls : polls'[i].result = Unknown
    BY <2>1, <2>4 DEF Polled, NewPoll
  <2> DEFINE new == [i \in DOMAIN polls' |-> IF i \in DOMAIN polls THEN tops[i] ELSE 0]
  <2>6. new \in [DOMAIN polls' -> Nat] /\ \A i \in DOMAIN polls : new[i] = tops[i]
    BY <2>4
  <2> HIDE DEF new
  <2>7. ASSUME NEW i \in DOMAIN polls', polls'[i].result # Unknown
        PROVE  AnswerAfter(new, i)
    <3>1. i \in DOMAIN polls /\ Done(i)
      BY <2>4, <2>5, <2>7 DEF Done
    <3>2. AnswerOf(tops, i) /\ BoundedAfter(tops[i])
      BY <1>1, <1>2, <3>1 DEF Answered
    <3>3. \A j \in 1..i : j \in DOMAIN polls
      BY <1>3, <3>1
    <3>4. \A j \in 1..i : polls'[j].result # Unknown /\ new[j] <= new[i]
      BY <2>4, <2>6, <3>1, <3>2, <3>3 DEF AnswerOf, Done
    <3> QED
      BY <1>8, <2>4, <2>6, <3>1, <3>2, <3>4 DEF AnswerAfter, AnswerOf
  <2>8. AnsweredAfter(new)
    BY <2>6, <2>7 DEF AnsweredAfter
  <2> QED
    BY <1>4, <2>8, AnswersAfter
<1>9. CASE polls' = <<>>
  <2>1. DOMAIN polls' = {}
    BY <1>9
  <2> DEFINE new == [i \in DOMAIN polls' |-> 0]
  <2>2. new \in [DOMAIN polls' -> Nat]
    OBVIOUS
  <2>3. AnsweredAfter(new)
    BY <2>1, <2>2 DEF AnsweredAfter
  <2> QED
    BY <1>4, <2>3, AnswersAfter
<1> QED
  BY <1>5, <1>6, <1>7, <1>8, <1>9

-------------------------------------------------------------------------------
(* What is kept, and what was told of it.                                  *)

LEMMA KeptStays ==
  ASSUME FeedsBounds, FeedsTyped, feed = "deals", Kinds, PollsKinds, KeptInv, AnswersInv
  PROVE  KeptInv'
<1>1. PICK tops \in [DOMAIN polls -> Nat] : Answered(tops)
  BY DEF AnswersInv, Answered
<1>2. /\ Len(polls) \in Nat /\ DOMAIN polls = 1..Len(polls) /\ polls \in Seq(Polls(feed))
      /\ \A k \in DOMAIN entries : entries[k].last \in Seq(Nat)
  BY LenProperties DEF FeedsTyped, PollsTyped, SessionsTyped, Entry, Kept
<1>3. ASSUME PollsRead
      PROVE  \A i \in DOMAIN polls' : i + 1 \in DOMAIN polls /\ polls'[i] = polls[i + 1]
  BY <1>2, <1>3, HeadTailProperties, LenProperties DEF PollsRead
<1> SUFFICES ASSUME NEW k \in DOMAIN entries'
             PROVE  LET last == entries'[k].last
                    IN /\ Gapless(last)
                       /\ last # <<>> => \A i \in DOMAIN polls' :
                              polls'[i].key = k => polls'[i].since <= last[1]
  BY DEF KeptInv, Gapless
<1>4. CASE LastStays(k)
  <2> DEFINE last == entries[k].last
  <2>1. /\ k \in DOMAIN entries /\ entries'[k].last = last /\ Gapless(last)
        /\ last # <<>> => \A i \in DOMAIN polls : polls[i].key = k => polls[i].since <= last[1]
    BY <1>4 DEF LastStays, KeptInv
  <2>2. ASSUME last # <<>>, NEW i \in DOMAIN polls', polls'[i].key = k
        PROVE  polls'[i].since <= last[1]
    <3>1. CASE PollsSame \/ PollsAnswered
      BY <2>1, <2>2, <3>1 DEF PollsSame, PollsAnswered
    <3>2. CASE PollsRead
      BY <1>3, <2>1, <2>2, <3>2
    <3>3. CASE PollsAsked
      <4>1. PICK asked \in Seq(Polls(feed)) : Polled(asked)
        BY <3>3 DEF PollsAsked
      <4> DEFINE all == polls \o asked
      <4>2. /\ Len(asked) \in Nat /\ DOMAIN asked = 1..Len(asked)
            /\ DOMAIN all = 1..Len(polls) + Len(asked)
            /\ \A j \in 1..Len(polls) + Len(asked) :
                  all[j] = IF j <= Len(polls) THEN polls[j] ELSE asked[j - Len(polls)]
        BY <1>2, ConcatProperties, LenProperties
      <4>3. polls' = all
        BY <4>1 DEF Polled
      <4> HIDE DEF all
      <4>4. \/ i \in DOMAIN polls /\ polls'[i] = polls[i]
            \/ \E j \in DOMAIN asked : polls'[i] = asked[j]
        <5>1. CASE i <= Len(polls)
          BY <1>2, <4>2, <4>3, <5>1
        <5>2. CASE i > Len(polls)
          <6>1. i - Len(polls) \in DOMAIN asked
            BY <1>2, <4>2, <4>3, <5>2
          <6>2. polls'[i] = asked[i - Len(polls)]
            BY <1>2, <4>2, <4>3, <5>2
          <6> QED
            BY <6>1, <6>2
        <5> QED
          BY <1>2, <4>2, <4>3, <5>1, <5>2
      <4>5. CASE i \in DOMAIN polls /\ polls'[i] = polls[i]
        BY <2>1, <2>2, <4>5
      <4>6. CASE \E j \in DOMAIN asked : polls'[i] = asked[j]
        <5>1. PICK key \in DOMAIN entries : polls'[i] = NewPoll(key, last_id(key))
          BY <4>1, <4>6 DEF Polled
        <5>2. key = k /\ polls'[i].since = last_id(k)
          BY <2>2, <5>1 DEF NewPoll
        <5>3. last \in Seq(Nat) /\ last_id(k) = Head(last)
          BY <1>2, <2>1, <2>2 DEF last_id
        <5>4. Head(last) = last[1] /\ last[1] \in Nat
          BY <2>2, <5>3, HeadTailProperties, EmptySeq, ElementOfSeq, LenProperties
        <5> QED
          BY <5>2, <5>3, <5>4
      <4> QED
        BY <4>4, <4>5, <4>6
    <3>4. CASE polls' = <<>>
      BY <2>2, <3>4
    <3> QED
      BY <3>1, <3>2, <3>3, <3>4 DEF PollsKinds
  <2> QED
    BY <2>1, <2>2
<1>5. CASE entries'[k].last = NothingYet
  BY <1>5 DEF NothingYet, None, Gapless
<1>6. CASE \E d \in Datum(feed) : LastLearns(k, d)
  <2>1. PICK d \in Datum(feed) : LastLearns(k, d)
    BY <1>6
  <2> DEFINE top == tops[1]
             since == polls[1].since
             last == entries[k].last
  <2>2. /\ 1 \in DOMAIN polls /\ top \in Nat /\ since \in Nat /\ AnswerOf(tops, 1)
        /\ d = DealsAt(top, since) /\ d # <<>> /\ polls[1].key = k
        /\ k \in DOMAIN entries /\ entries'[k].last = NewLast(d, last)
        /\ polls # <<>> /\ Head(polls).result # Unknown /\ polls' = Tail(polls)
    BY <1>1, <2>1, HeadAnswered DEF LastLearns, Done
  <2>3. /\ last \in Seq(Nat) /\ Gapless(last) /\ (last # <<>> => since <= last[1])
        /\ \A i \in DOMAIN last : last[i] <= top
        /\ \A i \in DOMAIN polls : polls[i].since <= top
    BY <1>2, <2>2 DEF KeptInv, AnswerOf, Bounded
  <2> HIDE DEF top, since, last
  <2>4. Gapless(NewLast(d, last)) /\ NewLast(d, last)[1] = top
    BY <2>2, <2>3, NewLastKept
  <2>5. \A i \in DOMAIN polls' : polls'[i].since <= top
    BY <1>3, <2>2, <2>3 DEF PollsRead
  <2> QED
    BY <2>2, <2>4, <2>5
<1> QED
  BY <1>4, <1>5, <1>6, KindOfEntry DEF FeedsTyped

(* What a session learns of with an answer, and what the entry has before. *)
Hears(s, k, top, since, old, last) ==
    /\ top \in Nat /\ since \in Nat /\ last \in Seq(Nat) /\ old \in SUBSET Nat
    /\ DealsAt(top, since) # <<>>
    /\ entries'[k].last = NewLast(DealsAt(top, since), last)
    /\ view'[s][k] = Some(old \cup Ids(DealsAt(top, since)))
    /\ Gapless(last) /\ (last # <<>> => since <= last[1])
    /\ \A i \in DOMAIN last : last[i] <= top
    /\ \A e \in old : e <= top
    /\ old # {} => last # <<>> /\ view[s][k] = Some(old)
    /\ \A i \in DOMAIN last : last[i] \in old \/ \A e \in old : last[i] < e

LEMMA LearnsHears ==
  ASSUME FeedsBounds, FeedsTyped, feed = "deals", AnswersInv, KeptInv, CopiesInv,
         NEW s \in PolledSlots, NEW k \in PolledKeys, NEW d \in Datum(feed), Learns(s, k, d)
  PROVE  \E top, since, old, last : Hears(s, k, top, since, old, last)
<1>1. PICK tops \in [DOMAIN polls -> Nat] : Answered(tops)
  BY DEF AnswersInv, Answered
<1> DEFINE top == tops[1]
           since == polls[1].since
           last == entries[k].last
           old == IF view[s][k] = None THEN {} ELSE view[s][k][1]
<1>2. /\ 1 \in DOMAIN polls /\ top \in Nat /\ since \in Nat /\ AnswerOf(tops, 1)
      /\ d = DealsAt(top, since) /\ d # <<>> /\ polls[1].key = k
      /\ k \in DOMAIN entries /\ entries'[k].last = NewLast(d, last)
      /\ s \in open /\ s \in entries[k].sessions
      /\ view'[s][k] = Known(view[s][k], d)
  BY <1>1, HeadAnswered DEF Learns, Learnt
<1>3. last \in Seq(Nat)
  BY <1>2 DEF FeedsTyped, SessionsTyped, Entry, Kept
<1>4. /\ Gapless(last) /\ (last # <<>> => since <= last[1])
      /\ \A i \in DOMAIN last : last[i] <= top
  BY <1>2 DEF KeptInv, AnswerOf, Bounded
<1>5. /\ old \in SUBSET Nat
      /\ old # {} => view[s][k] # None /\ view[s][k] = Some(old)
  <2>1. view[s][k] \in Seen(feed)
    BY DEF FeedsTyped, SessionsTyped
  <2>2. CASE view[s][k] = None
    BY <2>2
  <2>3. CASE view[s][k] # None
    <3>1. PICK c \in SUBSET Nat : view[s][k] = Some(c)
      BY <2>1, <2>3 DEF Seen
    <3>2. Some(c)[1] = c
      BY DEF Some
    <3> QED
      BY <2>3, <3>1, <3>2
  <2> QED
    BY <2>2, <2>3
<1>6. \A e \in old : e <= top
  BY <1>2 DEF AnswerOf, Bounded
<1>7. Follows(view[s][k], last)
  BY <1>2 DEF CopiesInv
<1>8. /\ old # {} => last # <<>>
      /\ \A i \in DOMAIN last : last[i] \in old \/ \A e \in old : last[i] < e
  BY <1>7 DEF Follows
<1>9. view'[s][k] = Some(old \cup Ids(d))
  BY <1>2 DEF Known, Ids
<1> HIDE DEF top, since, last, old
<1>10. Hears(s, k, top, since, old, last)
  BY <1>2, <1>3, <1>4, <1>5, <1>6, <1>8, <1>9 DEF Hears
<1> QED
  BY <1>10

LEMMA LearnsFollows ==
  ASSUME FeedsBounds, feed = "deals", NEW s, NEW k, NEW top, NEW since, NEW old, NEW last,
         Hears(s, k, top, since, old, last)
  PROVE  Follows(view'[s][k], entries'[k].last)
<1> DEFINE d == DealsAt(top, since)
           new == NewLast(d, last)
<1>1. /\ top \in Nat /\ since \in Nat /\ last \in Seq(Nat) /\ old \in SUBSET Nat
      /\ entries'[k].last = new /\ view'[s][k] = Some(old \cup Ids(d))
      /\ \A i \in DOMAIN last : last[i] \in old \/ \A e \in old : last[i] < e
  BY DEF Hears
<1>2. /\ new # <<>>
      /\ \A i \in DOMAIN new : new[i] \in Ids(d) \/ (new[i] \in Ids(last) /\ new[i] <= since)
  BY NewLastKept DEF Hears
<1>3. d \in Seq(Nat) /\ \A i \in 1..Len(d) : d[i] \in since + 1..top
  BY <1>1, DealsAtIds
<1> HIDE DEF d
<1>4. ASSUME NEW e \in Ids(d)
      PROVE  e \in Nat /\ since < e
  <2>1. PICK i \in DOMAIN d : d[i] = e
    BY DEF Ids
  <2>2. e \in since + 1..top
    BY <1>3, <2>1
  <2> QED
    BY <1>1, <2>2
<1> HIDE DEF new
<1>5. ASSUME NEW i \in DOMAIN new
      PROVE  new[i] \in old \cup Ids(d) \/ \A e \in old \cup Ids(d) : new[i] < e
  <2>1. CASE new[i] \in Ids(d)
    BY <2>1
  <2>2. CASE new[i] \in Ids(last) /\ new[i] <= since
    <3>1. PICK j \in DOMAIN last : new[i] = last[j]
      BY <2>2 DEF Ids
    <3>2. new[i] \in old \/ \A e \in old : new[i] < e
      BY <1>1, <3>1
    <3>3. last[j] \in Nat
      BY <1>1, ElementOfSeq, LenProperties
    <3>4. \A e \in Ids(d) : new[i] < e
      BY <1>1, <1>4, <2>2, <3>1, <3>3
    <3> QED
      BY <3>2, <3>4
  <2> QED
    BY <1>2, <2>1, <2>2
<1>6. Some(old \cup Ids(d))[1] = old \cup Ids(d)
  BY DEF Some
<1> QED
  BY <1>1, <1>2, <1>5, <1>6 DEF Follows

LEMMA CopiesStay ==
  ASSUME FeedsBounds, FeedsTyped, SessionsInv, feed = "deals", Kinds, AnswersInv, KeptInv,
         CopiesInv, NEW s \in open', NEW k \in PolledKeys,
         k \in DOMAIN entries', s \in entries'[k].sessions, s \in PolledSlots
  PROVE  Follows(view'[s][k], entries'[k].last)
<1>1. CASE Stays(s, k)
  BY <1>1 DEF Stays, CopiesInv
<1>2. CASE Begins(s, k)
  <2> DEFINE last == entries'[k].last
  <2>1. CASE view'[s][k] = None
    BY <2>1 DEF Follows
  <2>2. CASE view'[s][k] # None
    <3>1. last # <<>> /\ view'[s][k] = Some(Ids(last))
      BY <1>2, <2>2 DEF Begins, Sent, deals_send_full, Known, Ids
    <3>2. Some(Ids(last))[1] = Ids(last)
      BY DEF Some
    <3> QED
      BY <3>1, <3>2 DEF Follows, Ids
  <2> QED
    BY <2>1, <2>2
<1>3. CASE \E d \in Datum(feed) : Learns(s, k, d)
  <2>1. PICK top, since, old, last : Hears(s, k, top, since, old, last)
    BY <1>3, LearnsHears
  <2> QED
    BY <2>1, LearnsFollows
<1> QED
  BY <1>1, <1>2, <1>3, KindOfSession DEF FeedsTyped

LEMMA CopiesInvStep ==
  ASSUME FeedsBounds, FeedsTyped, FeedsTyped', SessionsInv, feed = "deals", Kinds,
         AnswersInv, KeptInv, CopiesInv
  PROVE  CopiesInv'
<1>1. ASSUME NEW k \in DOMAIN entries', NEW s \in entries'[k].sessions \cap open'
      PROVE  Follows(view'[s][k], entries'[k].last)
  BY CopiesStay DEF FeedsTyped, SessionsTyped
<1> QED
  BY <1>1 DEF CopiesInv, Follows

-------------------------------------------------------------------------------
(* Nothing is missing between what was told.                               *)

Newer(copy, d) == {e \in copy : e > d}

NoGap(copy) ==
    \A d \in Nat : (\E e \in copy : e < d) /\ Newer(copy, d) # {} /\ d \notin copy
                      => Cardinality(Newer(copy, d)) >= Limit

LEMMA GaplessHasNoGap ==
  ASSUME NEW last \in Seq(Nat), Gapless(last)
  PROVE  NoGap(Ids(last))
<1> SUFFICES ASSUME NEW d \in Nat, NEW e \in Ids(last), e < d, NEW f \in Ids(last), d < f,
                    d \notin Ids(last)
             PROVE  FALSE
  BY DEF NoGap, Newer
<1>1. PICK i \in DOMAIN last : last[i] = e
  BY DEF Ids
<1>2. PICK j \in DOMAIN last : last[j] = f
  BY DEF Ids
<1>3. /\ last[1] \in Nat /\ last[i] \in Nat /\ last[j] \in Nat
      /\ DOMAIN last = 1..Len(last) /\ Len(last) \in Nat
  BY <1>1, ElementOfSeq, LenProperties
<1>4. d \in last[i] + 1..last[1]
  BY <1>1, <1>2, <1>3 DEF Gapless
<1>5. PICK h \in 1..i - 1 : last[h] = d
  BY <1>4 DEF Gapless
<1>6. h \in DOMAIN last
  BY <1>3, <1>5
<1>7. d \in Ids(last)
  BY <1>5, <1>6 DEF Ids
<1> QED
  BY <1>7

(* A copy with an answer to what followed since, when since is not newer   *)
(* than the newest that was kept.                                          *)
LEMMA HeardNoGap ==
  ASSUME FeedsBounds, NEW top \in Nat, NEW since \in Nat, NEW last \in Seq(Nat),
         NEW old \in SUBSET Nat, NoGap(old), \A e \in old : e <= top,
         last # <<>> => since <= last[1],
         old # {} => last # <<>>,
         \A i \in DOMAIN last : last[i] \in old \/ \A e \in old : last[i] < e,
         DealsAt(top, since) # <<>>
  PROVE  NoGap(old \cup Ids(DealsAt(top, since)))
<1> DEFINE new == DealsAt(top, since)
           ids == Ids(new)
           all == old \cup ids
<1> SUFFICES NoGap(all)
  OBVIOUS
<1>1. /\ new \in Seq(Nat) /\ Len(new) <= Limit
      /\ \A i \in 1..Len(new) : new[i] = top + 1 - i /\ new[i] \in since + 1..top
      /\ \A e \in since + 1..top : Len(new) < Limit \/ e > top - Limit => e \in ids
      /\ since < top
  BY DealsAtIds
<1> HIDE DEF new
<1>2. \A e \in ids : e \in Nat /\ since < e /\ e <= top
  BY <1>1, LenProperties DEF Ids
<1>3. Limit \in Nat \ {0} /\ Len(new) \in Nat
  BY <1>1, LenProperties DEF FeedsBounds
<1>4. Len(new) = Limit => \A e \in ids : e > top - Limit
  BY <1>1, <1>3, LenProperties DEF Ids
<1> HIDE DEF ids
<1>5. all \in SUBSET Nat /\ \A e \in all : e <= top
  BY <1>2
<1>6. IsFiniteSet(all)
  <2> HIDE DEF all
  <2> QED
    BY <1>5, FS_BoundedSetOfNaturals
<1> SUFFICES ASSUME NEW d \in Nat, NEW e \in all, e < d, NEW f \in all, d < f, d \notin all
             PROVE  Cardinality(Newer(all, d)) >= Limit
  BY DEF NoGap, Newer
<1>7. IsFiniteSet(Newer(all, d)) /\ Cardinality(Newer(all, d)) \in Nat
  BY <1>6, FS_Subset, FS_CardinalityType DEF Newer
<1>8. e \in Nat /\ f \in Nat /\ f <= top /\ d < top
  BY <1>2
<1>9. CASE d > since
  <2>1. Len(new) = Limit /\ d <= top - Limit
    BY <1>1, <1>3, <1>8, <1>9
  <2>2. top - Limit + 1..top \subseteq Newer(all, d)
    BY <1>1, <1>3, <1>9, <2>1 DEF Newer
  <2> DEFINE low == top - Limit + 1
  <2>3. low \in Int /\ low <= top /\ top - low + 1 = Limit
    BY <1>3, <2>1
  <2>4. top - Limit + 1..top = low..top
    OBVIOUS
  <2> HIDE DEF low
  <2>5. Cardinality(low..top) = Limit
    BY <2>3, FS_Interval
  <2> QED
    BY <1>3, <1>7, <2>2, <2>4, <2>5, FS_Subset
<1>10. CASE d <= since
  <2>1. e \in old
    BY <1>2, <1>8, <1>10
  <2>2. /\ last # <<>> /\ since <= last[1] /\ 1 \in DOMAIN last /\ last[1] \in Nat
    BY <2>1, EmptySeq, LenProperties, ElementOfSeq
  <2>3. last[1] \in old
    BY <1>8, <1>10, <2>1, <2>2
  <2>4. d < last[1]
    BY <1>10, <2>2, <2>3
  <2>5. Newer(old, d) # {}
    BY <2>3, <2>4 DEF Newer
  <2>6. Cardinality(Newer(old, d)) >= Limit
    BY <2>1, <2>5 DEF NoGap
  <2>7. Newer(old, d) \subseteq Newer(all, d)
    BY DEF Newer
  <2>8. Cardinality(Newer(old, d)) <= Cardinality(Newer(all, d)) /\ Cardinality(Newer(old, d)) \in Nat
    BY <1>7, <2>7, FS_Subset, FS_CardinalityType
  <2> QED
    BY <1>3, <1>7, <2>6, <2>8
<1> QED
  BY <1>8, <1>9, <1>10

LEMMA ToldNoGap ==
  ASSUME FeedsTyped, feed = "deals", Bounded(source), DealsGapless,
         NEW s \in open, NEW k \in PolledKeys, view[s][k] # None
  PROVE  NoGap(view[s][k][1])
<1> DEFINE copy == view[s][k][1]
<1>1. s \in PolledSlots /\ source \in Nat
  BY DEF FeedsTyped, SessionsTyped, PollsTyped
<1>2. \A e \in copy : e \in Nat /\ e <= source
  <2>1. PICK c \in SUBSET Nat : view[s][k] = Some(c)
    BY <1>1 DEF FeedsTyped, SessionsTyped, Seen
  <2>2. copy = c
    BY <2>1 DEF Some
  <2>3. \A e \in copy : e <= source
    BY <1>1 DEF Bounded
  <2> QED
    BY <2>2, <2>3
<1>3. \A d \in 1..source : (\E e \in copy : e < d) /\ Newer(copy, d) # {} /\ d \notin copy
                               => Cardinality(Newer(copy, d)) >= Limit
  BY DEF DealsGapless, Newer
<1> HIDE DEF copy
<1>4. ASSUME NEW d \in Nat, NEW e \in copy, e < d, Newer(copy, d) # {}
      PROVE  d \in 1..source
  <2>1. PICK f \in copy : d < f
    BY <1>4 DEF Newer
  <2> QED
    BY <1>1, <1>2, <1>4, <2>1
<1>5. NoGap(copy)
  BY <1>3, <1>4 DEF NoGap
<1> QED
  BY <1>5 DEF copy

LEMMA StillNoGap ==
  ASSUME FeedsBounds, FeedsTyped, FeedsTyped', SessionsInv, feed = "deals", UNCHANGED feed,
         Kinds, Bounded(source), AnswersInv, KeptInv, KeptInv', CopiesInv, DealsGapless,
         NEW s \in open', NEW k \in PolledKeys, view'[s][k] # None
  PROVE  NoGap(view'[s][k][1])
<1>0. s \in PolledSlots
  BY DEF FeedsTyped, SessionsTyped
<1>1. CASE Stays(s, k)
  BY <1>1, ToldNoGap DEF Stays
<1>2. CASE Begins(s, k)
  <2> DEFINE last == entries'[k].last
  <2>1. k \in DOMAIN entries' /\ view'[s][k] = Some(Ids(last))
    BY <1>2 DEF Begins, Sent, deals_send_full, Known, Ids
  <2>2. last \in Seq(Nat) /\ Gapless(last)
    BY <2>1 DEF FeedsTyped, SessionsTyped, Entry, Kept, KeptInv, Gapless
  <2> HIDE DEF last
  <2>3. NoGap(Ids(last))
    BY <2>2, GaplessHasNoGap
  <2>4. Some(Ids(last))[1] = Ids(last)
    BY DEF Some
  <2> QED
    BY <2>1, <2>3, <2>4
<1>3. CASE \E d \in Datum(feed) : Learns(s, k, d)
  <2>1. PICK top, since, old, last : Hears(s, k, top, since, old, last)
    BY <1>0, <1>3, LearnsHears
  <2>2. NoGap(old)
    <3>1. CASE old = {}
      BY <3>1 DEF NoGap
    <3>2. CASE old # {}
      <4>1. view[s][k] = Some(old)
        BY <2>1, <3>2 DEF Hears
      <4>2. view[s][k] # None /\ view[s][k][1] = old
        BY <4>1 DEF Some, None
      <4>3. s \in open
        BY <1>3 DEF Learns
      <4> QED
        BY <4>2, <4>3, ToldNoGap
    <3> QED
      BY <3>1, <3>2
  <2>3. NoGap(old \cup Ids(DealsAt(top, since)))
    BY <2>1, <2>2, HeardNoGap DEF Hears
  <2>4. view'[s][k][1] = old \cup Ids(DealsAt(top, since))
    BY <2>1 DEF Hears, Some
  <2> QED
    BY <2>3, <2>4
<1> QED
  BY <1>1, <1>2, <1>3, KindOfSession DEF FeedsTyped

LEMMA DealsGaplessStep ==
  ASSUME FeedsBounds, FeedsTyped, FeedsTyped', SessionsInv, feed = "deals", UNCHANGED feed,
         Kinds, Bounded(source), AnswersInv, KeptInv, KeptInv', CopiesInv, DealsGapless
  PROVE  DealsGapless'
<1>1. source' \in Nat
  BY DEF FeedsTyped, PollsTyped
<1> SUFFICES ASSUME NEW s \in open', NEW k \in PolledKeys, view'[s][k] # None,
                    NEW d \in 1..source',
                    \E e \in view'[s][k][1] : e < d, Newer(view'[s][k][1], d) # {},
                    d \notin view'[s][k][1]
             PROVE  Cardinality(Newer(view'[s][k][1], d)) >= Limit
  BY DEF DealsGapless, Newer
<1>2. NoGap(view'[s][k][1])
  BY StillNoGap
<1>3. d \in Nat
  BY <1>1
<1> QED
  BY <1>2, <1>3 DEF NoGap

-------------------------------------------------------------------------------
(* The invariant.                                                          *)

LEMMA DealsInStep ==
  ASSUME SessionsTyped, feed = "deals", EntriesExact, CopiesInv
  PROVE  InStep
<1> SUFFICES ASSUME NEW s \in open, NEW k \in PolledKeys, Watching(s, k)
             PROVE  Follows(view[s][k], entries[k].last)
  BY DEF InStep, Follows
<1>1. k \in DOMAIN entries /\ s \in entries[k].sessions
  BY DEF EntriesExact, StillSubscribed, Watching
<1> QED
  BY <1>1 DEF CopiesInv

LEMMA FeedsInvInit ==
  ASSUME FeedsBounds, PolledInit
  PROVE  FeedsInv
<1>1. FeedsTyped
  BY FeedsTypedInit
<1>2. /\ open = {} /\ entries = [k \in {} |-> NewEntry] /\ polls = <<>>
      /\ view = [s \in PolledSlots |-> [k \in PolledKeys |-> None]]
      /\ subscribed = [s \in PolledSlots |-> {}]
  BY DEF PolledInit, init_depth, init_deals, init_kline, init_price, init_state, init_today,
         Started
<1>3. DOMAIN entries = {} /\ DOMAIN polls = {}
  BY <1>2
<1>4. SessionsInv
  BY <1>2, <1>3 DEF SessionsInv, ClosedForgotten, EntriesExact, OnlySubscribers,
                    StillSubscribed
<1>5. InStep
  BY <1>2 DEF InStep
<1>6. /\ KeptInv /\ CopiesInv /\ DealsGapless
      /\ Bounded(source)
  BY <1>2, <1>3 DEF KeptInv, CopiesInv, DealsGapless, Bounded
<1>7. AnswersInv
  <2>1. [i \in DOMAIN polls |-> 0] \in [DOMAIN polls -> Nat]
    OBVIOUS
  <2> QED
    BY <1>3, <2>1 DEF AnswersInv
<1> QED
  BY <1>1, <1>4, <1>5, <1>6, <1>7 DEF FeedsInv, DealsInv

LEMMA FeedsInvStep ==
  ASSUME FeedsBounds, FeedsInv, [PolledNext]_polled
  PROVE  FeedsInv'
<1>1. FeedsTyped /\ SessionsTyped /\ SessionsInv /\ InStep /\ (feed = "deals" => DealsInv)
  BY DEF FeedsInv, FeedsTyped
<1>2. FeedsTyped' /\ Kinds /\ UNCHANGED feed
  BY <1>1, FeedsTypedStep
<1>3. SessionsInv'
  BY <1>1, <1>2, KindSessions
<1>4. CASE feed # "deals"
  <2>1. InStep'
    BY <1>1, <1>2, <1>3, <1>4, InStepStep
  <2> QED
    BY <1>2, <1>3, <1>4, <2>1 DEF FeedsInv
<1>5. CASE feed = "deals"
  <2>1. Bounded(source) /\ AnswersInv /\ KeptInv /\ CopiesInv /\ DealsGapless
    BY <1>1, <1>5 DEF DealsInv
  <2>2. \/ PollsSame /\ source' \in {source, source + 1}
        \/ /\ PollsAnswered \/ PollsRead \/ PollsAsked \/ polls' = <<>>
           /\ UNCHANGED source
    BY <1>1, <1>5, NextPollsKind
  <2>3. PollsKinds
    BY <2>2 DEF PollsKinds
  <2>4. AnswersInv' /\ Bounded(source)'
    BY <1>1, <1>2, <1>3, <1>5, <2>1, <2>2, AnsweredStays
  <2>5. KeptInv'
    BY <1>1, <1>2, <1>5, <2>1, <2>3, KeptStays
  <2>6. CopiesInv'
    BY <1>1, <1>2, <1>5, <2>1, CopiesInvStep
  <2>7. DealsGapless'
    BY <1>1, <1>2, <1>5, <2>1, <2>5, DealsGaplessStep
  <2>8. DealsInv'
    BY <2>4, <2>5, <2>6, <2>7 DEF DealsInv
  <2>9. SessionsTyped' /\ (feed = "deals")' /\ EntriesExact'
    BY <1>2, <1>3, <1>5 DEF FeedsTyped, SessionsInv
  <2>10. InStep'
    BY <2>6, <2>9, DealsInStep, PTL
  <2> QED
    BY <1>2, <1>3, <2>8, <2>10 DEF FeedsInv
<1> QED
  BY <1>4, <1>5

(* PolledFeeds.tla: types, sessions and entries, and for the deals what    *)
(* polls, entries and clients may hold, in every reachable state.          *)
THEOREM FeedsInvariant == FeedsBounds => (PolledSpec => []FeedsInv)
<1> SUFFICES ASSUME FeedsBounds PROVE PolledSpec => []FeedsInv
  OBVIOUS
<1>1. PolledInit => FeedsInv
  BY FeedsInvInit
<1>2. FeedsInv /\ [PolledNext]_polled => FeedsInv'
  BY FeedsInvStep
<1> QED
  BY <1>1, <1>2, PTL DEF PolledSpec

(* aw_*.c, the subscribe handlers of aw_server.c: nobody is in an entry    *)
(* but who subscribed it on the connection it has now, or a session that   *)
(* was closed without being found, and no subscriber falls out of one but  *)
(* by an error answer, with any number of sessions and keys.               *)
THEOREM ExactEntries == FeedsBounds => (PolledSpec => []EntriesExact)
<1>1. FeedsInv => EntriesExact
  BY DEF FeedsInv, SessionsInv
<1> QED
  BY <1>1, FeedsInvariant, PTL

(* on_market_depth_reply and its copies: what a subscriber has been told   *)
(* is what the entry holds, whatever diffs, full updates, late answers and *)
(* new subscriptions made of it.                                           *)
THEOREM SubscribersInStep == FeedsBounds => (PolledSpec => []InStep)
<1>1. FeedsInv => InStep
  BY DEF FeedsInv
<1> QED
  BY <1>1, FeedsInvariant, PTL

(* on_order_deals_reply: polling for what follows the last id misses no    *)
(* deal but those that DEALS_QUERY_LIMIT newer ones pushed out, for any    *)
(* limit and however late the answers are.                                 *)
THEOREM NoDealMissed == FeedsBounds => (PolledSpec => []DealsGapless)
<1>1. FeedsInv => DealsGapless
  BY DEF FeedsInv, DealsInv, DealsGapless
<1> QED
  BY <1>1, FeedsInvariant, PTL
================================================================================
