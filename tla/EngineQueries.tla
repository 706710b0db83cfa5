----------------------------- MODULE EngineQueries -----------------------------
(***************************************************************************)
(* matchengine/me_server.c: the handlers that only read, over the market   *)
(* of Market.tla, and the cache of the answers to order.depth.             *)
(*                                                                         *)
(* A handler runs to its end between two that change something, so its     *)
(* answer is that of one state; an answer out of the cache is that of an   *)
(* earlier one.  Reads are served also while is_operlog_block,             *)
(* is_history_block or is_message_block refuses the other requests.        *)
(*                                                                         *)
(* Simplifications: one market and its two assets, so asset.summary and    *)
(* market.summary are those of the names asked for or of all; arguments    *)
(* of the wrong form are not sent; asset.list and market.list repeat the   *)
(* settings (Listing.tla).  Time counts ticks of any length.               *)
(***************************************************************************)
EXTENDS Market, Decimal, FiniteSets, SequencesExt

CONSTANTS
    MaxLen,        \* ORDER_LIST_MAX_LEN and ORDER_BOOK_MAX_LEN
    Offsets,       \* the offsets a request may carry
    Limits,        \* the limits
    Intervals,     \* the intervals of order.depth, 0 for none
    CacheTimeout,  \* cache_timeout, in ticks
    MaxNow         \* bound on the ticks

ASSUME QueriesAssumption ==
    /\ {MaxLen, CacheTimeout, MaxNow} \subseteq Nat
    /\ Offsets \subseteq Nat /\ Limits \subseteq Nat /\ Intervals \subseteq Nat

VARIABLES
    now,
    dict_cache,  \* the cached answers, by the parameters of the request
    reply,       \* the request answered last, and its answer
    past         \* history: the books there were, and the last time of each

queries == <<now, dict_cache, reply, past>>
queriesVars == <<vars, queries>>

NoReply == [cmd |-> "none"]
InvalidArgument == [error |-> "invalid argument"]

Answer(cmd, params, result) ==
    reply' = [cmd |-> cmd, params |-> params, result |-> result]

(* What the lists say of their orders, for the history. *)
Book == [ask |-> {<<i, orders[i].price, orders[i].left>> : i \in asks},
         bid |-> {<<i, orders[i].price, orders[i].left>> : i \in bids}]
Remember ==
    past' = {p \in past : p.book # Book' /\ p.until + CacheTimeout >= now'}
            \cup {[book |-> Book', until |-> now']}

Read == Idle /\ UNCHANGED <<vars, now, past>>

-------------------------------------------------------------------------------
(* Balances.                                                               *)

(* mpd_rescale to prec_show. *)
Show(x) == AtPrecision(x, ShowUnit)

on_cmd_balance_query(u, asked) ==
    /\ Read
    /\ Answer("balance.query", <<u, asked>>,
              [a \in asked |-> [t \in BalanceTypes |-> Show(balance[<<u, t, a>>])]])
    /\ UNCHANGED dict_cache

(* balance_status: one pass over dict_balance.  An entry is there when its *)
(* amount is not zero.                                                     *)
Sum(b, ks) == FoldFunctionOnSet(+, 0, b, ks)
balance_status(a) ==
    LET of(t) == {k \in BalanceKey : k[2] = t /\ k[3] = a /\ balance[k] > 0}
    IN [total |-> Sum(balance, {k \in BalanceKey : k[3] = a}),
        count |-> [t \in BalanceTypes |-> Cardinality(of(t))],
        amount |-> [t \in BalanceTypes |-> Sum(balance, of(t))]]

on_cmd_asset_summary ==
    /\ Read
    /\ Answer("asset.summary", << >>, [a \in Assets |-> balance_status(a)])
    /\ UNCHANGED dict_cache

-------------------------------------------------------------------------------
(* Orders.                                                                 *)

(* The iterators of the lists: the best order first, the newest first. *)
InBook(side) == SetToSortSeq(IF side = "ask" THEN asks ELSE bids,
                             order_match_before)
OfUser(u) == SetToSortSeq(users[u], >)

(* The loop of order.query and order.book: skip offset, take limit. *)
Faulty_Page_one_more(ids, offset, limit) ==
    [total |-> Len(ids),
     records |-> [n \in 1..Least(limit + 1, Len(ids) - Least(offset, Len(ids)))
                      |-> orders[ids[offset + n]]]]
Page(ids, offset, limit) ==
    [total |-> Len(ids),
     records |-> [n \in 1..Least(limit, Len(ids) - Least(offset, Len(ids)))
                      |-> orders[ids[offset + n]]]]

on_cmd_order_query(u, offset, limit) ==
    /\ Read
    /\ Answer("order.query", <<u, offset, limit>>,
              IF limit > MaxLen THEN InvalidArgument
              ELSE Page(OfUser(u), offset, limit))
    /\ UNCHANGED dict_cache

on_cmd_order_book(side, offset, limit) ==
    /\ Read
    /\ Answer("order.book", <<side, offset, limit>>,
              IF limit > MaxLen THEN InvalidArgument
              ELSE Page(InBook(side), offset, limit))
    /\ UNCHANGED dict_cache

(* market_get_order, get_order_info; null when there is none. *)
on_cmd_order_detail(i) ==
    /\ Read
    /\ Answer("order.detail", <<i>>, {orders[j] : j \in DOMAIN orders \cap {i}})
    /\ UNCHANGED dict_cache

(* market_get_status. *)
Status(list) == [count |-> Cardinality(list),
                 amount |-> Sum([i \in list |-> orders[i].left], list)]
on_cmd_market_summary ==
    /\ Read
    /\ Answer("market.summary", << >>,
              [ask |-> Status(asks), bid |-> Status(bids)])
    /\ UNCHANGED dict_cache

-------------------------------------------------------------------------------
(* order.depth                                                             *)

(* The price of the level an order opens: its own without an interval, or  *)
(* the next multiple of the interval that is not better than its own.      *)
LevelPrice(side, price, interval) ==
    IF interval = 0 THEN price
    ELSE IF side = "ask" THEN CeilDiv(price, interval) * interval
    ELSE (price \div interval) * interval

(* Whether an order belongs to the level of an earlier one. *)
InLevel(side, level, price, interval) ==
    \/ interval = 0 /\ level = price
    \/ interval > 0 /\ side = "ask" /\ level >= price
    \/ interval > 0 /\ side = "bid" /\ level <= price

(* One side of get_depth and get_depth_merge: one pass over the list.      *)
(* After the last level the pass ends.                                     *)
SideDepth(side, limit, interval) ==
    LET Put(levels, i) ==
            LET o == orders[i]
                n == Len(levels)
            IN IF n > 0 /\ InLevel(side, levels[n][1], o.price, interval)
               THEN [levels EXCEPT ![n][2] = @ + o.left]
               ELSE IF n < limit
               THEN Append(levels, <<LevelPrice(side, o.price, interval), o.left>>)
               ELSE levels
    IN FoldLeft(Put, << >>, InBook(side))
get_depth_merge(limit, interval) ==
    [side \in Sides |-> SideDepth(side, limit, interval)]

(* process_cache finds an answer that is not too old. *)
Faulty_Fresh_late(key) ==
    key \in DOMAIN dict_cache /\ now - dict_cache[key].time <= CacheTimeout + 1
Fresh(key) ==
    key \in DOMAIN dict_cache /\ now - dict_cache[key].time <= CacheTimeout

on_cmd_order_book_depth(limit, interval) ==
    LET key == <<limit, interval>>
        result == get_depth_merge(limit, interval)
    IN /\ Read
       /\ \/ /\ limit > MaxLen
             /\ Answer("order.depth", key, InvalidArgument)
             /\ UNCHANGED dict_cache
          \/ /\ limit <= MaxLen /\ Fresh(key)
             /\ Answer("order.depth", key, dict_cache[key].result)
             /\ UNCHANGED dict_cache
          \/ /\ limit <= MaxLen /\ ~Fresh(key)
             /\ Answer("order.depth", key, result)
             /\ dict_cache' = With(dict_cache, key,
                                   [time |-> now, result |-> result])

(* Every minute the cache is emptied. *)
on_cache_timer ==
    /\ dict_cache # << >>
    /\ dict_cache' = << >> /\ reply' = NoReply
    /\ UNCHANGED <<vars, now, past>>

-------------------------------------------------------------------------------
QueriesInit ==
    /\ now = 0 /\ dict_cache = << >> /\ reply = NoReply
    /\ past = {[book |-> [ask |-> {}, bid |-> {}], until |-> 0]}

(* A request that changes something, or a round of its handler. *)
Change ==
    /\ Next
    /\ reply' = NoReply
    /\ UNCHANGED <<now, dict_cache>>
    /\ Remember

Tick ==
    /\ now < MaxNow
    /\ now' = now + 1 /\ reply' = NoReply
    /\ UNCHANGED <<vars, dict_cache>>
    /\ Remember

Query ==
    \/ \E u \in Users, asked \in SUBSET Assets \ {{}} : on_cmd_balance_query(u, asked)
    \/ on_cmd_asset_summary
    \/ \E u \in Users, offset \in Offsets, limit \in Limits :
           on_cmd_order_query(u, offset, limit)
    \/ \E side \in Sides, offset \in Offsets, limit \in Limits :
           on_cmd_order_book(side, offset, limit)
    \/ \E i \in OrderId : on_cmd_order_detail(i)
    \/ on_cmd_market_summary
    \/ \E limit \in Limits, interval \in Intervals :
           on_cmd_order_book_depth(limit, interval)

QueriesNext == Change \/ Tick \/ on_cache_timer \/ Query
QueriesSpec == Init /\ QueriesInit /\ [][QueriesNext]_queriesVars

-------------------------------------------------------------------------------
(* What the answers are meant to say.                                      *)

Answered(cmd) == reply.cmd = cmd /\ reply.result # InvalidArgument

(* Reference of a side of the depth: the best limit levels; an order is in *)
(* the level of the first multiple of the interval that is not better than *)
(* its price, so that no order is shown at a better price than its own.    *)
LevelOf(side, price, interval) ==
    IF interval = 0 THEN price
    ELSE CHOOSE p \in 0..(price + interval) :
             /\ p % interval = 0
             /\ (IF side = "ask" THEN p - price ELSE price - p)
                    \in 0..(interval - 1)
DepthOf(b, side, limit, interval) ==
    LET prices == {LevelOf(side, r[2], interval) : r \in b[side]}
        level(p) == {r \in b[side] : LevelOf(side, r[2], interval) = p}
        sorted == SetToSortSeq(prices, LAMBDA p, q :
                                   IF side = "ask" THEN p < q ELSE p > q)
    IN [n \in 1..Least(limit, Len(sorted)) |->
           <<sorted[n], Sum([r \in b[side] |-> r[3]], level(sorted[n]))>>]

(* me_server.c, get_depth, get_depth_merge, process_cache: an answer to    *)
(* order.depth is the depth of one book, and of one that was the market's  *)
(* not longer than cache_timeout ago.                                      *)
DepthRecent ==
    Answered("order.depth") =>
        \E p \in past : \A side \in Sides :
            reply.result[side] = DepthOf(p.book, side, reply.params[1], reply.params[2])

(* order.query, order.book: a page holds the orders with offset or more    *)
(* and less than offset + limit before them in the list, in its order, so  *)
(* pages of an unchanged list tile it.                                     *)
Precede(o, list, Before(_, _)) == Cardinality({j \in list : Before(j, o.id)})
PagesTile ==
    /\ Answered("order.query") =>
           \A n \in DOMAIN reply.result.records :
               Precede(reply.result.records[n], users[reply.params[1]], >)
                   = reply.params[2] + n - 1
    /\ Answered("order.book") =>
           \A n \in DOMAIN reply.result.records :
               LET o == reply.result.records[n]
               IN Precede(o, IF o.side = "ask" THEN asks ELSE bids,
                          order_match_before) = reply.params[2] + n - 1
    /\ Answered("order.query") \/ Answered("order.book") =>
           LET left == reply.result.total - reply.params[2]
           IN Len(reply.result.records) =
                  IF left <= 0 THEN 0 ELSE Least(reply.params[3], left)

(* asset.summary and market.summary read different structures, the entries *)
(* of dict_balance and the lists, and have to tell the same: the frozen    *)
(* stock is what is left of the asks.                                      *)
SummariesAgree ==
    Answered("asset.summary") =>
        LET s == reply.result["stock"]
        IN /\ s.amount["freeze"] = StockUnits(Status(asks).amount)
           /\ \A a \in Assets :
                  LET t == reply.result[a]
                  IN t.total = t.amount["available"] + t.amount["freeze"]
===============================================================================
