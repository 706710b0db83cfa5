----------------------------- MODULE MarketQueries -----------------------------
(***************************************************************************)
(* marketprice, mp_server.c: the commands of clients over the klines that  *)
(* MarketPrice keeps, and the cache of answers in front of them.           *)
(*                                                                         *)
(* The key of the cache is a command with its parameters, so the entries   *)
(* of different queries do not touch: a behaviour has one query, asked     *)
(* again and again.  An answer is <<>> for an error, else <<result>>.      *)
(***************************************************************************)
EXTENDS MarketPrice

CONSTANTS Queries, cache_timeout

VARIABLES
    query,
    dict_cache,   \* <<>>, or one entry
    answer        \* <<>>, or the answer just given: its entry, and when

K(m) == mem[m].kline

(* Unknown markets, and intervals that do not divide the next unit, are    *)
(* refused.                                                                *)
on_cmd_market_kline(q) ==
    LET end == Min({q.end, now})
        i == q.interval
        k == K(q.market)
    IN IF q.market \notin Markets \/ q.start <= 0 \/ q.start > end \/ i <= 0 THEN <<>>
       ELSE CASE i < MIN /\ MIN % i = 0 ->
                    <<get_market_kline_sec(k.sec, now, q.start, end, i)>>
              [] MIN <= i /\ i < HOUR /\ i % MIN = 0 /\ HOUR % i = 0 ->
                    <<get_market_kline_min(k.min, now, q.start, end, i)>>
              [] HOUR <= i /\ i < DAY /\ i % HOUR = 0 /\ DAY % i = 0 ->
                    <<get_market_kline_hour(k.hour, now, q.start, end, i)>>
              [] DAY <= i /\ i < 7 * DAY /\ i % DAY = 0 ->
                    <<get_market_kline_day(k.day, q.start, end, i)>>
              [] i = 7 * DAY -> <<get_market_kline_week(k.day, q.start, end, i)>>
              [] i = 30 * DAY -> <<get_market_kline_month(k.day, q.start, end)>>
              [] OTHER -> <<>>

on_cmd_market_status(q) ==
    IF q.market \notin Markets \/ q.period <= 0 \/ q.period > sec_max THEN <<>>
    ELSE << get_market_status(K(q.market).sec, K(q.market).min, mem[q.market].last,
                              now, q.period) >>

on_cmd_market_status_today(q) ==
    IF q.market \notin Markets THEN <<>>
    ELSE << get_market_status_today(K(q.market).sec, K(q.market).min, K(q.market).day, now) >>

on_cmd_market_deals(q) ==
    IF q.market \notin Markets \/ q.limit <= 0 \/ q.limit > MARKET_DEALS_MAX THEN <<>>
    ELSE << get_market_deals(mem[q.market].deals_json, q.limit, q.last_id) >>

on_cmd_market_last(q) ==
    IF q.market \notin Markets THEN <<>> ELSE << mem[q.market].last >>

Result(q) ==
    CASE q.cmd = "kline" -> on_cmd_market_kline(q)
      [] q.cmd = "status" -> on_cmd_market_status(q)
      [] q.cmd = "today" -> on_cmd_market_status_today(q)
      [] q.cmd = "deals" -> on_cmd_market_deals(q)
      [] q.cmd = "last" -> on_cmd_market_last(q)

Cached(q) == q.cmd \in {"kline", "status", "today"}

(* The entry for a query, unless it is too old.                            *)
process_cache(q) ==
    IF Cached(q) /\ dict_cache # <<>> /\ now - dict_cache[1].time <= cache_timeout
    THEN dict_cache ELSE <<>>

(* Errors are not cached.                                                  *)
svr_on_recv_pkg ==
    /\ at = "loop" /\ ~taking
    /\ LET result == Result(query)
           hit == process_cache(query)
           new == [time |-> now, upto |-> upto, result |-> result]
       IN /\ answer' = << [from |-> IF hit # <<>> /\ result # <<>> THEN hit[1] ELSE new,
                           at |-> now] >>
          /\ dict_cache' = IF Cached(query) /\ result # <<>> /\ hit = <<>> THEN <<new>>
                           ELSE dict_cache
    /\ UNCHANGED <<vars, query>>

on_cache_timer ==
    /\ at = "loop" /\ ~taking
    /\ dict_cache' = <<>> /\ answer' = <<>>
    /\ UNCHANGED <<vars, query>>

QueriesInit == Init /\ query \in Queries /\ dict_cache = <<>> /\ answer = <<>>

QueriesNext ==
    \/ svr_on_recv_pkg \/ on_cache_timer
    \/ Next /\ answer' = <<>> /\ UNCHANGED <<query, dict_cache>>

QueriesSpec == QueriesInit /\ [][QueriesNext]_<<vars, query, dict_cache, answer>>
--------------------------------------------------------------------------------
(* What the queries should answer, from the deals alone.                   *)

(* Buckets of a length, from the one start is in; the phase is what a      *)
(* bucket's start leaves when divided by the length.                       *)
Buckets(start, end, length, phase) ==
    SelectSeq([i \in 1..(end - start + length) |-> start - length + i],
              LAMBDA t : t % length = phase)

RowDue(deals, forget, t, to) ==
    LET within == Within(deals, t, to)
        before == Within(deals, forget, t)
    IN IF within # {} THEN << KlineOf(within) >>
       ELSE IF before # {} THEN << kline_info_new(LastPrice(before)) >> ELSE <<>>

RowsDue(deals, forget, starts, To(_)) ==
    LET Row(t) == RowDue(deals, forget, t, To(t))
        due == SelectSeq(starts, LAMBDA t : Row(t) # <<>>)
    IN [i \in DOMAIN due |-> [time |-> due[i], kline |-> Row(due[i])[1]]]

(* Only with starts whose first bucket is kept as a whole.                 *)
KlineDue(q, deals, time) ==
    LET end == Min({q.end, time})
        i == q.interval
        forget == CASE i < MIN -> time - sec_max
                    [] i < HOUR -> Down(time, MIN) - min_max * MIN
                    [] i < DAY -> Down(time, HOUR) - hour_max * HOUR
                    [] OTHER -> 0
        phase == IF i = 7 * DAY THEN 4 * DAY ELSE 0
        To(t) == IF i = 30 * DAY THEN Min({t + MONTH, Down(end, DAY) + DAY}) ELSE t + i
        length == IF i = 30 * DAY THEN MONTH ELSE i
    IN IF q.start > end THEN <<>>
       ELSE << RowsDue(deals, forget, Buckets(Max({q.start, forget}), end, length, phase), To) >>

(* A period goes up to this second, which counts itself unless a minute    *)
(* begins with it.                                                         *)
Period(deals, length, time) ==
    Within(deals, time - length, IF time % MIN = 0 THEN time ELSE time + 1)

StatusDue(q, deals, time) ==
    LET due == Period(deals, q.period, time)
    IN << [last |-> LastPrice(deals),
           kline |-> IF due = {} THEN kline_info_new(0) ELSE KlineOf(due)] >>

TodayDue(deals, time) ==
    LET start == Down(time, DAY)
        today == Within(deals, start, time + 1)
        k == IF today # {} THEN KlineOf(today)
             ELSE kline_info_new(LastPrice(Within(deals, 0, start)))
        period == Period(deals, DAY, time)
    IN << [open |-> k.open, last |-> k.close, high |-> k.high, low |-> k.low,
           volume |-> Volume(period), deal |-> Worth(period)] >>

DealsDue(q, deals) ==
    LET newer == {MessageAt(o).id : o \in deals} \ (0..q.last_id)
    IN << FirstOf(SetToSortSeq(newer, LAMBDA a, b : a > b), q.limit) >>

Due(q, deals, time) ==
    CASE q.cmd = "kline" -> KlineDue(q, deals, time)
      [] q.cmd = "status" -> StatusDue(q, deals, time)
      [] q.cmd = "today" -> TodayDue(deals, time)
      [] q.cmd = "deals" -> DealsDue(q, deals)
      [] q.cmd = "last" -> << LastPrice(deals) >>

(* Every answer is what the deals of some moment make it, and that moment  *)
(* is no longer ago than the cache may keep it.                            *)
Right ==
    ~tainted /\ answer # <<>> =>
        LET from == answer[1].from
        IN /\ answer[1].at - from.time <= cache_timeout
           /\ from.result = Due(query, DealsOf(query.market, begun, from.upto), from.time)
================================================================================
