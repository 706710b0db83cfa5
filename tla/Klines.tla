-------------------------------- MODULE Klines --------------------------------
(***************************************************************************)
(* marketprice: klines and the queries over them, mp_kline.c and the get_  *)
(* functions of mp_message.c.                                              *)
(*                                                                         *)
(* A dict of klines is a function from the times it has klines at, which   *)
(* are multiples of its unit.  A row of an answer is a time and a kline.   *)
(* The units are constants, as a day of 86400 seconds is more than can be  *)
(* checked; all months have one length and the timezone is 0.              *)
(***************************************************************************)
EXTENDS Integers, Sequences, SequencesExt, FiniteSetsExt

CONSTANTS
    MIN, HOUR, DAY, MONTH,       \* in seconds; the code has 60, 3600, 86400
    sec_max, min_max, hour_max   \* settings: how much of each is kept

ASSUME KlinesAssumption ==
    /\ {MIN, HOUR, DAY, MONTH, sec_max, min_max, hour_max} \subseteq Nat \ {0}
    /\ HOUR % MIN = 0 /\ DAY % HOUR = 0 /\ MONTH % DAY = 0

Down(t, unit) == (t \div unit) * unit
get_day_start(t) == Down(t, DAY)
get_month_start(t) == Down(t, MONTH)
get_next_month(t) == get_month_start(t) + MONTH

kline_info_new(open) ==
    [open |-> open, close |-> open, high |-> open, low |-> open, volume |-> 0, deal |-> 0]

(* Faulty: low is compared with high's operator.                           *)
Faulty_kline_info_update_low(k, d) ==
    [k EXCEPT !.close = d.price, !.volume = @ + d.amount, !.deal = @ + d.price * d.amount,
              !.high = Max({@, d.price}), !.low = Max({@, d.price})]

kline_info_update(k, d) ==
    [k EXCEPT !.close = d.price, !.volume = @ + d.amount, !.deal = @ + d.price * d.amount,
              !.high = Max({@, d.price}), !.low = Min({@, d.price})]

kline_info_merge(k, update) ==
    [k EXCEPT !.close = update.close, !.volume = @ + update.volume,
              !.deal = @ + update.deal,
              !.high = Max({@, update.high}), !.low = Min({@, update.low})]

Items(dict, times) ==
    LET present == SelectSeq(times, LAMBDA t : t \in DOMAIN dict)
    IN [i \in DOMAIN present |-> dict[present[i]]]

(* A sequence of one, or of none if there is nothing to merge.             *)
Merged(items) ==
    IF items = <<>> THEN <<>>
    ELSE << FoldLeft(kline_info_merge, kline_info_new(items[1].open), items) >>

(* first, first + step, ... as long as they are before limit.              *)
Times(first, limit, step) ==
    IF first >= limit THEN <<>>
    ELSE [i \in 1..((limit - first - 1) \div step + 1) |-> first + (i - 1) * step]

(* The newest kline at start, start - interval, ..., not before end.       *)
get_last_kline(dict, start, end, interval) ==
    LET found == {t \in DOMAIN dict : end <= t /\ t <= start /\ (start - t) % interval = 0}
    IN IF found = {} THEN <<>> ELSE << dict[Max(found)] >>

(* The loop all kline queries share: a bucket without deals is flat at the *)
(* last close, and is left out as long as there is none.                   *)
Rows(dict, starts, Bucket(_), before) ==
    LET add(acc, start) ==
            LET items == Merged(Items(dict, Bucket(start)))
                row == IF items # <<>> THEN items
                       ELSE IF acc.last # <<>> THEN <<kline_info_new(acc.last[1].close)>>
                       ELSE <<>>
            IN IF row = <<>> THEN acc
               ELSE [rows |-> Append(acc.rows, [time |-> start, kline |-> row[1]]),
                     last |-> row]
    IN FoldLeft(add, [rows |-> <<>>, last |-> before], starts).rows

get_market_kline_sec(sec, now, start, end, interval) ==
    LET first == Down(Max({start, now - sec_max}), interval)
        Bucket(t) == Times(t, t + interval, 1)
    IN Rows(sec, Times(first, end + 1, interval), Bucket,
            get_last_kline(sec, first - 1, now - sec_max, 1))

get_market_kline_min(min, now, start, end, interval) ==
    LET start_min == Down(now, MIN) - min_max * MIN
        first == Down(Max({start, start_min}), interval)
        Bucket(t) == Times(t, t + interval, MIN)
    IN Rows(min, Times(first, end + 1, interval), Bucket,
            get_last_kline(min, first - MIN, start_min, MIN))

get_market_kline_hour(hour, now, start, end, interval) ==
    LET start_min == Down(now, HOUR) - hour_max * HOUR
        from == Max({start, start_min})
        base == get_day_start(from)
        first == base + Down(from - base, interval)
        Bucket(t) == Times(t, t + interval, HOUR)
    IN Rows(hour, Times(first, end + 1, interval), Bucket,
            get_last_kline(hour, first - HOUR, start_min, HOUR))

get_market_kline_day(day, start, end, interval) ==
    LET first == Down(start, interval)
        Bucket(t) == Times(t, t + interval, DAY)
    IN Rows(day, Times(first, end + 1, interval), Bucket,
            get_last_kline(day, first - DAY, first - DAY * 30, DAY))

(* Day 0 was a Thursday, so weeks begin three days before a multiple.      *)
get_market_kline_week(day, start, end, interval) ==
    LET base == Down(start, interval) - 3 * DAY
        first == base + Down(start - base, interval)
        Bucket(t) == Times(t, t + interval, DAY)
    IN Rows(day, Times(first, end + 1, interval), Bucket,
            get_last_kline(day, first - DAY, first - DAY * 30, DAY))

get_market_kline_month(day, start, end) ==
    LET first == get_month_start(start)
        Bucket(t) == Times(t, Min({get_next_month(t), end + 1}), DAY)
    IN Rows(day, Times(first, end + 1, MONTH), Bucket,
            get_last_kline(day, first - DAY, start - DAY * 30, DAY))

(* Seconds up to the first whole minute, minutes from there.               *)
Window(start, now) ==
    LET start_min == Down(start, MIN) + MIN
    IN [secs |-> Times(start, start_min, 1), mins |-> Times(start_min, now, MIN)]

get_market_status(sec, min, last, now, period) ==
    LET w == Window(now - period, now)
        merged == Merged(Items(sec, w.secs) \o Items(min, w.mins))
        kinfo == IF merged = <<>> THEN kline_info_new(0) ELSE merged[1]
    IN [last |-> last, kline |-> kinfo]

Total(sec, min, field, start, now) ==
    LET w == Window(start, now)
    IN MapThenSumSet(LAMBDA t : sec[t][field], {t \in DOMAIN sec : t \in ToSet(w.secs)})
       + MapThenSumSet(LAMBDA t : min[t][field], {t \in DOMAIN min : t \in ToSet(w.mins)})

get_market_status_today(sec, min, day, now) ==
    LET start == get_day_start(now)
        klast == get_last_kline(day, start - DAY, start - DAY * 30, DAY)
        today == IF start \in DOMAIN day THEN day[start]
                 ELSE kline_info_new(IF klast # <<>> THEN klast[1].close ELSE 0)
    IN [open |-> today.open, last |-> today.close, high |-> today.high, low |-> today.low,
        volume |-> Total(sec, min, "volume", now - DAY, now),
        deal |-> Total(sec, min, "deal", now - DAY, now)]

(* The deals newer than last_id, newest first, up to the first that is not.*)
get_market_deals(deals_json, limit, last_id) ==
    LET older == {i \in DOMAIN deals_json : deals_json[i] <= last_id}
        n == Min({limit, IF older = {} THEN Len(deals_json) ELSE Min(older) - 1})
    IN SubSeq(deals_json, 1, n)
===============================================================================
