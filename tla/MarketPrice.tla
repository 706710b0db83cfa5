------------------------------ MODULE MarketPrice ------------------------------
(***************************************************************************)
(* marketprice, mp_message.c: deals come from Kafka, are counted in klines *)
(* in memory, and every ten seconds what changed goes to Redis, the offset *)
(* of the last message after everything else.                              *)
(*                                                                         *)
(* The main thread handles messages (KafkaConsumer) and flushes; a flush   *)
(* is one step per Redis command, as the process can die between two and   *)
(* a command can be refused, be lost, or be executed without an answer.    *)
(* A restart is one step.  All markets are in the list of markets.         *)
(***************************************************************************)
EXTENDS KafkaConsumer, Klines, FiniteSets

CONSTANTS
    Markets,
    Types,               \* of klines: "sec", "min", "hour" and "day"
    Prices, Amounts,     \* of the deals
    MARKET_DEALS_MAX,
    StartTime, Steps,    \* when a behaviour begins, and how time passes
    MaxTime,             \* bound: the time it takes
    MaxDeals,            \* bound: messages in the topic
    MaxFaults,           \* bound: commands that fail
    MaxCrashes           \* bound

ASSUME PriceAssumption ==
    /\ Types \subseteq {"sec", "min", "hour", "day"}
    /\ Prices \subseteq Nat /\ Amounts \subseteq Nat
    /\ MARKET_DEALS_MAX \in Nat /\ limit \in Nat
    /\ StartTime \in Nat /\ Steps \subseteq Nat

VARIABLES
    now,
    topic,         \* of deals; the message with offset o is topic[o + 1]
    mem,           \* dict_market: a market_info for each market
    last_offset,
    at,            \* where flush_market is: "loop" if it does not run
    markets,       \* the markets it still has to flush
    market,        \* the one it is at
    broken,        \* its connection has failed
    redis,
    faults, crashes,
    \* History: what memory should hold, and what a flush did not get done.
    begun,         \* the first message counted
    upto,          \* the last message counted
    saved,         \* the last message counted when the offset was saved
    ahead,         \* Redis has deals behind its offset
    lost,          \* what memory has and Redis was to get and did not
    gone,          \* what was lost when the process ended
    tainted        \* a process ended when Redis was not at its offset

history == <<begun, upto, saved, ahead, lost, gone, tainted>>
flushing == <<at, markets, market, broken>>
environment == <<now, topic, faults, crashes>>
vars == <<consumer, environment, mem, last_offset, flushing, redis, history>>

Unit(type) ==
    CASE type = "sec" -> 1 [] type = "min" -> MIN [] type = "hour" -> HOUR [] type = "day" -> DAY

(* What is older is removed from memory and Redis, and not loaded.         *)
Horizon(type) ==
    CASE type = "sec" -> now - sec_max
      [] type = "min" -> Down(now, MIN) - min_max * MIN
      [] type = "hour" -> Down(now, HOUR) - hour_max * HOUR
      [] type = "day" -> 0

create_market(m) ==
    [kline |-> [type \in Types |-> <<>>], update |-> {}, deals |-> <<>>,
     deals_json |-> <<>>, last |-> 0, touched |-> TRUE]

NothingSaved ==
    redis = [kline |-> [m \in Markets |-> [type \in Types |-> <<>>]],
             deals |-> [m \in Markets |-> <<>>], last |-> [m \in Markets |-> 0],
             offset |-> <<>>]

FirstOf(s, n) == SubSeq(s, 1, Min({n, Len(s)}))
With(dict, t, k) == [s \in DOMAIN dict \cup {t} |-> IF s = t THEN k ELSE dict[s]]

Message(m, p, a, id) == [market |-> m, time |-> now, price |-> p, amount |-> a, id |-> id]

(* librdkafka goes on at the end of the topic if there is no such offset.  *)
ConsumeStart(offset) == Min({offset, Len(topic)})
--------------------------------------------------------------------------------
(* A deal is counted in its second, minute, hour and day.                  *)
Counted(dict, t, d) ==
    LET k == IF t \in DOMAIN dict THEN dict[t] ELSE kline_info_new(d.price)
    IN With(dict, t, kline_info_update(k, d))

(* Faulty: the update of the day is not noted.                             *)
Faulty_market_update_day(info, d) ==
    LET t == [type \in Types |-> Down(d.time, Unit(type))]
    IN [info EXCEPT
            !.kline = [type \in Types |-> Counted(info.kline[type], t[type], d)],
            !.update = @ \cup {<<type, t[type]>> : type \in Types \ {"day"}},
            !.last = d.price,
            !.deals = Append(@, d.id),
            !.deals_json = FirstOf(<<d.id>> \o @, MARKET_DEALS_MAX),
            !.touched = TRUE]

market_update(info, d) ==
    LET t == [type \in Types |-> Down(d.time, Unit(type))]
    IN [info EXCEPT
            !.kline = [type \in Types |-> Counted(info.kline[type], t[type], d)],
            !.update = @ \cup {<<type, t[type]>> : type \in Types},
            !.last = d.price,
            !.deals = Append(@, d.id),
            !.deals_json = FirstOf(<<d.id>> \o @, MARKET_DEALS_MAX),
            !.touched = TRUE]

(* A message without an id is invalid: it is logged, and its offset is not *)
(* noted.                                                                  *)
on_deals_message(offset) ==
    LET d == topic[offset + 1]
    IN /\ mem' = IF d.id = 0 THEN mem ELSE [mem EXCEPT ![d.market] = market_update(@, d)]
       /\ last_offset' = IF d.id = 0 THEN last_offset ELSE offset
       /\ upto' = IF d.id = 0 THEN upto ELSE offset

(* The consumer's thread runs beside the main thread, whose handlers do    *)
(* not run during a flush.                                                 *)
Thread ==
    /\ SeeRoom \/ Consume(Len(topic))
    /\ UNCHANGED <<environment, mem, last_offset, flushing, redis, history>>

on_can_read ==
    /\ at = "loop"
    /\ \/ /\ Wake \/ Emptied
          /\ UNCHANGED <<mem, last_offset, upto>>
       \/ Take(on_deals_message)
    /\ UNCHANGED <<environment, flushing, redis, begun, saved, ahead, lost, gone, tainted>>
--------------------------------------------------------------------------------
(* What a Redis command comes to.  Without an answer the connection is     *)
(* broken, and every further command on it fails.                          *)
Outcomes ==
    IF broken THEN {"failed"}
    ELSE {"done"} \cup (IF faults < MaxFaults THEN {"refused", "failed", "unanswered"} ELSE {})

Executed(outcome) == outcome \in {"done", "unanswered"}

Command(outcome) ==
    /\ broken' = (broken \/ outcome \in {"failed", "unanswered"})
    /\ faults' = IF broken \/ outcome = "done" THEN faults ELSE faults + 1
    /\ UNCHANGED <<consumer, now, topic, crashes, last_offset, begun, upto, gone, tainted>>

(* flush_market begins with a new connection; it passes over the markets   *)
(* without a deal since last_flush.                                        *)
on_market_timer ==
    /\ at = "loop" /\ ~taking
    /\ at' = "next" /\ broken' = FALSE
    /\ markets' = {m \in Markets : mem[m].touched}
    /\ UNCHANGED <<consumer, environment, mem, last_offset, market, redis, history>>

NextMarket ==
    /\ at = "next"
    /\ \E m \in markets : market' = m /\ markets' = markets \ {m}
    /\ at' = "update"
    /\ UNCHANGED <<consumer, environment, mem, last_offset, broken, redis, history>>

(* flush_update takes each key out of the set, written or not; a kline     *)
(* that was cleared in the meantime is not written.                        *)
flush_kline ==
    /\ at = "update"
    /\ \E key \in mem[market].update :
        LET dict == mem[market].kline[key[1]]
            id == <<market, key[1], key[2]>>
        IN /\ mem' = [mem EXCEPT ![market].update = @ \ {key}]
           /\ \/ /\ key[2] \notin DOMAIN dict
                 /\ UNCHANGED <<consumer, environment, last_offset, broken, redis, history>>
              \/ /\ key[2] \in DOMAIN dict
                 /\ \E outcome \in Outcomes :
                     /\ Command(outcome)
                     /\ IF Executed(outcome)
                        THEN /\ redis' = [redis EXCEPT !.kline[market][key[1]] =
                                                         With(@, key[2], dict[key[2]])]
                             /\ ahead' = TRUE /\ lost' = lost \ {id}
                        ELSE UNCHANGED <<redis, ahead>> /\ lost' = lost \cup {id}
    /\ UNCHANGED <<at, markets, market, saved>>

flush_last ==
    /\ at = "update" /\ mem[market].update = {}
    /\ \E outcome \in Outcomes :
        /\ Command(outcome)
        /\ redis' = IF Executed(outcome) THEN [redis EXCEPT !.last[market] = mem[market].last]
                    ELSE redis
        /\ ahead' = (ahead \/ redis' # redis)
        /\ at' = IF outcome # "done" THEN "loop"
                 ELSE IF mem[market].deals = <<>> THEN "next" ELSE "deals"
    /\ UNCHANGED <<mem, markets, market, saved, lost>>

(* LPUSH puts the deals in front, oldest first.  A refusal of LPUSH is not *)
(* noticed; without its answer the deals are kept and pushed again.  What  *)
(* LTRIM comes to is not looked at; what it leaves too much is not loaded. *)
flush_deals ==
    /\ at = "deals"
    /\ \E outcome \in Outcomes :
        /\ Command(outcome)
        /\ redis' = IF Executed(outcome)
                    THEN [redis EXCEPT !.deals[market] =
                            FirstOf(Reverse(mem[market].deals) \o @, MARKET_DEALS_MAX)]
                    ELSE redis
        /\ ahead' = (ahead \/ Executed(outcome))
        /\ lost' = IF outcome \in {"refused", "unanswered"}
                   THEN lost \cup {<<market, "deals", 0>>} ELSE lost
        /\ IF outcome \in {"done", "refused"}
           THEN at' = "next" /\ mem' = [mem EXCEPT ![market].deals = <<>>]
           ELSE at' = "loop" /\ mem' = mem
    /\ UNCHANGED <<markets, market, saved>>

(* Faulty: the offset goes first.                                          *)
Faulty_flush_offset_first ==
    /\ at = "next"
    /\ \E outcome \in Outcomes :
        /\ Command(outcome)
        /\ redis' = IF Executed(outcome) THEN [redis EXCEPT !.offset = <<last_offset>>]
                    ELSE redis
        /\ ahead' = (ahead /\ ~Executed(outcome))
        /\ saved' = IF Executed(outcome) THEN upto ELSE saved
        /\ mem' = IF outcome = "done" THEN [m \in Markets |-> [mem[m] EXCEPT !.touched = FALSE]]
                  ELSE mem
        /\ at' = IF outcome = "done" /\ markets # {} THEN "next" ELSE "loop"
    /\ UNCHANGED <<markets, market, lost>>

(* After all markets; then last_flush is after every update_time.          *)
flush_offset ==
    /\ at = "next" /\ markets = {}
    /\ \E outcome \in Outcomes :
        /\ Command(outcome)
        /\ redis' = IF Executed(outcome) THEN [redis EXCEPT !.offset = <<last_offset>>]
                    ELSE redis
        /\ ahead' = (ahead /\ ~Executed(outcome))
        /\ saved' = IF Executed(outcome) THEN upto ELSE saved
        /\ mem' = IF outcome = "done" THEN [m \in Markets |-> [mem[m] EXCEPT !.touched = FALSE]]
                  ELSE mem
    /\ at' = "loop"
    /\ UNCHANGED <<markets, market, lost>>

Flush == NextMarket \/ flush_kline \/ flush_last \/ flush_deals \/ flush_offset
--------------------------------------------------------------------------------
From(dict, t) == [s \in {s \in DOMAIN dict : s >= t} |-> dict[s]]

(* Every hour; klines of days are kept.                                    *)
clear_kline ==
    /\ at = "loop" /\ ~taking
    /\ mem' = [m \in Markets |-> [mem[m] EXCEPT
                 !.kline = [type \in Types |-> From(@[type], Horizon(type))]]]
    /\ UNCHANGED <<consumer, environment, last_offset, flushing, redis, history>>

(* Every day, in a child process, so also between the steps of a flush: a  *)
(* key goes at any time from when it is too old.                           *)
clear_redis ==
    /\ \E m \in Markets, type \in Types \ {"day"} :
        \E t \in DOMAIN redis.kline[m][type] :
            /\ t < Horizon(type)
            /\ redis' = [redis EXCEPT !.kline[m][type] = [s \in DOMAIN @ \ {t} |-> @[s]]]
    /\ UNCHANGED <<consumer, environment, mem, last_offset, flushing, history>>

load_market(m) ==
    [create_market(m) EXCEPT
        !.kline = [type \in Types |-> From(redis.kline[m][type], Horizon(type))],
        !.deals_json = FirstOf(redis.deals[m], MARKET_DEALS_MAX),
        !.last = redis.last[m]]

get_message_offset == IF redis.offset = <<>> THEN 0 ELSE redis.offset[1]

init_message ==
    /\ mem' = [m \in Markets |-> load_market(m)]
    /\ last_offset' = get_message_offset
    /\ Recreated(ConsumeStart(get_message_offset + 1))
    /\ at' = "loop" /\ broken' = FALSE /\ markets' = {} /\ market' = market

(* The process dies at any step and is started again.                      *)
Crash ==
    /\ crashes < MaxCrashes
    /\ crashes' = crashes + 1
    /\ init_message
    /\ begun' = IF position' > saved + 1 THEN position' ELSE begun
    /\ upto' = position' - 1
    /\ gone' = gone \cup lost
    /\ lost' = {}
    /\ tainted' = (tainted \/ ahead \/ lost # {})
    /\ UNCHANGED <<now, topic, faults, redis, saved, ahead>>

(* The match engine pushes a deal, or a message that is not one.           *)
Deal ==
    /\ Len(topic) < MaxDeals
    /\ \E m \in Markets, p \in Prices, a \in Amounts, id \in {0, Len(topic) + 1} :
        topic' = Append(topic, Message(m, p, a, id))
    /\ UNCHANGED <<consumer, now, faults, crashes, mem, last_offset, flushing, redis, history>>

Tick ==
    /\ \E step \in Steps : now' = now + step
    /\ now' <= StartTime + MaxTime
    /\ UNCHANGED <<consumer, topic, faults, crashes, mem, last_offset, flushing, redis, history>>

Init ==
    /\ now = StartTime
    /\ \E m \in Markets, p \in Prices, a \in Amounts :
         topic \in {<<>>, <<Message(m, p, a, 1)>>}
    /\ mem = [m \in Markets |-> create_market(m)]
    /\ last_offset = 0
    /\ kafka_consumer_create(ConsumeStart(1))
    /\ at = "loop" /\ markets = {} /\ market \in Markets /\ broken = FALSE
    /\ NothingSaved
    /\ faults = 0 /\ crashes = 0
    /\ begun = ConsumeStart(1) /\ upto = begun - 1 /\ saved = upto
    /\ ahead = FALSE /\ lost = {} /\ gone = {} /\ tainted = FALSE

Next == Thread \/ on_can_read \/ on_market_timer \/ Flush \/ clear_kline \/ clear_redis
        \/ Crash \/ Deal \/ Tick

Spec == Init /\ [][Next]_vars
--------------------------------------------------------------------------------
(* A message in the list has woken the main thread, or will: on_can_read   *)
(* empties the pipe before it empties the list.  The list has no more than *)
(* its limit, and what it has is in the order of the topic, up to the next *)
(* one to consume.                                                         *)
ConsumerWoken ==
    /\ list # <<>> => pipe \/ taking
    /\ Len(list) <= limit
    /\ \A i \in DOMAIN list : list[i] = position - Len(list) + i - 1

(* The sum of f[x] over the domain of f, for naturals: as many as there    *)
(* are units to count.                                                     *)
SumOf(f) == Cardinality(UNION {{x} \X (1..f[x]) : x \in DOMAIN f})

(* The deals of a market, as offsets.                                      *)
MessageAt(offset) == topic[offset + 1]
DealsOf(m, first, last) ==
    {o \in first..last : MessageAt(o).market = m /\ MessageAt(o).id # 0}
Within(deals, from, to) ==
    {o \in deals : from <= MessageAt(o).time /\ MessageAt(o).time < to}
PricesOf(deals) == {MessageAt(o).price : o \in deals}
LastPrice(deals) == IF deals = {} THEN 0 ELSE MessageAt(Max(deals)).price

(* The kline over them, if there are any.                                  *)
Volume(deals) == SumOf([o \in deals |-> MessageAt(o).amount])
Worth(deals) == SumOf([o \in deals |-> MessageAt(o).amount * MessageAt(o).price])
KlineOf(deals) ==
    [open |-> MessageAt(Min(deals)).price, close |-> MessageAt(Max(deals)).price,
     high |-> Max(PricesOf(deals)), low |-> Min(PricesOf(deals)),
     volume |-> Volume(deals), deal |-> Worth(deals)]

(* s has the n greatest of the ids, or all of them, the greatest first.    *)
Newest(s, ids, n) ==
    /\ ToSet(s) \subseteq ids /\ Len(s) <= n
    /\ \A i, j \in DOMAIN s : i < j => s[i] > s[j]
    /\ \A id \in ids \ ToSet(s) : Len(s) = n /\ \A i \in DOMAIN s : s[i] > id

(* The times that a kline of this type is kept for.                        *)
Kept(type) ==
    {n * Unit(type) : n \in (Horizon(type) \div Unit(type))..(now \div Unit(type))}

(* No deal is missing from a kline, whatever has failed and wherever the   *)
(* process died: deals may be counted twice, but none is left out, except  *)
(* of klines whose write failed and that were not written again before the *)
(* process ended.                                                          *)
NothingMissed ==
    at = "loop" => \A m \in Markets, type \in Types : \A t \in Kept(type) :
        LET deals == Within(DealsOf(m, begun, upto), t, t + Unit(type))
            dict == mem[m].kline[type]
        IN deals # {} /\ <<m, type, t>> \notin gone =>
            /\ t \in DOMAIN dict
            /\ dict[t].volume >= Volume(deals) /\ dict[t].deal >= Worth(deals)
            /\ \A p \in PricesOf(deals) : dict[t].low <= p /\ p <= dict[t].high

(* If the process never died with Redis away from its offset, memory is    *)
(* what the deals make it: every kline, the last price, the newest deals.  *)
ExactUnlessInterrupted ==
    at = "loop" /\ ~tainted => \A m \in Markets :
        LET all == DealsOf(m, begun, upto)
        IN /\ \A type \in Types : \A t \in Kept(type) :
                LET deals == Within(all, t, t + Unit(type))
                    dict == mem[m].kline[type]
                IN IF deals = {} THEN t \notin DOMAIN dict
                   ELSE t \in DOMAIN dict /\ dict[t] = KlineOf(deals)
           /\ mem[m].last = LastPrice(all)
           /\ Newest(mem[m].deals_json, {MessageAt(o).id : o \in all}, MARKET_DEALS_MAX)
================================================================================
