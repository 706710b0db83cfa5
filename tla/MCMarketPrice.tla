----------------------------- MODULE MCMarketPrice -----------------------------
(* Instances of MarketPrice and MarketQueries for TLC.  A behaviour is of    *)
(* one part: deals are consumed and flushed while Redis and the process      *)
(* fail, or commands are answered over klines of all types, with each        *)
(* message a deal, handled before anything else happens, and no faults.      *)
EXTENDS MarketQueries, TLC

CONSTANT m1
VARIABLE part

queries == <<query, dict_cache, answer>>

Kline(start, end, interval) ==
    [cmd |-> "kline", market |-> m1, start |-> start, end |-> end, interval |-> interval]

(* Days, weeks and months begin at 32 seconds.                               *)
QueriesMain ==
    {Kline(30, 100, 1), Kline(30, 100, 2), Kline(28, 100, 4), Kline(31, 100, 8),
     Kline(30, 100, 56), Kline(31, 100, 240), Kline(30, 33, 1)}
    \cup {[cmd |-> "status", market |-> m1, period |-> p] : p \in {1, 3, 8}}
    \cup {[cmd |-> "today", market |-> m1], [cmd |-> "last", market |-> m1],
          [cmd |-> "deals", market |-> m1, limit |-> 1, last_id |-> 0],
          [cmd |-> "deals", market |-> m1, limit |-> 2, last_id |-> 1]}

HandledAtOnce ==
    /\ at' = "loop" /\ crashes' = 0
    /\ \A o \in DOMAIN topic' : topic'[o].id # 0
    /\ position < Len(topic) \/ list # <<>> \/ pipe \/ taking \/ consuming
        <=> consumer' # consumer

NoQueries == {[cmd |-> "none"]}

(* The constants are those of the first part.                                *)
Answering == INSTANCE MarketQueries WITH
    Types <- {"sec", "min", "hour", "day"}, Prices <- {1, 2}, Steps <- {1, 8},
    MaxTime <- 10, MaxFaults <- 0, MaxCrashes <- 0, Queries <- QueriesMain

MCInit ==
    \/ part = "flushing" /\ QueriesInit
    \/ part = "answering" /\ Answering!QueriesInit

MCNext ==
    /\ \/ part = "flushing" /\ Next /\ UNCHANGED queries
       \/ part = "answering" /\ Answering!QueriesNext /\ HandledAtOnce
    /\ UNCHANGED part

(* An entry that is too old is as good as none.                              *)
WithoutOldEntry ==
    <<vars, query, answer, part,
      IF dict_cache # <<>> /\ now - dict_cache[1].time <= cache_timeout
      THEN dict_cache ELSE <<>> >>

MCSpec == MCInit /\ [][MCNext]_<<vars, queries, part>>

AnswersRight == part = "answering" => Answering!Right
================================================================================
