------------------------------- MODULE MCEngine -------------------------------
(* Instances of EngineReplay, EngineQueries and Listing for TLC.  A        *)
(* behaviour is one of the three: part says which.                         *)
EXTENDS EngineReplay, EngineQueries, Listing

CONSTANTS
    u1, u2,
    Parts  \* of the engine: the ones a run looks at
VARIABLE part

Update(u, a, id, x) == [user |-> u, asset |-> a, business_id |-> id, change |-> x]

(* One user with stock, one with money who takes some of it out again. *)
WholeUpdates == {Update(u1, "stock", 1, 4), Update(u2, "money", 1, 4),
                 Update(u2, "money", 2, -2)}
TwoDeposits == {r \in WholeUpdates : r.change > 0}

(* Deposits with a digit more than is shown. *)
FinerUpdates == {Update(u1, "stock", 1, 5), Update(u2, "money", 1, 7)}

(* Configuration files: two markets; the same with other precisions of an  *)
(* asset, one asset more and a row that cannot be read, or with a third    *)
(* market.                                                                 *)
AssetRow(name, save, show, readable) ==
    [name |-> name, save |-> save, show |-> show, readable |-> readable]
MarketRow(name) ==
    [name |-> name, stock |-> "BTC", money |-> "CNY", stock_prec |-> 2,
     money_prec |-> 2, fee_prec |-> 2, readable |-> TRUE]
Coins == <<AssetRow("BTC", 4, 2, TRUE), AssetRow("CNY", 4, 2, TRUE)>>
FirstFile == [assets |-> Coins, markets |-> <<MarketRow("m1"), MarketRow("m2")>>]
FinerFile == [FirstFile EXCEPT !.assets[1] = AssetRow("BTC", 6, 4, TRUE),
                               !.assets = Append(@, AssetRow("ETH", 4, 2, TRUE))]
BrokenFile == [FirstFile EXCEPT !.assets = Append(@, AssetRow("ETH", 4, 2, FALSE))]
LongerFile == [FirstFile EXCEPT !.markets = Append(@, MarketRow("m3"))]

FourFiles == {FirstFile, FinerFile, BrokenFile, LongerFile}

MCInit == ReplayInit /\ QueriesInit /\ ListingInit /\ part \in Parts
(* For the reads the two users are given funds first, and no more later. *)
Deposits == {<<r.user, r.asset, r.business_id, 0>> :
                r \in {x \in UpdateRequests : x.change > 0}}
FundsFirst == IF dict_update = Deposits THEN dict_update' = dict_update
              ELSE /\ dict_update' \subseteq Deposits
                   /\ order_id_start' = 0 /\ now' = 0 /\ reply' = NoReply

(* A read without the cache is the same at any time and with any cache;    *)
(* a refused one, and the ones no property is about, are the same also of  *)
(* any book.                                                               *)
CachedOnly == now > 0 \/ dict_cache # << >> =>
                  reply' = NoReply \/ reply'.cmd = "order.depth"
Unread == {"balance.query", "order.detail", "market.summary"}
FirstOnly == order_id_start > 1 /\ reply' # NoReply =>
                 reply'.cmd \notin Unread /\ reply'.result # InvalidArgument

(* Entries of the cache know nothing of each other: two are told apart at  *)
(* time 0, and one at a time grows old.                                    *)
OneGrowsOld == now' = 0 \/ Cardinality(DOMAIN dict_cache') <= 1

(* Nothing but an entry looks at the clock.                                *)
TicksForEntry == now > 0 \/ now' > 0 => dict_cache # << >>

(* A read that leaves nothing in the cache changes nothing, so that what   *)
(* may follow it has followed the state before.                            *)
Lasting == reply.cmd \in {"none", "order.depth"}

(* A taker fee is asked for of a limit bid that can find an ask, with the  *)
(* deposit still there, and for what is redone later.  When the freeze of  *)
(* the rest was refused there is a restart less and an operation more, a   *)
(* cancel.                                                                 *)
Unfrozen == <<"order_put", "freeze">> \in ignored
Fees ==
    /\ taker' # NoTaker /\ taker'.taker_fee > 0 =>
          /\ part = "redo" /\ asks # {} /\ \A key \in dict_update : key[3] = 1
          /\ taker'.type = "limit" /\ taker'.side = "bid"
    /\ Unfrozen => restarts' < MaxRestarts
    /\ Len(log') >= MaxOps - 1 => request' = NoRequest
    /\ Len(log) < MaxOps /\ Len(log') = MaxOps =>
          Unfrozen /\ log'[MaxOps].op.method = "cancel_order"

MCNext ==
    /\ \/ part = "redo" /\ ReplayNext /\ UNCHANGED <<queries, listingVars>>
       \/ part = "reads" /\ Lasting /\ QueriesNext /\ FundsFirst
          /\ CachedOnly /\ FirstOnly /\ OneGrowsOld /\ TicksForEntry
          /\ UNCHANGED <<mode, replay, listingVars>>
       \/ part = "listing" /\ ListingNext /\ UNCHANGED <<replayVars, queries>>
    /\ Fees /\ UNCHANGED part

(* Nothing here asks for the fees collected, nor for other refusals than   *)
(* those of order_finish.                                                  *)
WithoutGhosts ==
    <<funds, book, taker, counters, history, AllFinished, Unfrozen, mode, replay, queries, listingVars, part>>

MCSpec == MCInit /\ [][MCNext]_<<replayVars, queries, listingVars, part>>

(* The reads keep no log.                                                  *)
LogExplainsMemory == part = "redo" => ReplayExact

AnswersAgree == PagesTile /\ SummariesAgree
===============================================================================
