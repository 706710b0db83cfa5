-------------------------------- MODULE Market --------------------------------
(***************************************************************************)
(* matchengine/me_market.c on top of me_balance.c and me_update.c: one     *)
(* market of the match engine.  Limit orders rest in two price-time lists, *)
(* an incoming order is matched against the list of the other side, and    *)
(* every deal moves stock and money between the two users.                 *)
(*                                                                         *)
(* The engine is one thread that runs a request's handler to its end.  A   *)
(* handler that puts an order is modelled in small steps: the put action   *)
(* makes the checks and creates the order as the taker, each round of the  *)
(* matching loop is one action, and one of the finish actions returns from *)
(* the handler.  While there is a taker only the steps of its handler are  *)
(* enabled, and in each state at most one of them: requests interleave     *)
(* only between handlers, as they do in the event loop.                    *)
(*                                                                         *)
(* Units.  A price and an amount are naturals in the market's precisions.  *)
(* A fee rate is a number of FeeDen-ths.  Balances have the tightest       *)
(* precisions market_create accepts: a unit of money is one price unit     *)
(* times one amount unit, and an amount unit is FeeDen units of stock.     *)
(*                                                                         *)
(* Left out: order times and source, which no decision reads; the other    *)
(* markets, whose only effect here is that a user's available balance may  *)
(* change between handlers, which UpdateBalance does too; the real = FALSE *)
(* variants used by replay, which change the same state without rows.      *)
(***************************************************************************)
EXTENDS Integers, Balance

CONSTANTS
    Amounts,        \* the amounts a request may carry, in amount units
    Budgets,        \* the amounts of money a market bid may carry
    Prices,         \* the prices a limit request may carry
    TakerRates,     \* the taker fees a request may carry, in FeeDen-ths
    MakerRates,     \* the maker fees a request may carry, in FeeDen-ths
    FeeDen,         \* denominator of a fee rate: 10^fee_prec
    MinAmount,      \* min_amount of the market
    MaxOrderId,     \* bound on the order ids the model hands out
    UpdateRequests, \* the balance.update requests clients may send
    Paddings        \* what the unset bytes of a struct update_key may hold

ASSUME MarketAssumption ==
    /\ Amounts \subseteq Nat \ {0}
    /\ Budgets \subseteq Nat \ {0}
    /\ Prices \subseteq Nat \ {0}
    /\ FeeDen \in Nat \ {0}
    /\ TakerRates \subseteq 0..(FeeDen - 1)
    /\ MakerRates \subseteq 0..(FeeDen - 1)
    /\ MinAmount \in Nat
    /\ MaxOrderId \in Nat
    /\ UpdateRequests \subseteq [user : Users, asset : Assets,
                                 business_id : Nat, change : Int]

VARIABLES
    balance,        \* dict_balance
    orders,         \* m->orders: order id -> order
    users,          \* m->users: the ids in each user's list of orders
    asks, bids,     \* m->asks and m->bids: the ids in the two lists
    taker,          \* the order whose handler is running, NoTaker between two
    order_id_start, deals_id_start,
    dict_update,    \* the balance updates already made, with their padding
    deals,          \* the rows of order_history and user_deal_history handed
    order_history,  \*   to the history writer
    ignored,        \* history: refused balance calls nobody looked at
    collected       \* history: the fees really taken, per asset

funds == <<balance, dict_update>>
book == <<orders, users, asks, bids>>
counters == <<order_id_start, deals_id_start>>
history == <<deals, order_history>>
ghosts == <<ignored, collected>>
vars == <<funds, book, taker, counters, history, ghosts>>

-------------------------------------------------------------------------------
(* Types.                                                                  *)

Sides == {"ask", "bid"}
OrderId == 1..MaxOrderId

(* struct order_s.  deal_fee counts FeeDen-ths of a money unit or of an    *)
(* amount unit: the C field does not say which.                            *)
Order == [id : OrderId, type : {"limit", "market"}, side : Sides,
          user : Users, price : Nat, amount : Nat \ {0},
          taker_fee : Nat, maker_fee : Nat,
          left : Nat, freeze : Nat,
          deal_stock : Nat, deal_money : Nat, deal_fee : Nat]

NoTaker == [id |-> 0]
Idle == taker.id = 0

(* A row of the deal history. *)
Deal == [id : Nat, ask : OrderId, bid : OrderId, price : Nat, amount : Nat,
         by : Sides]

(* What can be refused and ignored: a payment or a fee of one of the two    *)
(* sides of a deal, the freeze of order_put, the unfreeze of order_finish.  *)
Refusals == {<<"taker", "pay">>, <<"taker", "fee">>,
             <<"maker", "pay">>, <<"maker", "fee">>,
             <<"order_put", "freeze">>, <<"order_finish", "unfreeze">>}

-------------------------------------------------------------------------------
(* Helpers.                                                                *)

With(f, k, v) == [x \in DOMAIN f \cup {k} |-> IF x = k THEN v ELSE f[x]]
Without(f, k) == [x \in DOMAIN f \ {k} |-> f[x]]
Least(x, y) == IF x < y THEN x ELSE y
CeilDiv(x, d) == (x + d - 1) \div d

StockUnits(amount) == amount * FeeDen

(* order_match_compare < 0 for two orders of one list. *)
Faulty_order_match_before_newest_first(i, j) ==
    LET o == orders[i]
        p == orders[j]
    IN \/ o.side = "ask" /\ o.price < p.price
       \/ o.side = "bid" /\ o.price > p.price
       \/ o.price = p.price /\ i > j
order_match_before(i, j) ==
    LET o == orders[i]
        p == orders[j]
    IN \/ o.side = "ask" /\ o.price < p.price
       \/ o.side = "bid" /\ o.price > p.price
       \/ o.price = p.price /\ i < j

(* The order an iterator over the list returns first. *)
IsFirst(i, list) ==
    /\ i \in list
    /\ \A j \in list \ {i} : order_match_before(i, j)

(* The asset an order gives away, and the amount of it that rests frozen   *)
(* for what is left.                                                       *)
Gives(side) == IF side = "ask" THEN "stock" ELSE "money"
Gets(side) == IF side = "ask" THEN "money" ELSE "stock"
ToFreeze(o) == IF o.side = "ask" THEN o.left ELSE o.price * o.left
FrozenUnits(o) == IF o.side = "ask" THEN StockUnits(o.freeze) ELSE o.freeze

(* The fee of a deal as the order records it, and as a balance loses it. *)
RecordedFee(feeIn, amount, deal, rate) ==
    (IF feeIn = "money" THEN deal ELSE amount) * rate
ChargedFee(feeIn, amount, deal, rate) ==
    IF feeIn = "money" THEN CeilDiv(deal * rate, FeeDen) ELSE amount * rate

NewOrder(type, side, u, price, amount, tfee, mfee) ==
    [id |-> order_id_start + 1, type |-> type, side |-> side, user |-> u,
     price |-> price, amount |-> amount, taker_fee |-> tfee,
     maker_fee |-> mfee, left |-> amount, freeze |-> 0,
     deal_stock |-> 0, deal_money |-> 0, deal_fee |-> 0]

-------------------------------------------------------------------------------
(* The balance calls of one side of a deal, in the order of the code: pay  *)
(* what the order gives from its available or frozen balance, receive what *)
(* it gets, pay the fee.  No result is looked at, so a refused call leaves *)
(* its amount where it was.                                                *)
Settle(b, o, from, role, amount, deal, rate, bidFeeIn) ==
    LET feeIn == IF o.side = "ask" THEN "money" ELSE bidFeeIn
        pay   == IF o.side = "ask" THEN StockUnits(amount) ELSE deal
        get   == IF o.side = "ask" THEN deal ELSE StockUnits(amount)
        fee   == ChargedFee(feeIn, amount, deal, rate)
        payFrom == <<o.user, from, Gives(o.side)>>
        feeFrom == <<o.user, "available", feeIn>>
        paid  == balance_sub(b, payFrom, pay)
        got   == balance_add(paid, <<o.user, "available", Gets(o.side)>>, get)
    IN [balance |-> balance_sub(got, feeFrom, fee),
        feeIn   |-> feeIn,
        fee     |-> IF Covers(got, feeFrom, fee) THEN fee ELSE 0,
        ignored |-> (IF Covers(b, payFrom, pay) THEN {} ELSE {<<role, "pay">>})
                    \cup (IF Covers(got, feeFrom, fee) THEN {}
                          ELSE {<<role, "fee">>})]

(* What a deal does to the fields of an order. *)
Faulty_Filled_counts_last_deal(o, amount, deal, fee, used, unfrozen) ==
    [o EXCEPT !.left = @ - used,
              !.freeze = @ - unfrozen,
              !.deal_stock = @ + amount,
              !.deal_money = deal,
              !.deal_fee = @ + fee]
Filled(o, amount, deal, fee, used, unfrozen) ==
    [o EXCEPT !.left = @ - used,
              !.freeze = @ - unfrozen,
              !.deal_stock = @ + amount,
              !.deal_money = @ + deal,
              !.deal_fee = @ + fee]

(* The user's list without the order, and the history with it. *)
Unlisted(o) == [users EXCEPT ![o.user] = @ \ {o.id}]
Reported(o) ==
    IF o.deal_stock > 0 THEN order_history \cup {o} ELSE order_history

(* order_finish on an order whose call left the funds in b: the order      *)
(* leaves its list and what it has frozen is given back; if that is        *)
(* refused the function returns before it removes the order from m->orders *)
(* and m->users, an error no caller reads.                                 *)
Releases(b, o) ==
    Covers(b, <<o.user, "freeze", Gives(o.side)>>, FrozenUnits(o))
FinishRefusal(b, o) ==
    IF Releases(b, o) THEN {} ELSE {<<"order_finish", "unfreeze">>}
order_finish(b, o) ==
    /\ asks' = asks \ {o.id}
    /\ bids' = bids \ {o.id}
    /\ balance' = balance_unfreeze(b, o.user, Gives(o.side), FrozenUnits(o))
    /\ IF Releases(b, o)
       THEN /\ orders' = Without(orders, o.id)
            /\ users' = Unlisted(o)
            /\ order_history' = Reported(o)
       ELSE /\ orders' = With(orders, o.id, o)
            /\ UNCHANGED <<users, order_history>>

(* One round of a matching loop that has chosen m as the maker and decided *)
(* the amount: the deal's number and row, both orders' fields, both sides' *)
(* balances, and the end of the maker if nothing of it is left.            *)
MakeDeal(m, amount, bidFeeIn) ==
    LET maker == orders[m]
        deal  == maker.price * amount
        t == Settle(balance, taker, "available", "taker",
                    amount, deal, taker.taker_fee, bidFeeIn)
        s == Settle(t.balance, maker, "freeze", "maker",
                    amount, deal, maker.maker_fee, bidFeeIn)
        used == IF taker.type = "market" /\ taker.side = "bid"
                THEN deal ELSE amount
        unfrozen == IF maker.side = "bid" THEN deal ELSE amount
        filled == Filled(maker, amount, deal,
                         RecordedFee(s.feeIn, amount, deal, maker.maker_fee),
                         amount, unfrozen)
    IN /\ deals_id_start' = deals_id_start + 1
       /\ deals' = deals \cup
             {[id |-> deals_id_start + 1,
               ask |-> IF taker.side = "ask" THEN taker.id ELSE m,
               bid |-> IF taker.side = "bid" THEN taker.id ELSE m,
               price |-> maker.price, amount |-> amount,
               by |-> taker.side]}
       /\ taker' = Filled(taker, amount, deal,
                          RecordedFee(t.feeIn, amount, deal, taker.taker_fee),
                          used, 0)
       /\ IF filled.left = 0
          THEN order_finish(s.balance, filled)
          ELSE /\ orders' = [orders EXCEPT ![m] = filled]
               /\ balance' = s.balance
               /\ UNCHANGED <<users, asks, bids, order_history>>
       /\ ignored' = ignored \cup t.ignored \cup s.ignored
                     \cup (IF filled.left = 0
                           THEN FinishRefusal(s.balance, filled) ELSE {})
       /\ collected' = [a \in Assets |->
             collected[a] + (IF t.feeIn = a THEN t.fee ELSE 0)
                          + (IF s.feeIn = a THEN s.fee ELSE 0)]
       /\ UNCHANGED <<order_id_start, dict_update>>

-------------------------------------------------------------------------------
(* The requests.  A request that its handler answers with an error changes *)
(* nothing, so the checks of a handler are the guards of its action.       *)

Init ==
    /\ balance = EmptyBalances
    /\ orders = << >>
    /\ users = [u \in Users |-> {}]
    /\ asks = {} /\ bids = {}
    /\ taker = NoTaker
    /\ order_id_start = 0 /\ deals_id_start = 0
    /\ dict_update = {}
    /\ deals = {} /\ order_history = {}
    /\ ignored = {}
    /\ collected = [a \in Assets |-> 0]

(* balance.update: one change per (user, asset, business, business_id).    *)
(* The key is compared as the bytes of a struct on the stack whose padding *)
(* nothing sets, so a request comes with some padding.                     *)
UpdateBalance(r, padding) ==
    LET key == <<r.user, r.asset, r.business_id, padding>>
        available == <<r.user, "available", r.asset>>
    IN /\ Idle
       /\ key \notin dict_update
       /\ \/ /\ r.change >= 0
             /\ balance' = balance_add(balance, available, r.change)
          \/ /\ r.change < 0
             /\ Covers(balance, available, -r.change)
             /\ balance' = balance_sub(balance, available, -r.change)
       /\ dict_update' = dict_update \cup {key}
       /\ UNCHANGED <<book, taker, counters, history, ghosts>>

(* Make o the taker of the running handler. *)
Receive(o) ==
    /\ taker' = o
    /\ order_id_start' = o.id
    /\ UNCHANGED <<funds, book, deals_id_start, history, ghosts>>

PutLimitOrder(u, side, amount, price, tfee, mfee) ==
    LET require == IF side = "ask" THEN StockUnits(amount) ELSE amount * price
    IN /\ Idle
       /\ order_id_start < MaxOrderId
       /\ Covers(balance, <<u, "available", Gives(side)>>, require)
       /\ amount >= MinAmount
       /\ Receive(NewOrder("limit", side, u, price, amount, tfee, mfee))

PutMarketAsk(u, amount, tfee) ==
    /\ Idle
    /\ order_id_start < MaxOrderId
    /\ Covers(balance, <<u, "available", "stock">>, StockUnits(amount))
    /\ bids # {}
    /\ amount >= MinAmount
    /\ Receive(NewOrder("market", "ask", u, 0, amount, tfee, 0))

PutMarketBid(u, amount, tfee) ==
    /\ Idle
    /\ order_id_start < MaxOrderId
    /\ Covers(balance, <<u, "available", "money">>, amount)
    /\ \E best \in asks : /\ IsFirst(best, asks)
                          /\ amount >= orders[best].price * MinAmount
    /\ Receive(NewOrder("market", "bid", u, 0, amount, tfee, 0))

(* order.cancel, which checks that the order is the user's. *)
CancelOrder(u, i) ==
    /\ Idle
    /\ i \in DOMAIN orders
    /\ orders[i].user = u
    /\ order_finish(balance, orders[i])
    /\ ignored' = ignored \cup FinishRefusal(balance, orders[i])
    /\ UNCHANGED <<taker, counters, deals, dict_update, collected>>

-------------------------------------------------------------------------------
(* The rounds of the four matching loops.  Dealable(m) is the amount the   *)
(* taker deals with the maker m.                                           *)

Opposite(side) == IF side = "ask" THEN bids ELSE asks

CanDeal(m) ==
    /\ taker.left > 0
    /\ IsFirst(m, Opposite(taker.side))
    /\ taker.type = "limit" =>
         IF taker.side = "ask" THEN taker.price <= orders[m].price
                               ELSE taker.price >= orders[m].price

Faulty_Dealable_rounds_up(m) ==
    Least(IF taker.type = "market" /\ taker.side = "bid"
          THEN CeilDiv(taker.left, orders[m].price) ELSE taker.left,
          orders[m].left)
Dealable(m) ==
    Least(IF taker.type = "market" /\ taker.side = "bid"
          THEN taker.left \div orders[m].price ELSE taker.left,
          orders[m].left)

(* The loop breaks or runs out of makers. *)
Faulty_LoopEnds_without_break == \A m \in Opposite(taker.side) : ~CanDeal(m)
LoopEnds == \A m \in Opposite(taker.side) : CanDeal(m) => Dealable(m) = 0

ExecuteLimitAsk(m) ==
    /\ ~Idle /\ taker.type = "limit" /\ taker.side = "ask"
    /\ CanDeal(m)
    /\ MakeDeal(m, Dealable(m), "money")

ExecuteLimitBid(m) ==
    /\ ~Idle /\ taker.type = "limit" /\ taker.side = "bid"
    /\ CanDeal(m)
    /\ MakeDeal(m, Dealable(m), "money")

ExecuteMarketAsk(m) ==
    /\ ~Idle /\ taker.type = "market" /\ taker.side = "ask"
    /\ CanDeal(m)
    /\ MakeDeal(m, Dealable(m), "stock")

ExecuteMarketBid(m) ==
    /\ ~Idle /\ taker.type = "market" /\ taker.side = "bid"
    /\ CanDeal(m)
    /\ Dealable(m) > 0
    /\ MakeDeal(m, Dealable(m), "stock")

-------------------------------------------------------------------------------
(* The ends of the two put handlers.                                       *)

(* A limit order without a rest, or any market order, goes to the history. *)
FinishTaker ==
    /\ ~Idle
    /\ LoopEnds
    /\ taker.type = "limit" => taker.left = 0
    /\ order_history' = order_history \cup {taker}
    /\ taker' = NoTaker
    /\ UNCHANGED <<funds, book, counters, deals, ghosts>>

(* The user's list with the order, created by his first order. *)
Listed(o) == [users EXCEPT ![o.user] = @ \cup {o.id}]

(* order_put: the rest of a limit order is frozen and enters the book.  A  *)
(* refused freeze is logged, with the order already in the book.           *)
RestLimitOrder ==
    LET o == [taker EXCEPT !.freeze = ToFreeze(taker)]
        frozenFrom == <<o.user, "available", Gives(o.side)>>
    IN /\ ~Idle
       /\ LoopEnds
       /\ taker.type = "limit" /\ taker.left > 0
       /\ orders' = With(orders, o.id, o)
       /\ users' = Listed(o)
       /\ asks' = IF o.side = "ask" THEN asks \cup {o.id} ELSE asks
       /\ bids' = IF o.side = "bid" THEN bids \cup {o.id} ELSE bids
       /\ balance' = balance_freeze(balance, o.user, Gives(o.side), FrozenUnits(o))
       /\ ignored' = IF Covers(balance, frozenFrom, FrozenUnits(o))
                     THEN ignored
                     ELSE ignored \cup {<<"order_put", "freeze">>}
       /\ taker' = NoTaker
       /\ UNCHANGED <<dict_update, counters, history, collected>>

-------------------------------------------------------------------------------
HandlerStep ==
    \/ \E m \in DOMAIN orders : \/ ExecuteLimitAsk(m)
                                \/ ExecuteLimitBid(m)
                                \/ ExecuteMarketAsk(m)
                                \/ ExecuteMarketBid(m)
    \/ FinishTaker
    \/ RestLimitOrder

Next ==
    \/ \E r \in UpdateRequests, padding \in Paddings : UpdateBalance(r, padding)
    \/ \E u \in Users, side \in Sides, amount \in Amounts, price \in Prices,
          tfee \in TakerRates, mfee \in MakerRates :
             PutLimitOrder(u, side, amount, price, tfee, mfee)
    \/ \E u \in Users, amount \in Amounts, tfee \in TakerRates :
             PutMarketAsk(u, amount, tfee)
    \/ \E u \in Users, amount \in Budgets, tfee \in TakerRates :
             PutMarketBid(u, amount, tfee)
    \/ \E u \in Users, i \in DOMAIN orders : CancelOrder(u, i)
    \/ HandlerStep

(* The thread does not stop inside a handler. *)
Spec == Init /\ [][Next]_vars /\ WF_vars(HandlerStep)

-------------------------------------------------------------------------------
(* Invariants; the rest of the properties is in MarketProperties.          *)

TypeOK ==
    /\ balance \in Balances
    /\ DOMAIN orders \subseteq OrderId
    /\ \A i \in DOMAIN orders : orders[i] \in Order /\ orders[i].id = i
    /\ users \in [Users -> SUBSET OrderId]
    /\ asks \subseteq DOMAIN orders /\ bids \subseteq DOMAIN orders
    /\ taker \in Order \cup {NoTaker}
    /\ order_id_start \in 0..MaxOrderId
    /\ deals_id_start \in Nat
    /\ dict_update \subseteq (Users \X Assets \X Nat \X Paddings)
    /\ deals \subseteq Deal
    /\ order_history \subseteq Order
    /\ ignored \subseteq Refusals
    /\ collected \in [Assets -> Nat]

(* No resting bid reaches a resting ask: execute_limit_*_order matched all *)
(* that crossed before order_put, also while a handler is running.         *)
BookNotCrossed ==
    \A i \in asks, j \in bids : orders[i].price > orders[j].price

(* The two amounts an order counts separately, what is left and what was   *)
(* dealt, add up, and what a resting order has frozen is what it still may *)
(* have to pay, after any sequence of partial fills.                       *)
Accounted(o) ==
    /\ o.left > 0
    /\ o.freeze = IF o.side = "ask" THEN o.left ELSE o.price * o.left
    /\ o.left + o.deal_stock = o.amount
OrderAccounting ==
    /\ \A i \in asks \cup bids : Accounted(orders[i])
    /\ ~Idle =>
          taker.left + (IF taker.type = "market" /\ taker.side = "bid"
                        THEN taker.deal_money ELSE taker.deal_stock)
          = taker.amount

(* The three indexes of order_put and order_finish name the same orders: a *)
(* resting order is in m->orders, in the list of its side and in its own   *)
(* user's list, and in nothing else.                                       *)
IndexesAgree ==
    /\ \A i \in DOMAIN orders :
          /\ orders[i].type = "limit"
          /\ i \in asks => orders[i].side = "ask"
          /\ i \in bids => orders[i].side = "bid"
    /\ \A u \in Users :
          users[u] = {i \in DOMAIN orders : orders[i].user = u}

(* An order is reported finished once, and is never in the book again: the *)
(* ids of history, book and running handler are disjoint.                  *)
HistoryOnce ==
    /\ \A o, p \in order_history : o.id = p.id => o = p
    /\ \A o \in order_history : o.id \notin DOMAIN orders \cup {taker.id}
    /\ taker.id \notin DOMAIN orders
===============================================================================
