--------------------------- MODULE MarketProperties ---------------------------
(***************************************************************************)
(* What the market of Market.tla is meant to guarantee.                    *)
(***************************************************************************)
EXTENDS Market, FiniteSetsExt

CONSTANTS Changes, Stocks, Moneys   \* the bounds of the abstract ledger

(* The sum of f[x] over the domain of f, for naturals: as many as there    *)
(* are units to count.                                                     *)
SumOf(f) == Cardinality(UNION {{x} \X (1..f[x]) : x \in DOMAIN f})

(* The orders a request can still reach: resting ones and the one whose    *)
(* handler is running.                                                     *)
LiveOrders == {orders[i] : i \in DOMAIN orders}
              \cup (IF Idle THEN {} ELSE {taker})

DealsOf(i) == {d \in deals : i \in {d.ask, d.bid}}
Maker(d) == IF d.by = "ask" THEN d.bid ELSE d.ask
Taker(d) == IF d.by = "ask" THEN d.ask ELSE d.bid

(* Price-time priority over the whole history: if a deal was made with a   *)
(* maker while a better order of the maker's side was resting, that better *)
(* order cannot still be in its list.  The lists are ordered by            *)
(* order_match_compare; the matching loops trust their iterator.           *)
BetterThanMaker(i, d) ==
    \/ d.by = "ask" /\ orders[i].price > d.price
    \/ d.by = "bid" /\ orders[i].price < d.price
    \/ orders[i].price = d.price /\ i < Maker(d)
NoOvertaking ==
    \A d \in deals :
        \A i \in IF d.by = "ask" THEN bids ELSE asks :
            i < Taker(d) => ~BetterThanMaker(i, d)

(* Every fill of an order is explained by rows of the deal history and     *)
(* every row by the two orders it names: nothing is filled twice, lost or  *)
(* filled after the order was reported finished (execute_*_order updates   *)
(* the two orders and appends the deal in separate statements).            *)
DealStock(i) == [d \in DealsOf(i) |-> d.amount]
DealMoney(i) == [d \in DealsOf(i) |-> d.amount * d.price]
DealsExplainOrders ==
    /\ \A o \in LiveOrders \cup order_history :
          /\ o.deal_stock = SumOf(DealStock(o.id))
          /\ o.deal_money = SumOf(DealMoney(o.id))
    /\ \A d \in deals : \E a, b \in LiveOrders \cup order_history :
          /\ a.id = d.ask /\ a.side = "ask"
          /\ b.id = d.bid /\ b.side = "bid"

(* No order trades at a worse average than its limit, and a market bid     *)
(* never spends more money than its amount (the rounding loop of           *)
(* execute_market_bid_order).                                              *)
RespectsLimit(o) ==
    /\ o.type = "limit" /\ o.side = "bid" =>
          o.deal_money <= o.price * o.deal_stock
    /\ o.type = "limit" /\ o.side = "ask" =>
          o.price * o.deal_stock <= o.deal_money
    /\ o.type = "market" /\ o.side = "bid" => o.deal_money <= o.amount
LimitRespected == \A o \in LiveOrders \cup order_history : RespectsLimit(o)

(* A taker's fee comes out of what should pay for his next deal or back    *)
(* the rest of his order, and no result of a balance call is looked at: a  *)
(* second maker may be paid although the taker was not charged.  What is   *)
(* said of balances holds as long as no taker's fee was asked for.         *)
NoTakerFees == \A o \in LiveOrders \cup order_history : o.taker_fee = 0

(* Each user's frozen balance is exactly what his resting orders have      *)
(* frozen, so every cancel and every deal with a maker finds its funds     *)
(* (order_put freezes once; deals, fees and order_finish must agree).      *)
Resting(u, a) ==
    {i \in asks \cup bids : orders[i].user = u /\ Gives(orders[i].side) = a}
Frozen(u, a) == [i \in Resting(u, a) |-> FrozenUnits(orders[i])]
FrozenBacked ==
    NoTakerFees => \A u \in Users, a \in Assets :
        balance[<<u, "freeze", a>>] = SumOf(Frozen(u, a))

(* Money is neither made nor destroyed: what users own, what was taken     *)
(* from them in fees and what they withdrew is what they deposited.  It    *)
(* holds only if no refused payment was answered with goods.  The key of a *)
(* balance update tells its change, as a business id is given to one.      *)
Owned(a) == [u \in Users |-> balance_total(balance, u, a)]
UpdatesOf(a) == {k \in dict_update : k[2] = a}
ChangeOf(k) ==
    (CHOOSE r \in UpdateRequests :
        r.user = k[1] /\ r.asset = k[2] /\ r.business_id = k[3]).change
Deposited(a) ==
    [k \in UpdatesOf(a) |-> IF ChangeOf(k) > 0 THEN ChangeOf(k) ELSE 0]
Withdrawn(a) ==
    [k \in UpdatesOf(a) |-> IF ChangeOf(k) < 0 THEN -ChangeOf(k) ELSE 0]
FundsConserved ==
    \A a \in Assets :
        SumOf(Owned(a)) + collected[a] + SumOf(Withdrawn(a)) = SumOf(Deposited(a))
Conservation == NoTakerFees => FundsConserved

(* The only balance call of the market that is ever refused is the fee of  *)
(* a maker: payments, freezes and unfreezes always find their funds.       *)
NothingUnpaid == NoTakerFees => ignored \subseteq {<<"maker", "fee">>}

(* A refused freeze is logged as fatal: market_put_limit_order takes it to *)
(* be impossible after its own check of the available balance.             *)
OrderPutNeverFails == <<"order_put", "freeze">> \notin ignored

-------------------------------------------------------------------------------
(* The inductive invariant of Market_proofs.  What the properties leave    *)
(* out: ids grow, so a taker is younger than everything it meets, and a    *)
(* price in the book is not zero, so a market bid's amount is bounded.     *)

IdsGrow ==
    /\ ~Idle => taker.id = order_id_start
    /\ \A i \in DOMAIN orders : i <= order_id_start
    /\ \A o \in order_history : o.id <= order_id_start
    /\ \A d \in deals : Taker(d) <= order_id_start

PricesPositive ==
    /\ \A i \in DOMAIN orders : orders[i].price > 0
    /\ ~Idle /\ taker.type = "limit" => taker.price > 0

(* Everything that is proved of the market, strong enough to be preserved  *)
(* by every request and every round of a matching loop.                    *)
MarketInv ==
    /\ TypeOK
    /\ IdsGrow
    /\ PricesPositive
    /\ IndexesAgree
    /\ OrderAccounting
    /\ BookNotCrossed
    /\ HistoryOnce
    /\ LimitRespected
    /\ NoOvertaking

(* What makes FrozenBacked and NothingUnpaid inductive: a fee that was     *)
(* asked for is one of an order that has dealt, which is never forgotten;  *)
(* what is in m->orders is in a list; what a handler has checked to be     *)
(* available for the taker still is, for what is left of it; and a maker's *)
(* fee is less than what he is paid, so a user who deals with himself can  *)
(* go on paying.                                                           *)
NoFeeAsked ==
    \A o \in LiveOrders \cup order_history :
        o.deal_stock > 0 => o.taker_fee = 0
Required ==
    IF taker.side = "ask" THEN StockUnits(taker.left)
    ELSE IF taker.type = "limit" THEN taker.price * taker.left ELSE taker.left
FundsBacked ==
    /\ \A u \in Users, a \in Assets :
          balance[<<u, "freeze", a>>] = SumOf(Frozen(u, a))
    /\ ignored \subseteq {<<"maker", "fee">>}
    /\ DOMAIN orders = asks \cup bids
    /\ ~Idle => Covers(balance, <<taker.user, "available", Gives(taker.side)>>,
                       Required)
FundsInv ==
    /\ \A i \in DOMAIN orders : orders[i].maker_fee < FeeDen
    /\ ~Idle => taker.maker_fee < FeeDen
    /\ NoFeeAsked => FundsBacked

(* What makes Conservation inductive: a key is that of a request, and only *)
(* finitely many came.                                                     *)
ConservationInv ==
    /\ IsFiniteSet(dict_update)
    /\ \A k \in dict_update : \E r \in UpdateRequests :
          k[1] = r.user /\ k[2] = r.asset /\ k[3] = r.business_id
    /\ NoFeeAsked => FundsConserved

(* What makes DealsExplainOrders inductive: a deal has a number of its own *)
(* and deals something.                                                    *)
DealsInv ==
    /\ IsFiniteSet(deals)
    /\ \A d \in deals : d.id <= deals_id_start /\ d.amount > 0
    /\ DealsExplainOrders

-------------------------------------------------------------------------------
(* execute_*_order: the thread returns from every put handler, as a round  *)
(* of any of the four matching loops leaves less to match, and either ends *)
(* its maker or is the last one.  The money of a market bid may be left    *)
(* without buying a unit.                                                  *)
HandlerReturns ==
    [][~Idle /\ ~Idle' =>
           /\ taker'.left < taker.left
           /\ LoopEnds' \/ ~(asks \cup bids \subseteq asks' \cup bids')]_vars

(* The market implements the ledger: apart from updates, a user's holdings *)
(* change by complete trades only, as long as no taker's fee was asked for.*)
TheLedger == INSTANCE Ledger WITH
    total <- [u \in Users |-> [a \in Assets |-> balance_total(balance, u, a)]]
ImplementsLedger ==
    /\ TheLedger!Init
    /\ [][NoTakerFees' => TheLedger!Next]_TheLedger!vars
===============================================================================
