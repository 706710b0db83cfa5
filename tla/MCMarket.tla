------------------------------- MODULE MCMarket -------------------------------
(* Instances of Market for TLC. *)
EXTENDS MarketProperties

CONSTANTS u1, u2

Update(u, a, id, x) == [user |-> u, asset |-> a, business_id |-> id, change |-> x]

(* One user with stock, one with money. *)
Funding == {Update(u1, "stock", 1, 4), Update(u2, "money", 1, 6)}

(* A user with both assets, who can trade with himself, and a withdrawal. *)
RichFunding == Funding \cup {Update(u1, "money", 1, 3), Update(u2, "money", 2, -3)}

(* SumOf is what the community modules compute by folding. *)
ASSUME SumOfIsSum ==
    \A S \in SUBSET (1..3) : \A f \in [S -> 0..3] :
        SumOf(f) = MapThenSumSet(LAMBDA x : f[x], S)

(* A market with a taker fee to pay, of which less is promised, or a       *)
(* withdrawal has one order less.                                          *)
FewerWithMore ==
    order_id_start' = MaxOrderId =>
        NoTakerFees' /\ \A k \in dict_update' : ChangeOf(k) > 0
MCNext == Next /\ FewerWithMore
MCSpec == Init /\ [][MCNext]_vars

LedgerChanges == {r.change : r \in UpdateRequests}
===============================================================================
