-------------------------------- MODULE Ledger --------------------------------
(***************************************************************************)
(* What a user may believe about the match engine: how much of each asset  *)
(* is his, frozen or not.  It changes when a balance update is applied to  *)
(* him and when he is one of the two sides of a trade, which exchanges     *)
(* stock for money in full and may cost each side a fee.  Putting, resting *)
(* and cancelling an order change nothing here.                            *)
(***************************************************************************)
EXTENDS Integers

CONSTANTS
    Users,
    Changes,    \* the changes an update may make
    Stocks,     \* the quantities of stock a trade may move
    Moneys      \* the quantities of money a trade may move

VARIABLES
    total,      \* user -> asset -> what the user owns
    collected   \* asset -> the fees the exchange has taken

vars == <<total, collected>>

Init ==
    /\ total = [u \in Users |-> [a \in {"stock", "money"} |-> 0]]
    /\ collected = [a \in {"stock", "money"} |-> 0]

Update(u, a, change) ==
    /\ total[u][a] + change >= 0
    /\ total' = [total EXCEPT ![u][a] = @ + change]
    /\ UNCHANGED collected

(* What user u gains of an asset when the seller gives the stock and the   *)
(* buyer the money; the two may be the same user.                          *)
Gain(u, seller, buyer, stock, money) ==
    [stock |-> (IF u = buyer THEN stock ELSE 0) - (IF u = seller THEN stock ELSE 0),
     money |-> (IF u = seller THEN money ELSE 0) - (IF u = buyer THEN money ELSE 0)]

(* Whatever the two sides do not end up with is the fee taken from them:   *)
(* at most what they own of that asset after the exchange, and nothing     *)
(* from anybody else.                                                      *)
Trade(seller, buyer, stock, money) ==
    LET fee(u, a) == total[u][a] + Gain(u, seller, buyer, stock, money)[a]
                     - total'[u][a]
    IN /\ total[seller].stock >= stock
       /\ total[buyer].money >= money
       /\ \A u \in Users, a \in {"stock", "money"} :
             /\ total'[u][a] >= 0
             /\ fee(u, a) >= 0
             /\ u \notin {seller, buyer} => fee(u, a) = 0
             /\ fee(u, a) <= IF a = "stock" THEN stock ELSE 2 * money
       /\ \A a \in {"stock", "money"} :
             collected'[a] = collected[a] + fee(seller, a)
                             + (IF buyer = seller THEN 0 ELSE fee(buyer, a))

Next ==
    \/ \E u \in Users, a \in {"stock", "money"}, change \in Changes :
          Update(u, a, change)
    \/ \E seller, buyer \in Users, stock \in Stocks, money \in Moneys :
          Trade(seller, buyer, stock, money)

Spec == Init /\ [][Next]_vars
===============================================================================
