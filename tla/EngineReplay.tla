----------------------------- MODULE EngineReplay -----------------------------
(***************************************************************************)
(* The match engine around its market: the handlers of me_server.c that    *)
(* change something and log it, the snapshot of me_dump.c, and me_load.c,  *)
(* which puts a snapshot back and redoes the logged operations.            *)
(*                                                                         *)
(* Recovery.tla says which operations a new engine gets back and treats    *)
(* them as numbers.  Here they are requests, executed on the market of     *)
(* Market.tla when they are served and once more when they are redone, and *)
(* the question is whether the second execution does what the first did.   *)
(*                                                                         *)
(* An engine that dies, at any moment and also inside a handler or a load, *)
(* is replaced at once.  Some of the newest entries of the log may be lost *)
(* with it.  The rows of the histories are those of the operations the     *)
(* memory is the result of: redoing (real = FALSE) writes none, and the    *)
(* model lets Market compute them again so that they can be compared.      *)
(*                                                                         *)
(* Simplifications: one market; the arguments that are refused by their    *)
(* form are not sent; load_limit_order and load_market_order make the      *)
(* checks of the handlers once more, except that they accept a source one  *)
(* character longer and load_cancel_order does not look at the user.       *)
(***************************************************************************)
EXTENDS Market, Decimal, SequencesExt

CONSTANTS
    MaxOps,      \* bound on the operations in the log
    MaxSlices,   \* bound on the slices made
    MaxRestarts  \* bound on the engines that die

ASSUME ReplayAssumption ==
    {MaxOps, MaxSlices, MaxRestarts} \subseteq Nat

VARIABLES
    mode,      \* "serving" or "redoing"
    request,   \* the operation whose handler is running
    log,       \* the operations logged, with the memory each one left
    redone,    \* how many of them the memory is the result of
    slice,     \* the last snapshot
    slices, restarts

replay == <<request, log, redone, slice, slices, restarts>>
replayVars == <<vars, mode, replay>>

(* What the engine holds.  The keys of the updates are not part of it:     *)
(* a slice has none of them.                                               *)
Memory == [balance |-> balance, orders |-> orders, users |-> users,
           asks |-> asks, bids |-> bids,
           order_id_start |-> order_id_start, deals_id_start |-> deals_id_start,
           deals |-> deals, order_history |-> order_history]

EmptyMemory == [balance |-> EmptyBalances, orders |-> << >>,
                users |-> [u \in Users |-> {}], asks |-> {}, bids |-> {},
                order_id_start |-> 0, deals_id_start |-> 0,
                deals |-> {}, order_history |-> {}]

NoRequest == [method |-> "none"]

-------------------------------------------------------------------------------
(* me_server.c, me_operlog.c: a request is logged when it has succeeded.   *)

append_operlog(op) ==
    /\ log' = Append(log, [op |-> op, left |-> Memory'])
    /\ redone' = redone + 1
    /\ UNCHANGED <<slice, slices, restarts>>

Serving == mode = "serving" /\ Len(log) < MaxOps

(* on_cmd_balance_update reads the change with the precision that is       *)
(* shown, and logs the parameters as they came.                            *)
AsShown(r) == [r EXCEPT !.change = AtPrecision(@, ShowUnit)]

on_cmd_balance_update(r, padding) ==
    /\ Serving
    /\ UpdateBalance(AsShown(r), padding)
    /\ append_operlog([method |-> "update_balance", params |-> r])
    /\ UNCHANGED <<mode, request>>

(* on_cmd_order_put_limit and on_cmd_order_put_market start the handler,   *)
(* Return ends it.                                                         *)
on_cmd_order_put_limit(u, side, amount, price, tfee, mfee) ==
    /\ Serving
    /\ PutLimitOrder(u, side, amount, price, tfee, mfee)
    /\ request' = [method |-> "limit_order",
                   params |-> <<u, side, amount, price, tfee, mfee>>]
    /\ UNCHANGED <<mode, log, redone, slice, slices, restarts>>

PutMarketOrder(u, side, amount, tfee) ==
    \/ side = "ask" /\ PutMarketAsk(u, amount, tfee)
    \/ side = "bid" /\ PutMarketBid(u, amount, tfee)

on_cmd_order_put_market(u, side, amount, tfee) ==
    /\ Serving
    /\ PutMarketOrder(u, side, amount, tfee)
    /\ request' = [method |-> "market_order",
                   params |-> <<u, side, amount, tfee>>]
    /\ UNCHANGED <<mode, log, redone, slice, slices, restarts>>

on_cmd_order_cancel(u, i) ==
    /\ Serving
    /\ CancelOrder(u, i)
    /\ append_operlog([method |-> "cancel_order", params |-> <<u, i>>])
    /\ UNCHANGED <<mode, request>>

(* A round of the matching loop of the handler. *)
Round ==
    /\ \E m \in DOMAIN orders : \/ ExecuteLimitAsk(m) \/ ExecuteLimitBid(m)
                                \/ ExecuteMarketAsk(m) \/ ExecuteMarketBid(m)
    /\ UNCHANGED <<mode, replay>>

(* market_put_*_order returns.  It does so without an error also when the  *)
(* freeze of order_put was refused, and then the put is logged as any is.  *)
Return ==
    /\ FinishTaker \/ RestLimitOrder
    /\ request' = NoRequest
    /\ \/ /\ mode = "serving"
          /\ append_operlog(request)
       \/ /\ mode = "redoing"
          /\ redone' = redone + 1
          /\ UNCHANGED <<log, slice, slices, restarts>>
    /\ UNCHANGED mode

-------------------------------------------------------------------------------
(* me_persist.c, me_dump.c: the orders of the two lists and the balances.  *)

Faulty_Dumped_asks_only(m) == [m EXCEPT !.orders = [i \in m.asks |-> @[i]]]
Dumped(m) ==
    [m EXCEPT !.orders = [i \in m.asks \cup m.bids |-> @[i]]]

make_slice ==
    /\ mode = "serving" /\ Idle /\ slices < MaxSlices
    /\ slice' = [oper |-> Len(log), memory |-> Dumped(Memory)]
    /\ slices' = slices + 1
    /\ UNCHANGED <<vars, mode, request, log, redone, restarts>>

-------------------------------------------------------------------------------
(* me_load.c                                                               *)

(* order_put: the order enters the indexes and is frozen once more, in     *)
(* balances that are empty when the orders are loaded, so it is refused.   *)
order_put(m, o) ==
    [m EXCEPT
        !.balance = balance_freeze(@, o.user, Gives(o.side),
                                   FrozenUnits([o EXCEPT !.freeze = ToFreeze(o)])),
        !.orders = With(@, o.id, [o EXCEPT !.freeze = ToFreeze(o)]),
        !.users = [@ EXCEPT ![o.user] = @ \cup {o.id}],
        !.asks = IF o.side = "ask" THEN @ \cup {o.id} ELSE @,
        !.bids = IF o.side = "bid" THEN @ \cup {o.id} ELSE @]

(* The rows are read and put back by id. *)
load_orders(m, rows) ==
    FoldLeft(LAMBDA n, i : order_put(n, rows[i]), m,
             SetToSortSeq(DOMAIN rows, <))

load_balance(m, rows) ==
    [m EXCEPT !.balance =
        [k \in BalanceKey |-> IF rows[k] > 0 THEN rows[k] ELSE @[k]]]

(* load_slice_from_db on an empty memory that has the ids of the slice. *)
Blank(s) == [s.memory EXCEPT !.balance = EmptyBalances, !.orders = << >>,
                             !.users = [u \in Users |-> {}],
                             !.asks = {}, !.bids = {}]
Faulty_Loaded_balance_first(s) ==
    load_orders(load_balance(Blank(s), s.memory.balance), s.memory.orders)
Loaded(s) ==
    load_balance(load_orders(Blank(s), s.memory.orders), s.memory.balance)

(* The engine dies and the next one loads the slice.  The log is left with *)
(* its first kept entries; those before the slice are never needed again.  *)
Restart(kept) ==
    /\ restarts < MaxRestarts
    /\ restarts' = restarts + 1
    /\ kept \in slice.oper..Len(log)
    /\ log' = SubSeq(log, 1, kept)
    /\ LET m == Loaded(slice)
       IN /\ balance' = m.balance /\ orders' = m.orders /\ users' = m.users
          /\ asks' = m.asks /\ bids' = m.bids
          /\ order_id_start' = m.order_id_start
          /\ deals_id_start' = m.deals_id_start
          /\ deals' = m.deals /\ order_history' = m.order_history
    /\ taker' = NoTaker /\ request' = NoRequest
    /\ dict_update' = {}
    /\ mode' = "redoing" /\ redone' = slice.oper
    /\ UNCHANGED <<ghosts, slice, slices>>

Redoing(method) ==
    /\ mode = "redoing" /\ Idle /\ redone < Len(log)
    /\ log[redone + 1].op.method = method

(* load_update_balance reads the change with the precision that is saved. *)
load_update_balance ==
    /\ Redoing("update_balance")
    /\ \E padding \in Paddings :
           UpdateBalance(log[redone + 1].op.params, padding)
    /\ redone' = redone + 1
    /\ UNCHANGED <<mode, request, log, slice, slices, restarts>>

load_limit_order ==
    /\ Redoing("limit_order")
    /\ LET p == log[redone + 1].op.params
       IN PutLimitOrder(p[1], p[2], p[3], p[4], p[5], p[6])
    /\ UNCHANGED <<mode, replay>>

load_market_order ==
    /\ Redoing("market_order")
    /\ LET p == log[redone + 1].op.params
       IN PutMarketOrder(p[1], p[2], p[3], p[4])
    /\ UNCHANGED <<mode, replay>>

load_cancel_order ==
    /\ Redoing("cancel_order")
    /\ LET i == log[redone + 1].op.params[2]
       IN i \in DOMAIN orders /\ CancelOrder(orders[i].user, i)
    /\ redone' = redone + 1
    /\ UNCHANGED <<mode, request, log, slice, slices, restarts>>

(* load_oper; if none of them succeeds the engine does not start. *)
load_oper == \/ load_update_balance \/ load_limit_order
             \/ load_market_order \/ load_cancel_order

(* init_from_db returns and the server is started. *)
LoadEnds ==
    /\ mode = "redoing" /\ Idle /\ redone = Len(log)
    /\ mode' = "serving"
    /\ UNCHANGED <<vars, replay>>

-------------------------------------------------------------------------------
ReplayInit ==
    /\ Init
    /\ mode = "serving" /\ request = NoRequest
    /\ log = << >> /\ redone = 0
    /\ slice = [oper |-> 0, memory |-> EmptyMemory]
    /\ slices = 0 /\ restarts = 0

Handle ==
    \/ \E r \in UpdateRequests, padding \in Paddings :
           on_cmd_balance_update(r, padding)
    \/ \E u \in Users, side \in Sides, amount \in Amounts, price \in Prices,
          tfee \in TakerRates, mfee \in MakerRates :
           on_cmd_order_put_limit(u, side, amount, price, tfee, mfee)
    \/ \E u \in Users, side \in Sides, tfee \in TakerRates :
           \E amount \in IF side = "ask" THEN Amounts ELSE Budgets :
               on_cmd_order_put_market(u, side, amount, tfee)
    \/ \E u \in Users, i \in DOMAIN orders : on_cmd_order_cancel(u, i)

ReplayNext ==
    \/ Handle
    \/ Round \/ Return
    \/ make_slice
    \/ \E kept \in 0..Len(log) : Restart(kept)
    \/ load_oper \/ LoadEnds

-------------------------------------------------------------------------------
(* order_finish could always give back what its order had frozen.  It      *)
(* cannot when a taker fee had made order_put's freeze fail.               *)
AllFinished == <<"order_finish", "unfreeze">> \notin ignored

(* The engine's memory is what the logged operations made it, also when it *)
(* was loaded from a slice and the rest was redone: books, balances, ids   *)
(* and deals are those the acknowledged execution left.  load_orders       *)
(* relies on order_put's freeze being refused, and every operation on      *)
(* doing the same thing twice.  Excepted are engines with an order that    *)
(* has left the lists and not m->orders, which a slice is made without.    *)
ReplayExact ==
    Idle /\ AllFinished =>
        Memory = IF redone = 0 THEN EmptyMemory ELSE log[redone].left

(* README.md: the engine "saves operation log in MySQL and redoes the      *)
(* operation log when start".  init_from_db gives up at the first          *)
(* operation that does not succeed, so none that was served may fail when  *)
(* it is redone.                                                           *)
AllRedone == mode = "redoing" /\ Idle /\ redone < Len(log) => ENABLED load_oper

(* So it is, with the same exception: the next cancel of such an order     *)
(* finds it in m->orders and is logged, and is refused after a slice.      *)
RedoSucceeds == AllFinished => AllRedone

(* README.md: the engine "saves operation log in MySQL and redoes the      *)
(* operation log when start".  Every user has, after the log was redone,   *)
(* the balances he had when its last operation was acknowledged.           *)
BalancesRedone ==
    Idle /\ redone > 0 => balance = log[redone].left.balance
===============================================================================
