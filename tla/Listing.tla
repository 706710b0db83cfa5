-------------------------------- MODULE Listing --------------------------------
(***************************************************************************)
(* listing.update of me_server.c: me_config.c, load_assets_listing of      *)
(* me_balance.c and load_markets_listing of me_trade.c read the engine's   *)
(* configuration file again while the engine runs.  Its assets and markets *)
(* replace the list in settings, and those whose name is new are added to  *)
(* the dictionaries the handlers look them up in.                          *)
(*                                                                         *)
(* A row that cannot be read ends the update with the rest of the new list *)
(* not set.  A new market is added as the address of a local variable of   *)
(* another type.  Whatever uses one of these is undefined; here the engine *)
(* dies of it, or goes on with a memory nothing is said of any more.       *)
(*                                                                         *)
(* Around it: orders that rest in a market, the slice of me_dump.c, which  *)
(* walks over settings.markets, and a start, which loads the slice, redoes *)
(* what was logged later, and skips what is of a market not configured.    *)
(***************************************************************************)
EXTENDS Naturals, FiniteSets, SequencesExt

CONSTANTS
    Files,      \* the contents config.json may get
    Markets,    \* the names of markets a request may carry
    MaxOrders, MaxEdits, MaxStarts  \* bounds on how much happens

VARIABLES
    file,         \* the configuration file
    engine,       \* "up", "down" or "corrupt"
    settings,     \* the lists of assets and markets, as in the file
    dict_asset,   \* the precisions of the known assets
    dict_market,  \* the known markets: "created" or "dangling"
    resting,      \* the orders in the books
    dumped,       \* the orders in the last slice
    put, canceled,  \* the orders put and canceled since, all logged
    placed, edits, starts,
    passed  \* history: the markets this engine made its last slice without

memory == <<settings, dict_asset, dict_market, resting>>
saved == <<dumped, put, canceled>>
counts == <<placed, edits, starts>>
listingVars == <<file, engine, memory, saved, counts, passed>>

NotSet == [name |-> "not set"]
Readable(row) == row.readable

NameSet(rows) == {row.name : row \in ToSet(rows)}
RowOf(rows, name) == rows[CHOOSE i \in DOMAIN rows : rows[i].name = name /\
                              \A j \in 1..(i - 1) : rows[j].name # name]

-------------------------------------------------------------------------------
(* A start: me_config.c, init_balance, init_trade, load_orders, load_oper. *)

Precisions(row) == [save |-> row.save, show |-> row.show]

(* market_create: both assets exist and their precisions can hold a price, *)
(* an amount and a fee.                                                    *)
market_create(conf, assets) ==
    /\ {conf.stock, conf.money} \subseteq DOMAIN assets
    /\ conf.stock_prec + conf.money_prec <= assets[conf.money].save
    /\ conf.stock_prec + conf.fee_prec <= assets[conf.stock].save
    /\ conf.money_prec + conf.fee_prec <= assets[conf.money].save

init_balance == [a \in NameSet(file.assets) |-> Precisions(RowOf(file.assets, a))]

(* No name of an asset may be given twice; of a market it is ignored. *)
Configured ==
    /\ \A row \in ToSet(file.assets) \cup ToSet(file.markets) : Readable(row)
    /\ Len(file.assets) = Cardinality(NameSet(file.assets))
    /\ \A conf \in ToSet(file.markets) : market_create(conf, init_balance)

OfMarkets(orders, names) == {o \in orders : o.market \in names}
LoadedOrders == OfMarkets((dumped \cup put) \ canceled, NameSet(file.markets))

(* load_limit_order: the put of an order whose market is not configured is *)
(* skipped and not counted, so that the orders after it get other ids, and *)
(* a cancel is another order's, or of none.                                *)
SkippedPuts == put \ OfMarkets(put, NameSet(file.markets))

(* load_cancel_order: an order that is not there, though its market is.    *)
OrphanCancels == OfMarkets(canceled \ (dumped \cup put), NameSet(file.markets))

Start ==
    /\ engine = "down" /\ starts < MaxStarts
    /\ Configured
    /\ SkippedPuts = {} /\ OrphanCancels = {}
    /\ engine' = "up" /\ starts' = starts + 1
    /\ settings' = file
    /\ dict_asset' = init_balance
    /\ dict_market' = [m \in NameSet(file.markets) |-> "created"]
    /\ resting' = LoadedOrders
    /\ passed' = {}
    /\ UNCHANGED <<file, saved, placed, edits>>

(* The memory is kept, to say what the engine had. *)
Stop ==
    /\ engine = "up"
    /\ engine' = "down"
    /\ UNCHANGED <<file, memory, saved, counts, passed>>

Undefined ==
    /\ engine' \in {"down", "corrupt"}
    /\ UNCHANGED <<file, memory, saved, counts, passed>>

(* The engine comes up with other orders, or its load fails.               *)
StartShifted ==
    /\ engine = "down" /\ Configured
    /\ SkippedPuts # {}
    /\ Undefined

-------------------------------------------------------------------------------
(* listing.update                                                          *)

EditFile(f) ==
    /\ edits < MaxEdits /\ f # file
    /\ file' = f /\ edits' = edits + 1
    /\ UNCHANGED <<engine, memory, saved, placed, starts, passed>>

AllReadable(rows) == \A i \in DOMAIN rows : Readable(rows[i])

(* The rows before the first that cannot be read, and the new list. *)
RowsRead(rows) ==
    LET bad == {i \in DOMAIN rows : ~Readable(rows[i])}
    IN SubSeq(rows, 1, IF bad = {} THEN Len(rows)
                       ELSE (CHOOSE i \in bad : \A j \in bad : i <= j) - 1)
NewList(rows) == [i \in DOMAIN rows |->
                    IF i <= Len(RowsRead(rows)) THEN rows[i] ELSE NotSet]

(* dict_add refuses a name that is there, so that its value stays. *)
load_assets_listing ==
    [a \in DOMAIN dict_asset \cup NameSet(RowsRead(file.assets)) |->
        IF a \in DOMAIN dict_asset THEN dict_asset[a]
        ELSE Precisions(RowOf(file.assets, a))]

load_markets_listing ==
    [m \in DOMAIN dict_market \cup NameSet(RowsRead(file.markets)) |->
        IF m \in DOMAIN dict_market THEN dict_market[m] ELSE "dangling"]

(* listing_update: the markets are read when all the assets were. *)
on_cmd_listing_update ==
    /\ engine = "up"
    /\ dict_asset' = load_assets_listing
    /\ IF AllReadable(file.assets)
       THEN /\ settings' = [assets |-> NewList(file.assets),
                            markets |-> NewList(file.markets)]
            /\ dict_market' = load_markets_listing
       ELSE /\ settings' = [settings EXCEPT !.assets = NewList(file.assets)]
            /\ UNCHANGED dict_market
    /\ UNCHANGED <<file, engine, resting, saved, counts, passed>>

-------------------------------------------------------------------------------
(* What uses the lists and the dictionaries.                               *)

(* asset.list, asset.summary, market.list, market.summary and the command  *)
(* line's "balance summary" and "market summary" walk over a list: they    *)
(* read, or do what is undefined.                                          *)
on_cmd_asset_list ==
    /\ engine = "up"
    /\ NotSet \in ToSet(settings.assets)
    /\ Undefined

Summarised(m) == m \in DOMAIN dict_market /\ dict_market[m] = "created"
get_market_summary ==
    /\ engine = "up"
    /\ \E row \in ToSet(settings.markets) : ~Summarised(row.name)
    /\ Undefined

(* order.put_limit: get_market says whether the market is known. *)
order_put_limit(m) ==
    LET o == [market |-> m, id |-> placed + 1]
    IN /\ engine = "up" /\ placed < MaxOrders
       /\ m \in DOMAIN dict_market
       /\ \/ /\ dict_market[m] = "created"
             /\ placed' = placed + 1
             /\ resting' = resting \cup {o}
             /\ put' = put \cup {o}
             /\ UNCHANGED <<file, engine, settings, dict_asset, dict_market,
                            dumped, canceled, passed, edits, starts>>
          \/ dict_market[m] = "dangling" /\ Undefined

order_cancel(o) ==
    /\ engine = "up" /\ o \in resting
    /\ resting' = resting \ {o}
    /\ canceled' = canceled \cup {o}
    /\ UNCHANGED <<file, engine, settings, dict_asset, dict_market,
                   dumped, put, passed, counts>>

(* dump_orders: the child walks over settings.markets.  One that is not    *)
(* known ends the dump; the child dies of one that is not a market.        *)
Faulty_DumpedMarkets_but_last == NameSet(Front(settings.markets))
DumpedMarkets == NameSet(settings.markets)
dump_orders ==
    /\ engine = "up"
    /\ \A m \in NameSet(settings.markets) : Summarised(m)
    /\ dumped' = {o \in resting : o.market \in DumpedMarkets}
    /\ put' = {} /\ canceled' = {}
    /\ passed' = Markets \ NameSet(settings.markets)
    /\ UNCHANGED <<file, engine, memory, counts>>

-------------------------------------------------------------------------------
ListingInit ==
    /\ file \in Files /\ Configured
    /\ engine = "down"
    /\ settings = [assets |-> << >>, markets |-> << >>]
    /\ dict_asset = << >> /\ dict_market = << >>
    /\ resting = {} /\ dumped = {} /\ put = {} /\ canceled = {} /\ passed = {}
    /\ placed = 0 /\ edits = 0 /\ starts = 0

ListingNext ==
    \/ Start \/ StartShifted \/ Stop
    \/ \E f \in Files : EditFile(f)
    \/ on_cmd_listing_update
    \/ on_cmd_asset_list \/ get_market_summary
    \/ \E m \in Markets : order_put_limit(m)
    \/ \E o \in resting : order_cancel(o)
    \/ dump_orders

-------------------------------------------------------------------------------
ListingSpec == ListingInit /\ [][ListingNext]_listingVars

(* me_dump.c, me_load.c: a new engine has the orders the last one had, but *)
(* those of markets that are no longer configured; others come back only   *)
(* with a market the last one did not have.  listing.update replaces the   *)
(* list the slices are made of: an order whose market was not listed when  *)
(* the last engine made its last slice may be lost, no other.              *)
OrdersKept ==
    [][engine = "down" /\ engine' = "up" =>
          /\ \A o \in resting' \ resting : ~Summarised(o.market)
          /\ \A o \in resting : o.market \in NameSet(file.markets) =>
                o \in resting' \/ o.market \in passed]_listingVars
===============================================================================
