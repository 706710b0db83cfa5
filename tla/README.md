# A verification of the ViaBTC exchange server

TLA+ specifications of the exchange in `src/viabtc_exchange_server`, the TLC
runs that check them on small instances, and proofs that TLAPS checks for
every instance. All paths below are relative to that directory; the other
directories of `src/` hold deployment files (Kafka, Redis, MySQL) and the
issues and wiki of the original project.

`PROJECT.json` gives, for every definition that stands for code, the lines it
stands for (`map`), and for every hazard the properties that watch it.

Contents: 1 the system, 2 the modules, 3 the runs, 4 faulty variants,
5 what the runs found, 6 the proofs, 7 what is not modelled, 8 the plan.

## 1. The system

A trading exchange of a handful of processes that talk over TCP (`utils/ut_rpc_*`),
Kafka and Redis, with MySQL behind. Every process is one event loop (libev
through `network/`); some have worker threads for blocking calls.

    browser --HTTP---> accesshttp --RPC--> matchengine --statements--> MySQL (log, history)
        \---websocket-> accessws --RPC-->      |                           ^
                           ^    \--RPC--> readhistory ---------------------/
                           |    \--RPC--> marketprice <--> Redis
                           |                   ^
                           \----- Kafka: balances, orders, deals <---- matchengine

### 1.1 Components

**Match engine, balances** (`me_balance.c`). State: `dict_balance`, (user,
available or frozen, asset) to a decimal. Operations: get, set, add, sub,
freeze, unfreeze; a refusal is a NULL result. Right when no amount becomes
negative, a freeze moves and never copies, and sums are kept.

**Match engine, market** (`me_market.c`). State per market: `orders` (id to
order), `users` (user to list of orders), skip lists `asks` and `bids` in
price-time order; global `order_id_start`, `deals_id_start`. Operations: put
limit order, put market order, cancel, and internally four matching loops,
`order_put`, `order_finish`. Every deal changes two orders, up to six
balances, and appends rows and messages. It is sequential, and its hardness is
in sequences: partial fills, roundings in four precisions, the results of
balance calls that nobody reads, and four copies of one loop that differ in
the fee currency. Right when the book is never crossed, better and older
orders trade first, what an order has left, dealt and frozen adds up, indexes
agree, nobody receives what was not paid, and every loop ends.

**Match engine, balance updates** (`me_update.c`). State: `dict_update`, the
keys of updates applied in the last day. Right when an update is applied once
however often it is sent.

**Match engine, operation log** (`me_operlog.c`). State: a list of entries not
yet in a statement, `operlog_id_start`, a job queue with one worker thread.
Operations: append, flush by timer (0.1 s), the worker's execute-and-retry,
shutdown. The day of the flush names the table. Hard: replies are sent before
the entry is in the database; lost answers; midnight; shutdown with a queue.

**Match engine, slices and loading** (`me_persist.c`, `me_dump.c`,
`me_load.c`, `me_main.c`). Every hour the process forks and the child writes
all orders and balances to new tables, records them in `slice_history`, and
deletes slices older than three days. A new engine loads the last recorded
slice and redoes the log after it. Hard: a child outlives its engine, writes
beside it, may be killed anywhere, and checks errors the wrong way. Right when
a new engine always has a prefix of what was acknowledged.

**Match engine, dispatch** (`me_server.c`): checks a request, refuses it
while a queue is at its limit (the log, the history, the messages), executes
it, appends it to the log and replies. Read commands go through a reply cache.

**Match engine, history writer** (`me_history.c`). State: one growing INSERT
per table, a pool of threads. A timer hands the statements to the pool; a
thread repeats its statement until MySQL takes it or calls it a duplicate.
Hard: several threads, a lost answer, ids given out again after a crash, the
shutdown. Right when a row is stored, and a duplicate is refused only when it
is one.

**Match engine, message push** (`me_message.c`). State: three lists, one per
topic, for messages that librdkafka's queue has no room for, and a timer that
drains them. Right when a topic gets its messages in their order.

**Match engine, queries** (`me_server.c`): balances, pages of pending orders
and of the book, the depth and its merge into price levels, summaries, and a
cache of answers to `order.depth`. Right when an answer is that of one state,
and of a recent one.

**Match engine, listing** (`me_trade.c`, `me_config.c`): assets and markets
read again while the engine runs, an addition of this fork. Hard: the lists
and the dictionaries change apart, and the slice walks over one of them.
**Command line** (`me_cli.c`).

**Network** (`network/`): `nw_state` (pending requests by id, each with a
timeout), `nw_timer`, `nw_job` (worker pool), `nw_ses`, `nw_svr`, `nw_clt`
(sessions kept in a cache and reused), buffers and sockets. Hard: a late
answer after its timeout, ids that wrap, sessions reused while a request for
the old one is pending, worker and loop on one queue.

**Utilities** (`utils/`): skip list, dict, list; RPC client with heartbeat and
reconnect; Kafka consumer thread; process keepalive; HTTP and websocket
servers; configuration, logging, decimal wrappers; vendored parsers.

**HTTP gateway** (`accesshttp/`): a listener that accepts connections and
passes their descriptors to worker processes; a worker reads requests, which
may come in pieces or several at once, forwards each to one of three backends
with an id from `nw_state`, answers or times out. Hard: a descriptor has
several owners on its way; several requests of a connection wait at once.

**Websocket gateway** (`accessws/`): sessions, asynchronous authentication
(`aw_auth.c`, `aw_sign.c`), forwarding; polled feeds (`aw_depth`, `aw_deals`,
`aw_kline`, `aw_price`, `aw_state`, `aw_today`) that poll a backend per key and
broadcast differences; user feeds (`aw_asset`, `aw_order`, fed by
`aw_message.c` from Kafka). Hard: a session that closes or authenticates
again while its answers are on the way; polls that overlap; a client that has
to rebuild a depth from differences.

**Market price** (`marketprice/`): consumes deals, aggregates klines of four
widths and a list of last deals, flushes them with the Kafka offset to Redis.
Hard: a crash between the flushes, a flush that fails, deals read twice.

**History reader** (`readhistory/`): queries by worker threads, each on a
MySQL connection of its own, over an RPC connection that breaks and is made
again. Hard: the answer comes when the session may be another's; pages are cut
from tables that grow. **Alert center** (`alertcenter/`): forwards a line to a script.
**Schema** (`sql/`): tables; the primary key of `operlog_example` decides what
a repeated INSERT does.

### 1.2 Interactions that matter

* The dispatcher calls market and balances in one thread; a request runs to
  its end before the next one. Concurrency starts behind it: worker threads,
  the forked child, the database, Kafka.
* A request's effect becomes visible in three unsynchronised ways: the reply,
  the history rows and the Kafka messages; durable it becomes later, by the
  operation log or a slice.
* What a client of a gateway sees has passed several caches and polls: the
  engine's cache of depths, the gateway's cache of public answers, and the
  entries of the polled feeds, each with its own delay.
* `order.put` depends on the balance left by every other market of the user;
  for one market this looks like deposits and withdrawals between requests.

## 2. The modules

| module | stands for | role |
|---|---|---|
| `Balance` | `me_balance.c` | the table and its operations, as operators |
| `Market` | `me_market.c`, `me_update.c`, put and cancel of `me_server.c` | the state machine of one market; EXTENDS `Balance` |
| `MarketProperties` | | its properties; the inductive invariant `MarketInv` |
| `Ledger` | | abstract: what users own changes by updates and whole trades |
| `Market_proofs` | | proofs: book, orders and deals; money and the ledger; listings |
| `Recovery` | `me_operlog.c`, `me_persist.c`, `me_dump.c`, `me_load.c`, restart in `me_main.c` and `utils/ut_misc.c` | log, worker, database, slices, crashes and restarts |
| `RecoveryProperties`, `Recovery_proofs` | | its properties and their proofs |
| `DurableLog` | | abstract: a prefix of what was acknowledged survives |
| `Decimal` | `utils/ut_decimal.c` | the two precisions of an asset |
| `EngineReplay` | `me_server.c`, `me_dump.c`, `me_load.c` | the engine around `Market`: operations logged, dumped, loaded, redone |
| `EngineQueries` | `me_server.c` | the commands that read, over `Market`, and the depth cache |
| `Listing` | `me_config.c`, `me_trade.c`, `me_balance.c` | listing.update, with slices and starts |
| `Jobs` | `network/nw_job.c` | threads, requests, replies |
| `EngineOutput` | `me_history.c`, `me_message.c`, `me_main.c` | rows and messages an engine sends away; EXTENDS `Jobs` |
| `EngineOutput_proofs` | | proofs about its rows and its messages |
| `Gateway` | `accessws/` (`aw_server.c`, `aw_auth.c`, `aw_sign.c`, `aw_order.c`, `aw_asset.c`, `aw_message.c`) on `network/` | sessions, requests and user feeds of one worker |
| `GatewayProperties`, `Gateway_proofs` | | its properties and their proofs |
| `PolledFeeds` | `aw_depth.c`, `aw_deals.c`, `aw_kline.c`, `aw_price.c`, `aw_state.c`, `aw_today.c` | the feeds a worker polls for |
| `PolledFeedsProperties`, `PolledFeeds_proofs` | | its properties and their proofs |
| `WsServer` | `utils/ut_ws_svr.c` | one connection: upgrade, frames, messages |
| `RequestReply`, `MessageChannel` | | abstract: a request is answered once, to its connection; messages arrive whole, once, in order |
| `NwState` | `network/nw_state.c` | entries with ids and timers, as operators |
| `NwSessions` | `network/nw_clt.c`, `nw_svr.c`, `nw_ses.c`, `utils/ut_rpc_*.c` | connections that break and are made again |
| `HistoryReader` | `readhistory/` and a client of it | requests over such a connection, answered by threads; EXTENDS `NwSessions`, `Jobs`, `NwState` |
| `HistoryReaderProperties`, `HistoryReader_proofs` | | its properties and their proofs |
| `Listener` | `ah_listener.c`, `aw_listener.c` | connections accepted and handed to workers |
| `HttpGateway` | `accesshttp/`, `utils/ut_http_svr.c` | the workers behind it; EXTENDS `Listener` |
| `HttpGatewayProperties`, `HttpGateway_proofs` | | its properties and their proofs |
| `KafkaConsumer` | `utils/ut_kafka.c` | the consumer's thread and list |
| `Klines` | `mp_kline.c`, queries of `mp_message.c` | klines and what is computed from them, as operators |
| `MarketPrice` | `mp_message.c` | deals in, flushes to Redis out, crashes; EXTENDS both |
| `MarketPrice_proofs` | | proofs: what memory and Redis have of the deals |
| `MarketQueries` | `mp_server.c` | the commands over it, with their cache |
| `MCMarket`, `MCEngine`, `MCOutput`, `MCAccessWs`, `MCFeeds`, `MCServers`, `MCMarketPrice` | | constants for TLC, and the composition of parts that one run looks at |

How they are put together. `EngineReplay` and `EngineQueries` EXTEND `Market`:
an engine's requests and queries run on the very state machine of the market.
`HistoryReader` composes network, threads and pending requests; `HttpGateway`
the listener and the workers; `MarketPrice` the consumer and the klines.
Modules without state in common that one run checks are *parts*: a variable
`part`, chosen by `Init` and never changed, says which of them is at work, so
that the others' states are not multiplied with its own.

### 2.1 Market

One TLA+ variable for each structure of the C code and with its name:
`balance` (`dict_balance`), `orders`, `users`, `asks`, `bids` of `market_t`,
the two id counters, `dict_update`; `deals` and `order_history` are the rows
handed to the history writer. `ignored` and `collected` are history variables:
which balance calls were refused with nobody looking at the result, and the
fees really taken.

`taker` is the order on the C stack while a put handler runs. A put is several
steps: `PutLimitOrder`, `PutMarketAsk` or `PutMarketBid` (checks, allocation),
one of `ExecuteLimitAsk`, `ExecuteLimitBid`, `ExecuteMarketAsk`,
`ExecuteMarketBid` for each round of the matching loop (the whole body of the
loop, `MakeDeal`, with `order_finish` for a filled maker), and `FinishTaker`
or `RestLimitOrder` (`order_put`). At most one of them is enabled, and other
requests wait: this splits a long handler without adding interleavings, and
lets invariants speak of the middle of a match. `UpdateBalance` and
`CancelOrder` are one step.

Data. Prices and amounts are naturals in the market's precisions, a fee rate a
number of `FeeDen`-ths. Balances have the tightest precisions that
`market_create` accepts, so a unit of money is a price unit times an amount
unit; the only rounding left is that a fee is a fraction, of which the balance
loses the ceiling (`mpd_sub`, then `ROUND_DOWN` of what stays). A skip list is
the set of its ids with `order_match_before`; `IsFirst` is what its iterator
returns, and nothing else of the list is used.

The struct key of an update is compared by its bytes, padding included, which
nothing sets: `UpdateBalance` takes a padding from `Paddings`. The runs have one
padding; what two would do is in section 5.

### 2.2 Recovery

An operation is a number; the state of an engine is the sequence of operations
applied to it (`applied`), so a slice is a sequence too. `list`, `jobs` and
`working` are the list, the queue and the statement in the worker's hands.
`tables` and `operlog` are the day tables and their rows, `slice_order`,
`slice_balance` and `slice_history` the slice tables; these survive a crash.
`slice_history` is a set of rows with the AUTO_INCREMENT id that tells which is
the last. `child[i]` is the process of the i-th fork, at the statement it sends
next; `victims` are the slices it has read to be old and has yet to delete.

Actions: `Start` (`init_from_db`), `Serve` (a state-changing command),
`FlushTimer`, `Take`, `OnJob`, `OnJobUnanswered` (executed, but the answer is
lost), `Shutdown` and `Exit`, `Crash`, `MakeSlice`, the nine steps of a child,
and `NextDay`. Every statement of a child is a step, because a crash, a
restart or a kill may fall between any two.

What may go wrong: always crashes, lost answers and killed children; and, if
the constant `Faults` names it, an engine started while an old child runs
("orphan"), refused INSERTs of a slice ("refused"), a day that ends before the
first slice ("unsliced"). `Recovery_Main` allows none of the three,
`Recovery_Orphan` the first; the other two are in section 5. Assumed: a
slice is written before the next is due (an hour), and the clock does not go
back. `applied` keeps its value while the engine is down only so that
properties can compare it with what a restart would load (`Recovered`).

### 2.3 The engine around its market

*EngineReplay.* `Recovery` says which operations a new engine gets back and
treats them as numbers. Here they are requests: `Handle` starts the handler of
one, `Round` is a step of it in `Market`, `Return` appends to `log` the
operation together with the memory it left, also when `order_put`'s freeze was
refused. `make_slice` copies what
`dump_to_db` writes; `Restart(kept)` ends the engine
at any moment, inside a handler or a load too, keeps the first `kept` entries
of the log, and puts back the slice as `load_orders` and `load_balance` do,
the orders by `order_put`, whose freeze is refused for want of balances, and
the balances after; `load_oper` redoes an entry, by the same handlers, and
`LoadEnds` lets clients in. Left out: other
markets; the source of orders, which a loaded one lacks; arguments that are refused by their form; and that
`load_limit_order` and its copies accept a source one character longer and
`load_cancel_order` does not look at the user.

*EngineQueries.* `Change` is any step of `Market`, `Query` a reading command
that is answered at once from the state between two requests (reads are served
while `is_operlog_block` and its kin refuse the others). `dict_cache` keeps
answers to `order.depth` until the timer clears it after `CacheTimeout` ticks,
0.45 s in the code. The levels of a merged depth, the page loops and their off-by-one
conditions are translated as they are; with an `interval`, bids are rounded
down and asks up, so a bid below one interval is shown at level 0.

*Listing.* `settings`, `dict_asset` and `dict_market` change as
`listing.update` changes them: the lists are replaced, known names keep their
old entry (`dict_add` keeps what is there), a row that cannot be read leaves
the rest unset. `dict_market` has a new market as "dangling", the address of a
local variable: whatever uses it makes the engine die, or "corrupt", of which
nothing is said any more. A slice walks over `settings`, so `passed` notes the
markets it did not see. A start skips what was logged for a market that is not
configured: with a put among it (`SkippedPuts`) later orders get other ids
than they had, and the engine is "corrupt" or does not start (`StartShifted`);
with a cancel of an order that the slice did not have and whose market is back
(`OrphanCancels`) it does not start.

### 2.4 What the engine sends away

*Jobs.* `job.requests`, what each thread holds, `job.replies` and the byte in
the pipe; modules that use it say what a thread does with its entry.

*EngineOutput.* Four commands append rows to the statements `dict_sql` and
messages to the topics. A row has a number, so that a statement is the set of
its rows and a table has, in order, those of the statements it took.
`on_history_timer` hands the statements over, as the iterator of the dict comes
to them (`Due`); a thread
`Begin`s one, and `on_history_job` ends in a stored statement, in an error and
another try, in a lost answer and another try, or in error 1062, which counts
as success. `queue` is librdkafka's: full, it leaves messages in `list`, which
`on_message_timer` drains; any other error drops a message; `on_delivery` may
report a failure, which is only logged. `fini_message`, `fini_history`,
`Release`, `Stopped` are the orderly stop in the order of `me_main.c`; `Crash`
loses everything in memory and takes the engine back to a prefix of `log`, so
that ids are given again. Rows of tables with an AUTO_INCREMENT key cannot be
duplicates and are stored again.

### 2.5 Websocket gateway

A worker is one event loop, so every handler is a step, and what interleaves
are the handlers: of the clients' messages, the answers of the backends, the
results of the authentication threads, Kafka messages, timers and closes.

A session is memory (`Slots`) that `nw_cache` gives to the next connection, and
an id that no other session of the worker has (`id`, zero when closed). Who
waits for an answer (`pending`, the entries of three `nw_state` tables, told
apart by `context`) keeps both and compares the id when the answer comes
(`SameSession`). `info` is the `clt_info` of a session, with what the last one
left in it until `on_upgrade` clears it. `order_sub` and `asset_sub` are the
two `dict_sub`, `asset_query` the balance queries of `aw_asset.c`,
`backend_cache` the cache of public answers.

Actions: `nw_svr_add_clt`, `on_upgrade`, `nw_svr_close_clt`; a request of each
class of methods (`on_method_...`); an answer (`on_public_reply`,
`on_private_reply`, both the C function `on_backend_recv_pkg`), a timeout, the
end of an authentication job; the Kafka messages and the balance answers they
lead to; and around the worker the backends, their links, and a restart. Any
send may fail (`ok`, or the set `F` of a notification), which closes the
session inside the handler that sends: `Send` and `Notify`.

Data. A method is its class: all public queries are handled alike, and the
version of the data stands for an answer. The authority behind `server.auth`
may name any user or refuse. `asked`, `answers`, `seen` and `proved` are
history variables. The age of cached answers is a choice (`young`).

A notification walks a list, and a failing send frees units of it. If the next
unit is one of them the walk reads freed memory (`aw_order.c:137`). The model
gives this two outcomes: the worker dies, or it reads what was there.

### 2.6 Polled feeds

The six files are one design with different data; `feed` says which one runs.
`entries` are the dicts: a key's sessions and the last answer. `PollTimer` drops
entries without sessions and sends a poll for each of the others, whether the
last was answered or not; `Recv` takes the oldest answer, compares it with the
last and sends the difference, the whole, or nothing, as the file does;
an error takes the entry with its subscribers; `on_poll_timeout` and `LinkLost` are
what else becomes of a poll. The subscribe handlers unsubscribe, subscribe the
keys before the first bad one of the request, and send what there is if none
was bad. `view` is what a client has put together from what it was told.

`missed` holds the slots whose session closed without leaving the entries:
`on_close` does not call `state_unsubscribe`, and `dict_ses_hash_func` hashes
the bytes of the session's `ev_io`, which change while its watcher is pending.

### 2.7 Websocket frames

`WsServer`: the upgrade request, frames, pings and continuations, in pieces,
so that a `Read` may end anywhere; `message` gathers the fragments as
`clt_info` does. What a client sends between its request and the 101 would be
dropped by the code; clients of the model wait, as RFC 6455 has them do. A
frame larger than the buffer closes the connection.

### 2.8 History reader and connections

`NwSessions`: `clt[c]` is an `nw_clt` with its reconnect and connect timers,
`svr_ses` the slots of the server with ids, `accepting` the connections it has
not accepted yet; a socket takes `SOCK_MAX` messages, the rest a `write_buf`. Connections are lost, refused, closed by either
end; the handshake may be lost, and a client may get no socket. `HistoryReader` adds a client's request
(`on_request`, an `nw_state` entry and a package), the server's dispatch to a
thread with its limits, `on_job` with its query, the reply to the session if
it is still the one that asked, and timeouts. Who asked travels in the
messages for the properties alone. `Pagers` ask for the next page when they
have the last, `page[c].first` is the history when one asked for the first time
(not each time it asked for the first page: a late answer to the
first asking would not have the rows of the second); `Commit` stores new rows
meanwhile.

`Unchecked` names clients that send without asking `rpc_clt_connected`, as
seven places of `accessws` do; it is empty in the run (section 5).

### 2.9 HTTP gateway

`Listener`: `backlog`, `accepted`, and the links, numbered unix sockets that
each hold up to `PIPE_MAX` descriptors. The two ends notice a break at
different times (`workers`, the links the listener has in its list; `link`,
that of each worker); `copies` counts the descriptors of a connection in all
processes and packets. The module stands for the listeners
of both gateways. `HttpGateway`: a worker's `Read` takes any number of pieces,
hence parts of a request or several; each of the requests they complete
(`Completed`, up to one that ends the session) is answered at once
(malformed, unknown) or sent to a backend with an entry in `state`; answers
come in any order; `Timer` answers that none came; keep-alive closes idle
sessions, with requests outstanding too; a worker may be restarted.

### 2.10 Market price

`KafkaConsumer`: the thread sees room (`SeeRoom`), which it reads without the
lock, and later adds a message (`Consume`) and writes a byte to the pipe; the
main thread empties the pipe (`Wake`), then the list. `MarketPrice`: a deal
updates the klines of four types, the last price and the list of last deals in
`mem`. A flush is one step per Redis command (`at` says which), each of which
may be refused, lost, or done without an answer; then the offset. As in the
code, a kline whose HSET failed leaves the set of updates all the same and the
offset moves on; an error to LPUSH counts as success, no answer means the deals
are pushed again. `Crash` loads what Redis has and reads on from the offset;
without one it begins at offset 1. `clear_kline` and `clear_redis` drop what
is too old. `gone`, `tainted` and the like remember what was hurt, for the
properties, in which deals are sets of offsets, and the kline they make is
defined by their least, greatest and sums. `Klines` has every query as an operator on the klines, its windows
put together from seconds, minutes, hours and days as in the code, with units
that are constants; `MarketQueries` adds commands and the cache.

## 3. The runs

All with `CHECK_DEADLOCK FALSE`, since the bounds end every behaviour: order
ids, operations, slices, days, connections, requests and troubles run out.

| run | states | shows |
|---|---|---|
| `Market_Main` | 194 995 | the market keeps its books, its priority and, unless a taker fee was charged, its users' money, implements `Ledger`, and ends its loops |
| `Recovery_Main` | 195 771 | the database always loads, log, slices and restarts implement `DurableLog`, and what is acknowledged is logged unless the engine ends |
| `Engine_Main` | 465 578 | redone operations do what they did, queries answer from one recent book, and listings lose no order but of markets they delist |
| `Output_Main` | 118 183 | rows and messages: nothing is lost but what a stop and a crash take, nothing overtakes, every row is stored |
| `AccessWs_Main` | 228 969 | a request is answered once, to the connection that asked; no client sees data grow older; feeds stay fresh; frames become messages |
| `Feeds_Main` | 325 235 | sessions are whom they proved to be, feeds go to their owners and subscribers, and what a client puts together is what was polled |
| `Servers_Main` | 432 531 | the history reader over connections that break, and the HTTP gateway with its listener |
| `MarketPrice_Main` | 442 664 | deals reach Redis through failures and crashes, and queries are right at the boundaries of their units |
| `Market_OrderPut`, `Recovery_Orphan`, `Engine_Precision`, `Engine_Unfrozen` | | disagreements, section 5 |

### 3.1 Bounds

Each run takes about a minute with two workers. Where a combination of bounds
is too large, an MC module lets one thing take the place of another; the
combinations it leaves out are named here, and the properties section 6 proves
hold for them too; what section 6.11 lists is checked within them only. Three other things keep runs short without leaving anything
out: symmetry, also by hand (of things that nothing distinguishes yet a
certain one is used first); views, which leave out history that no property of
the run asks for (`Feeds_Main`; `Engine_Main`, the fees collected and refused
calls but those of `order_put` and `order_finish`) and cache entries that are too
old to be used (`MarketPrice_Main`); and answers that change nothing else,
which have no successors of their own.

*Market.* Two users, one funded with stock and money so that he can trade with
himself, the other with money, part of which may be withdrawn at any time
between requests; prices 1 and 2 give a crossing, a touching and a separate
pair; amounts 1 and 2 give full and partial fills of either side; four orders
give a taker that fills two makers and rests, with one order left behind to be
overtaken or cancelled; market bids of 3 units of money leave a remainder at
price 2. A behaviour with a taker fee or a withdrawal has one order less
(`FewerWithMore`): most of the balance properties say nothing of the former.
`FeeDen = 2` with rate 1 makes half a unit of fee, the smallest case that
rounds; takers pay that or nothing. Identities of users are not symmetric,
because they are funded differently.

*Recovery.* `MaxPending = 1` so that the limit is reached; three operations so
that one can be in the list, one in the queue and one in the database; two
days and two slices with `KeepDays = 0`, so that a slice can make the first
one old and clear it; two ends of the engine, so that a restart can itself be
lost. The third operation and the second slice exclude each other
(`FewerSlices`); `AlwaysLoadable`, `RefusedOnlyWhenLogged` and
`ImplementsDurableLog` are proved for all numbers of both.

*Engine*, three parts. "redo": four operations, one slice, two restarts, so
that a slice can lie between operations and a load can be cut off by the next
restart. Makers pay a fee. A taker fee is charged to a limit bid that finds
an ask in the book and the deposit undiminished; it can make the freeze of the
rest fail, and then there is a restart less and a fifth operation, a cancel
(`Fees`), for what follows a refused freeze comes from a cancel and a slice.
The other parts have no taker fee, which neither looks at. `Engine_Unfrozen` is
"redo" with six operations, no withdrawal and a taker fee. "reads": the users
are funded first, then every book of up to two orders is read, with offsets 0 and 1 and limits below and above what there is;
a merged level needs an interval of 2 with two prices; reads without the cache
are tried at time 0 only, and those that no property is about with one order
at most, as neither the clock nor more orders enter them; time passes only
while the cache has an entry, and two entries are in it at time 0 only, as
entries do not meet. "listing": four configuration files (the first; one with
a precision changed and an asset added; one with an unreadable row; one with a
market added), two orders, two edits, three starts, so that a market can be
listed again after an engine without it.

*Output.* Two threads, one table each of orders, deals and balances; two
commands, so that a statement can grow and the next can overtake in another
thread; a queue of one message, so that it is full; one trouble: a query
without an answer, a failed message, or a crash. Rows and messages share no
state, so either falls behind at a time (`behind`). Tables with a primary key
are alike, and those without one: a statement is sent again to `user_balance`
and `order_detail` only. One thread does what is left to do after a restart
that took rows.

*Websocket gateway.* `AccessWs_Main`: one slot and two connections, so that an
answer for the first may find the second in its slot; three requests, so that
two can wait for the same answer while the third reads the cache, or two of
which some are of the methods that need a user (auth and sign, whose answers
come from jobs, and private, order and asset), with data that do not change
(`FewForUsers`); two versions of the data; one restart; all six feeds with two changes, two overlapping
polls and two faults, three of these four (`FewTroubles`); the restart or the
change of the data; frames of up to three pieces where three is the largest
the buffer takes, two messages and a ping. `Feeds_Main`: two slots, three
connections and two users, so that a slot is reused while the other user's
session is open; three requests are two authentications of one session and a
subscription between them, or one of each feed; polled feeds with two keys, of
which one depth limit is below the number of prices, and up to three deals,
one more than `Limit`. A fault there takes the place of a change, of the depth
also of a connection, and a message that of a request; deals are those of one
market, as the price and state feeds have two keys (`FewChanges`). The kline
and today feeds are the price feed's code with another datum and run only in
`AccessWs_Main`. Slots and users are symmetric in `Feeds_Main`, which has no
liveness.

*Servers*, four parts. Of the reader: two sessions at a time, or one at a time
and two pages; two clients, a socket and a buffer of one message, so that a
send can fail; one trouble. Of the HTTP gateway: two connections without
requests handed to two workers over links of one descriptor, two processes
dying, two links; or one worker that serves two requests of four kinds, in
three pieces each.

*Market price*, two parts. "flushing": one price, two deals at two times, one
failed command and one crash. "answering": klines of all types with units of
1, 2, 4, 8 and 32 in place of 1, 60, 3600, 86400 and a month, starting next to
a boundary of each; two messages, both deals, since "flushing" has those that
are none; a dozen queries, each with its own cache entry.

### 3.2 Fairness

*Market*: weak fairness of `HandlerStep`, because the thread does not stop in
the middle of a function; with `HandlerReturns` it follows that every handler
returns, and no run needs it. *Recovery*: of `FlushTimer` (a repeating timer of
the event loop), of `Take` (a worker waiting on a condition variable that
`nw_job_add` signals) and of `OnJob` (the worker repeats a statement for ever,
and the database is assumed not to refuse for ever). *EngineOutput*: the same
for its timers and threads, for Kafka's reports, and for the steps of an
orderly stop. *Gateway*: of each request's timer, because the event loop runs
every timer that has expired; no answer is assumed to come. *PolledFeeds*: of
the poll timer, the reading of answers, and the backend's answering; errors,
timeouts and broken links are bounded troubles. *WsServer*: of `Read`, as the
loop reads a readable socket. *HistoryReader*: of the reconnect and connect
timers, of the server's start, of accepting and completing a connection, of
noticing that it is closed and of reading what came; each is an event the loop
delivers. *MessageChannel*, abstract: of delivery while something is
undelivered. Nothing else is fair: requests need not come, slices need not be
made, engines need not be restarted. Where a run has a specification of its
own (`MCSpec`), it has the module's fairness, or none if the run checks no
liveness.

### 3.3 Market

* `MarketInv`: the proved invariant (section 6). Its parts are
  `BookNotCrossed`, `NoOvertaking` (relates each past deal to the present
  book) and `LimitRespected`; `OrderAccounting` (an order's own fields add
  up); `IndexesAgree` and `HistoryOnce` (the dicts and lists name the same
  orders, and one that was reported finished never comes back).
* `DealsExplainOrders`: those fields are the sums over the deal rows, of
  orders in the book, finished ones and the one being matched.
* `FrozenBacked`, `Conservation`, `NothingUnpaid`: frozen balances are those
  of the resting orders, money is neither made nor lost, and the only refused
  call is a maker's fee. They hold of behaviours in which no taker fee was
  charged; with one, `OrderPutNeverFails` shows how they fail. `Conservation`
  says that what users own, what was collected in fees and what was withdrawn
  is what was deposited, and takes a business id to name one change, as the
  callers of `balance.update` have it.
* Sums are `SumOf`, the number of units there are to count: the sum of a
  function of naturals without recursion, so that it can be reasoned about.
  `MCMarket` has TLC compare it with the community modules' fold (`SumOfIsSum`).
* `HandlerReturns`: a round of a matching loop leaves less to match, and ends
  its maker or is the last one. So a handler has no more rounds than there are
  makers, and the only thread of the engine comes back from every request.
* `ImplementsLedger`: refinement with `total` = available + frozen of each
  user. A round of a matching loop is one `Trade`, everything else an `Update`
  or a stutter.

### 3.4 Recovery and the engine around the market

* `AlwaysLoadable`: the last slice has its tables, and the ids to redo are
  consecutive, in every reachable state of the database.
* `RefusedOnlyWhenLogged`: the worker takes errno 1062 for success; an id that
  is given out again after a crash must then never meet another operation.
* `ImplementsDurableLog`: `ops <- applied`, `saved <- Recovered`. No step of
  timer, worker, child, crash or midnight takes back what would be recovered.
* `LoggedEventually`: leads-to, up to an end of the engine.
* `LogExplainsMemory`: between requests the engine's memory is the one the
  last of its logged operations left when it was first served, whether the
  engine got there by serving, from a slice, or by redoing.
* `RedoSucceeds`: no logged operation is refused when it is redone.

  Both hold as long as `order_finish` could give back what its order had
  frozen (`AllFinished`). It cannot for an order whose freeze was refused
  after a taker fee, which is put, logged and answered like any other; such an
  order stays in `m->orders` when it is cancelled, and a slice, made from the
  lists, is without it. `AllRedone` is `RedoSucceeds` without the condition,
  and `Engine_Unfrozen` shows how it fails (section 5). The refused freeze
  itself, with the order's deals, a slice and a load, is not excepted.
* `DepthRecent`: an answer to `order.depth` is the depth, with its merged
  levels, of a book that was the market's at most `cache_timeout` ago.
* `AnswersAgree`: pages tile the lists they are cut from, and the sums
  `asset.summary` takes from the balances agree with those of the book.
* `OrdersKept`: a start brings back every order but those of markets that are
  not configured or were not listed when the last slice was made, and none that
  the last engine had got rid of.

### 3.5 Output

* `RowsAccounted`: a row is in one place on its way, in its table, or taken by
  a restart or a duplicate; twice only if its statement was sent again. The
  places are the statements of the dict, the requests of the job, its threads,
  and the statements each table took (`Held`, `Taken`, `RowsAt`).
* `RefusedOnlyAgain`: error 1062 takes rows only when ids were given again.
* `PushedInOrder`: a topic's messages keep their order through list, queue and
  Kafka, and only those that fail are missing.
* `RowsStored`: leads-to, up to a stop or crash.

### 3.6 Websocket gateway

* `Authenticated`: the end of an authentication may come after the connection
  that asked for it is gone and its memory is another's.
* `FeedsOwned`: the lists of a user hold open sessions of this user only,
  after another authentication, a close in the middle of a notification, or a
  new connection in an old slot.
* `MonotonicReads`: cache, expiry, and answers on their way together never
  show a connection an older answer to the same query. It relies on backends
  that answer in order and whose data do not go back.
* `Answered`: leads-to, to an answer or the end of the connection; methods
  that do not exist are left out (section 5).
* `ImplementsRequestReply`: refinement with the ids of open sessions as
  connections. A late answer after its timeout is a stutter.
* `EntriesExact`: who is in an entry has subscribed it on the connection it
  has now, and who subscribed stays in, whatever polls, timers and other
  sessions do, but for an error answer; slots in `missed` are excepted.
* `InStep`: what a subscriber has put together is what the entry holds; of a
  depth with a limit it has at least those levels.
* `DealsGapless`: overlapping polls leave no gap in a subscriber's deals,
  except what more than `DEALS_QUERY_LIMIT` newer ones push out.
* `Fresh`: a key that is watched for ever gets the newest data once changes
  and faults end.
* `ImplementsChannel`: `on_message` gets the client's messages, whole, once
  and in order, however frames and reads cut them.

### 3.7 Servers

* `AskerAnswered`: an answer on its way under the id of a waiting request is
  the answer to that request, though sessions end and memory is reused.
* `NothingSkipped`: who turns pages to the end has seen every row there was
  when he first asked, whatever was stored meanwhile (rows are stored at the head, so
  they push rows to a later page, never to an earlier one).
* `Reconnected`: infinitely often a client has a working connection, unless
  it once got no descriptor for its socket, after which nobody tries again.
  Why the exception is needed is in section 5.
* `NoneForgotten`: a connection's descriptors are exactly those of sessions
  and links, so that none is left open that nobody reads.
* `NoneUnanswered`: a request that is read and unanswered on an open
  connection has its timer. `ImplementsRequestReply`: as for the websocket
  gateway, across workers.

### 3.8 Market price

* `ConsumerWoken`: a message in the list has woken the main thread or will.
* `NothingMissed`: a kline has every deal consumed at least once, but for
  klines whose write failed before the process ended.
* `ExactUnlessInterrupted`: if the process never ended with Redis away from
  its offset, memory is what the deals make it.
* `AnswersRight`: every query, also from the cache, is what a definition from
  the deals alone says, or was at most `cache_timeout` ago.

## 4. Faulty variants

An operator `Faulty_<definition>_<fault>` is a definition with a bug someone
could write. Nothing uses it; it says what a property is good for. Put in the
place of the definition, the property on the right fails.

| variant | noticed by |
|---|---|
| `order_match_before_newest_first` (Market) | `MarketInv` |
| `Filled_counts_last_deal` (Market) | `DealsExplainOrders` |
| `balance_unfreeze_copies` (Balance) | `FrozenBacked`, `ImplementsLedger` |
| `balance_freeze_copies` (Balance) | `Conservation` |
| `Dealable_rounds_up` (Market) | `NothingUnpaid` |
| `LoopEnds_without_break` (Market) | `HandlerReturns` |
| `Cached_first` (Gateway) | `MonotonicReads` |
| `on_timeout_silent` (Gateway) | `Answered` |
| `SameSession_any` (Gateway) | `ImplementsRequestReply` |
| `Poll_once` (PolledFeeds) | `Fresh` |
| `on_frame_keeps` (WsServer) | `ImplementsChannel` |
| `on_upgrade_keeps_info` (Gateway) | `Authenticated` |
| `LeftOld_nothing` (Gateway) | `FeedsOwned` |
| `Subscribed_anew` (PolledFeeds) | `EntriesExact` |
| `get_list_diff_no_tail` (PolledFeeds) | `InStep` |
| `Poll_after_next` (PolledFeeds) | `DealsGapless` |
| `Redone_again` (Recovery) | `AlwaysLoadable` |
| `RestartId_slice` (Recovery) | `RefusedOnlyWhenLogged` |
| `DaysRead_today` (Recovery) | `ImplementsDurableLog` |
| `flush_log_no_create` (Recovery) | `LoggedEventually` |
| `SeeRoom_always` (KafkaConsumer) | `ConsumerWoken` |
| `flush_offset_first` (MarketPrice) | `NothingMissed` |
| `market_update_day` (MarketPrice) | `ExactUnlessInterrupted` |
| `kline_info_update_low` (Klines) | `AnswersRight` |
| `on_history_job_once` (EngineOutput) | `RowsAccounted`, `RowsStored` |
| `put_order_deal_leaves` (EngineOutput) | `RefusedOnlyAgain` |
| `push_message_past_list` (EngineOutput) | `PushedInOrder` |
| `AskerSession_any` (HistoryReader) | `AskerAnswered` |
| `Page_unordered` (HistoryReader) | `NothingSkipped` |
| `Connecting_unwatched` (NwSessions) | `Reconnected` |
| `listener_on_accept_keeps` (Listener) | `NoneForgotten` |
| `on_state_timeout_silent` (HttpGateway) | `NoneUnanswered` |
| `SameSession_any` (HttpGateway) | `ImplementsRequestReply` |
| `Loaded_balance_first` (EngineReplay) | `LogExplainsMemory` |
| `Dumped_asks_only` (EngineReplay) | `RedoSucceeds` |
| `Fresh_late` (EngineQueries) | `DepthRecent` |
| `Page_one_more` (EngineQueries) | `AnswersAgree` |
| `DumpedMarkets_but_last` (Listing) | `OrdersKept` |

## 5. What the runs found

Four runs end with a counterexample.

* `Market_OrderPut`: `market_put_limit_order` checks the balance once, before
  matching; a taker fee takes from the same balance, and the freeze of the
  rest may be refused. The order then rests with nothing frozen. The code
  holds this impossible (`log_fatal`, `me_market.c:716`).
* `Recovery_Orphan`: a child survives its engine, and records a slice of
  operations that the restarted engine does not have; ids of lost operations
  are given to others, and the next load mixes the two.
* `Engine_Precision`: a balance update is read with the precision that is
  shown when it is served (`me_server.c:250`, `:267`), logged as it came
  (`:288`), and read with the precision that is saved when it is redone
  (`me_load.c:130`). A digit more than is shown is not in the balance that was
  acknowledged and is in the one after a restart.
* `Engine_Unfrozen`: what becomes of the order of `Market_OrderPut`. It is
  logged and answered as a success. Its cancel takes it out of the list, and
  `order_finish` returns early as nothing can be unfrozen
  (`me_market.c:226-229`); it stays in `m->orders`, and the cancel is logged
  (`me_server.c:639`). A slice lacks the order. A second cancel is logged as
  well, and is refused when it is redone (`me_load.c:355-358`): the engine
  does not start.

What follows was seen while modelling. The models have it unless it says
otherwise; the properties above are stated so as to hold beside it, and no run
is spent on it.

*Match engine.*

* A taker fee may take what should have paid the next deal of the same bid:
  `balance_sub` is refused, nobody looks (`me_market.c:421`), the stock is
  delivered and the maker paid, and money appears. Therefore the condition on
  `FrozenBacked`, `Conservation`, `NothingUnpaid` and `ImplementsLedger`.
* A maker's fee in money is taken in the same way (`me_market.c:467`), so
  order and deal may record a fee that was not paid; the one refused call
  that `NothingUnpaid` allows.
* The change of the fee currency announced for all bids reached only two of
  the four loops (`me_market.c:792`, `:884`).
* The key of an update contains padding bytes that nothing sets
  (`me_update.c:97`): a repeated request whose key has other padding is
  applied again, though the wiki's HTTP page has it as unique. The model allows it when `Paddings` has two members; the runs
  have one.
* Keys of updates are not in a slice, and are forgotten after a day: a retry
  after either is applied again.
* The dump looks for `ret < 0`, and MySQL's errors are positive
  (`me_dump.c:71`, `me_persist.c:211`): a slice with a refused INSERT is
  recorded as whole. This is the fault "refused" of `Recovery`. With no slice
  recorded, only the log of the current day is read (`me_persist.c:141`): the
  fault "unsliced". No run allows either: with them nothing of section 3.4
  holds.
* `fini_history` joins threads that repeat their statement for as long as
  MySQL is down, and `nw_job_release` drops the statements no thread has
  taken. A statement with one duplicate row is refused as a whole and taken
  for done.
* `listing.update`: a comment says that all is set anew, but `dict_add` keeps
  what is there; a new market is entered as the address of a local variable
  (`me_trade.c:114`); orders of a market that is delisted before a slice are
  lost with the next start, or come back with a later one that has the market
  again.
* `load_limit_order` skips a put of a market that is not configured without
  counting it (`me_load.c:183`), so that a start after a market was delisted and
  before the next slice gives all later orders other ids than their owners have
  and than logged cancels name; `load_cancel_order` ends the load for an order
  that a slice was made without, if its market is configured again
  (`me_load.c:356`).

*Gateways.*

* `on_message` only logs an unknown method (`aw_server.c:825`), though the
  wiki's list of errors has "4: method not found" and
  `send_error_method_notfound` is there; the history reader and the engine do
  not answer unknown commands either.
* A client of a merged depth has, between two full ones, levels beyond the
  limit whose amounts are old; the wiki's websocket page, which says of
  `depth.update` "only return what's different from last result", does not
  tell it to drop them. `InStep` asks for the levels of
  the answer only.
* `nw_clt_start` returns when it gets no socket, for example because the
  process has no descriptor left (`nw_clt.c:228-231`), before it has set a
  timer, and none of its callers looks at the result. `network/README.md:11`
  has the client reconnect by itself; this one is never connected again,
  though its server runs. Without its exception `Reconnected` fails.
* A request made while a connection to a backend is in progress: `nw_ses_send`
  gets EAGAIN and replaces the watcher that waits for the connect, so that
  `on_connect` is never called and the connect timer closes a connection that
  works. Seven places send without asking `rpc_clt_connected` (`aw_today.c:203`,
  `aw_price.c:197`, `aw_depth.c:348`, `aw_asset.c:276`, `aw_state.c:204`,
  `aw_deals.c:217`, `aw_kline.c:222`). The connection is made again, so that
  `Reconnected` needs more than this to fail; the constant `Unchecked` has such
  clients, and is empty in the run.
* A subscriber whose key is lost by an error answer is told nothing and gets
  nothing any more (`lost` in `PolledFeeds`); closed sessions stay in the
  entries of `aw_state.c` (`missed`); a subscriber to klines gets nothing
  until the next change; after a list with a bad market the markets before it
  stay subscribed, though the answer is an error.
* A notification that closes a session may read the freed node of its list
  (`aw_order.c:139`). Modelled as a crash or as harmless.
* User feeds are read from the end of the topic (`aw_message.c:84`): what is
  pushed while the gateway is down is not seen by anybody.
* HTTP: `on_url` and `on_body` keep the last piece only, so a request whose
  body arrives in two reads is refused; answers to pipelined requests come in
  any order; keep-alive closes connections with requests outstanding; after a
  send that fails the parser goes on in freed memory; a worker that hangs is
  given connections until its heartbeat is missed. A frame that the buffer
  cannot hold closes the websocket.

*Market price.*

* With no offset saved the consumer starts at offset 1: the first message of
  a topic is never counted.
* A failed HSET is dropped and the offset moves on; an LPUSH that got no answer
  is pushed again; a crash between klines and offset counts volume twice
  (`gone`, `tainted`). Markets that are created by their first deal are
  flushed, and not loaded by the next start unless they are listed.

## 6. The proofs

TLAPS checks them for every value of the constants; each module of proofs
EXTENDS the properties of one component, and `Market_proofs` also `Listing`. Where a theorem needs a condition on
the constants beyond the component's ASSUME, it has it as a hypothesis, named
below.

### 6.1 Market: book and orders (`Market_proofs`)

Nine theorems for all users, amounts, prices, rates, denominators and any
bound on order ids. The assumption is `MarketAssumption` (kinds of the
constants; every rate is below one; prices and amounts are positive, as the
handlers in `me_server.c` require). The invariants are not inductive by
themselves:

* `BookNotCrossed` after `RestLimitOrder` needs that the loop ended because of
  the price: a limit order with something left has no maker it could deal
  with. That follows from `LoopEnds` and from the first of a list being the
  best of it (lemma `ListFirst`), which needs prices and ids of the list to be
  ordered, and the list to be finite: its ids are at most `MaxOrderId`.
* `NoOvertaking` needs that an order is younger than everything it meets
  (`IdsGrow`), so that a maker better than the one taken would have been
  first.
* `OrderAccounting` after a deal with a bid needs `price * (left - amount)`
  to be what stays frozen (lemma `ProductMinus`).
* `LimitRespected` for a market bid needs `price * (left \div price) <= left`
  (lemma `Affordable`), with prices positive (`PricesPositive`).

Their conjunction with `TypeOK`, `IndexesAgree` and `HistoryOnce` is
`MarketInv`, and `MarketInv /\ [Next]_vars => MarketInv'` is lemma `NextInv`:
one lemma for each kind of step. A deal and a cancellation share what happens
to the book, lemma `BookStepPreserves`: an order is replaced by a later
version of itself or leaves. Theorem `MarketInvariant` is `Spec => []MarketInv`;
seven more (`TypeCorrect`, `BookNeverCrossed`, `OrdersAccounted`,
`IndexesAlwaysAgree`, `ReportedOnce`, `LimitsRespected`, `PriceTimePriority`)
take a conjunct each. `HandlersReturn` is `Spec => HandlerReturns`: the
amount of a deal is the lesser of what the maker and what the taker has left,
so if the maker stays there is nothing left of the taker, or, of a market bid,
less than the price of one unit (lemma `Remainder`) of the maker that is still
the first of its list.

### 6.2 Market: deals and money (`Market_proofs`)

`DealsExplained` is `Spec => []DealsExplainOrders`. The invariant, `DealsInv`,
adds that every row of the deals has an id of its own and deals something. A
new row therefore adds itself to the sums of exactly two orders, those
`execute_*_order` has just filled (lemma `NewRow`); an order that has dealt may
leave the book, never both book and history, so no row loses its orders.

`FundsInvariant` is `Spec => [](MarketInv /\ FundsInv)`; from it follow
`FrozenAlwaysBacked` and `NothingGoesUnpaid`. Their condition, that no order
carries a taker's fee, speaks of the orders there are; the invariant needs one
that remembers: `NoFeeAsked`, no order that dealt did, which can only become
false. Under it, each frozen balance is the sum of what the resting orders of
that user and asset have frozen; a running handler's user can still pay for
the rest of his order (`Required`), which is why the one check at its start is
enough; and only a maker's fee was refused. `maker_fee < FeeDen` is needed for
the user who trades with himself: what he is paid as maker, less his fee, must
leave him able to pay as taker. The sums change by one order at a time
(`FrozenChange`), through every `balance_freeze`, `balance_unfreeze` and payment
of a round in the order of the code (`DealSettles`).

`MarketImplementsLedger` is the refinement: an update is the ledger's
`Update`, a round of a loop one `Trade` whose cost is the maker's fee as far as
it was taken, put, rest and cancel only move between available and frozen.
Its hypotheses say that the ledger's sets of stocks, moneys and changes are
large enough to be no bounds. `FundsAreConserved` assumes finitely many users
and `IdsNameChanges` (a business id of a user and asset names one change,
without which the sum of the deposits cannot be read from the keys); a step
then adds one key to one sum or changes the sums of two users and of the fees
by what adds up to nothing.

### 6.3 Recovery (`Recovery_proofs`)

`RecoveryInvariant`, and from it `AlwaysLoads`, `RefusedWhenLogged`,
`PrefixRecovered` and the refinement `RecoveryImplementsDurableLog`, for any
number of operations, days, slices, crashes and restarts, any queue limit and
any time that slices are kept. The hypothesis is `Faults = {}`: with "orphan"
`Recovery_Orphan` is a counterexample, and section 5 has the other two.

The heart is `SafeUpTo(n)`: slice and rows together have the first n
operations, no row has a later one, and in a running engine all others are on
their way. Everything else says why a step keeps it: every entry and row is
that of its operation (`LoggedInv`); entries reach the database in the order of
their ids (`OrderInv`), into tables whose days do not go back (`DaysInv`), so
that the days a load reads have all it needs (`SinceInv`: what a slice lacks was
logged on its day or later); children run one after the other, each with the
snapshot of a prefix, and delete only what is older than the last slice
(`ChildrenInv`); the last recorded slice is whole (`HistoryInv`). A crash loses
what is on its way and hands out its ids again: no row has them, so a
duplicate key is always an entry that was stored before its answer was lost.

### 6.4 Websocket gateway (`Gateway_proofs`)

`GatewayInvariant`, and from it `AuthenticatedAlways`, `FeedsOwnedAlways`, the
action property `ReadsMonotonic` and the refinement
`GatewayImplementsRequestReply`, for any slots, users, queries, sessions and
requests. `EntriesWait` says that an entry is that of one request, of the
session that made it, and nothing has answered it. `ReadsOrdered` is what
monotonic reads need: a reply on its way is no older than the cache and than
what any connection has seen, and no newer than the replies behind it. It
rests on backends that answer in order. `FeedsOwned` holds after a handler
that closes sessions in the middle of a notification because closing takes a
session's units out of both lists (`CloseLeavesOwned`); a second
authentication as another user takes the units of the first (`LeftOldOwned`).

### 6.5 HTTP gateway (`HttpGateway_proofs`)

`HttpInvariant`, and from it `NoneIsForgotten`, `NeverUnanswered` and the
refinement `HttpImplementsRequestReply`, for any connections, workers, links,
slots and kinds of requests. The hypothesis `Bounds` says that `MaxLinks` and
`MaxRequests` are naturals. `PlacedInv`: a connection is at one position of one
link, or in one session, or nowhere, and `copies` is 1 or 0 accordingly; it
was accepted before it was in a link, and was never served while in one.
`SessionsInv`: session numbers only grow, so that of a closed session names no
other. `EntriesInv`: an entry is that of one unanswered request, and if its
session is there it is the one that asked. `NoneUnanswered` is inductive with
these.

A read takes several requests at once, numbered in the order of their last
pieces; that this numbering is one-to-one onto an interval is a lemma on
finite sets of naturals (`Ranks`). For the refinement every step is of one of
four kinds: sessions go (`Disconnect`), one comes (`Connect`), requests are
asked and some of them answered or their connection ended (`Ask`), an answer
is handed over (`Answer`); connections are numbered by their place in `served`.

### 6.6 Rows and messages (`EngineOutput_proofs`)

*Messages.* `OutputInvariant`, and from it `MessagesInOrder`, for any number of
commands, failures and restarts. `OutputInv` is about the line of a topic, which is what
Kafka has, then the queue, then the list: its numbers increase, they are those
that were pushed and not dropped, and nothing is dropped that was not pushed.
The last is what makes it inductive: without it the next message could already
count as dropped. A line changes in four ways. A push puts a number beyond all
others at its end (`LineGrows`), which is the end of the queue only because the
list is empty then; the timer moves the front of a list to the end of the queue,
and a delivery the head of the queue to Kafka, and the line is the same
(`Regrouped`, `HeadMoves`); a delivery that fails takes one number out of its
middle (`HeadLeaves`); and the end of librdkafka or a restart cuts it off behind
what Kafka has, and drops exactly the rest because no number is in a line twice
(`EndKeeps`).

*Rows.* `HistoryInvariant`, and from it `RowsAreAccounted` and
`RefusedOnlyWhenAgain`, for any number of threads, tables, commands,
repetitions and restarts. `OutputAssumption` says that `QueueMax` is a natural,
`HISTORY_HASH_NUM` a positive one, users are naturals, and the first orders
have the ids up to their number. `HistoryInv` has two halves.

`RowsInv` is about places. `RowsAccounted` alone is not inductive: a statement
that was answered without the engine hearing of it is in a table and with a
thread at once, and what the thread does next must not make it a third. So the
invariant says which places may share a row: no two of those still to be
written (`HeldOnce`); a thread and a table only if the thread has that very
statement and sends it again (`TakenAgain`); two statements of tables only
rows that were sent again (`TakenTwice`). A step moves places: each place
after it has the rows of another before it (`RowsMove`). For `Begin` the
requests move up and the first goes to the thread, for the timer each request
that is new comes from one statement, because the iterator comes to each once
(`DueOnce`, by the cardinality of what it came to before), and a restart empties all
places and notes what was not stored. Beside that a thread ends (`ThreadEnds`),
and a command adds rows with numbers of their own to statements (`AppendKeeps`).

`IdsInv` is about primary keys. Until an id is given again, an order whose
rows are anywhere is over and its id below `ids`, and two rows with the same
order for a key are the same row (`KeysOnce`). Then a statement that meets a
duplicate meets itself: the row it shares with its table makes it the same
statement by `TakenAgain`, and nothing is dropped (`RefusedIsStored`). A command
keeps this because the rows of a deal have for keys only orders that the deal
finishes, one row per table (`FitDealRows`), and a restart because every state of the
log has ids no larger than now, so that going back either changes nothing about
ids or is noted in `again` (`RestartIds`).

### 6.7 Polled feeds (`PolledFeeds_proofs`)

`FeedsInvariant`, and from it `ExactEntries`, `SubscribersInStep` and
`NoDealMissed`, for all six feeds and any slots, keys, changes, polls and
faults. `FeedsBounds` is the hypothesis: keys are finitely many naturals (the key
of a depth is its limit), prices too, and `DEALS_QUERY_LIMIT` is positive.

The six files share their steps, so the proof first sorts all steps into six
kinds (`Kinds`): nothing is told, a session comes, one goes, an answer is told
(with the sessions that fail while it is), entries are dropped, a session
subscribes. For one session and one key these are three cases: nothing changes,
it learns of an answer, it begins anew (`KindOfSession`). `EntriesExact` needs
only that a closed session has subscribed nothing. `InStep` is then inductive for
every feed but the deals: a client that adds a difference to what covers the
old depth covers the new one, and has exactly the new one if no level can be
pushed out (`PatchedCovers`).

For the deals an answer may be late, and an entry may have been told of others
since it was asked for. `DealsInv` keeps the order of all this: each
answer has the newest deals there were when it was given, no older than those
of the answers before it and no older than anything that had then been asked
for, kept or told (`AnswersInv`); what an entry keeps has no gap, and its
newest is no older than what any of its polls asks for (`KeptInv`); a subscriber
was told what the entry keeps, or something newer (`CopiesInv`). So an answer that
begins behind `since` joins what the subscriber has without a gap, unless it
is full, and then the `DEALS_QUERY_LIMIT` deals in it are newer than whatever
is missing (`HeardNoGap`).

### 6.8 History reader (`HistoryReader_proofs`)

`ReaderInvariant`, and from it `AskersAnswered` (`AskerAnswered`) and
`PagesComplete` (`NothingSkipped`), for any clients, slots, rows, page sizes,
threads and troubles. `ReaderAssumption` says that the ids of rows are distinct
naturals and that no client asks more than `UINT_MAX` times, so that the ids of
requests do not wrap (a process of `accessws` would have to send 2^32 while one
waits for its timeout). The ids of sessions do wrap, and the theorems have as a
hypothesis what makes that harmless, `FreshIds`: a session gets no id that came
with a request still with the threads. It is an action formula, because nothing
in the code bounds how many sessions come while a query runs; there are
2^32 - 1 ids.

`AskerAnswered` looks at answers on their way, but what makes it true is
everything before. So the invariant is about all places: `Asked[c]` are the
requests that may be on their way from `c`, of which one under an id in use
is that entry's, and `Answers[c]` the answers to them; `Held` says that sockets,
buffers and the backlog of `c`'s connections have only these, `JobHeld` the same
of what is with the threads, and `Linked` that a session with the id a request
came with is a session of the client that asked. Each step of the network moves
messages between places of one connection (lemmas on `Held` for any two sets),
or ends a session, or gives its slot away with a new id (`Moves`). A client's
own steps change the sets themselves, which only grow (`Grows`): an id is
not reused (`NewId`), and an entry that goes leaves its id free of conditions.

`NothingSkipped` is inductive with `PagesInv`: of the rows there were at first,
a pager at `offset` has those with fewer than `offset` newer ones. No row ever
leaves, so the number of newer ones only grows, and what a pager has it still
has; a page taken later than it was asked for holds the rows at the places from
`offset` on, and one that is not full all that are left (`PageIs`: below a
row with `k` or more newer ones there is one at every place up to `k`,
`EveryPlace`, since the least that is at `k` or beyond is at `k`). An answer may be late in one
more way: it was to a page asked for twice. `Honest` therefore says of each
answer on its way that it fills the page its asker is at, if it is to that page
at all, and `Fills` holds on when rows are stored after.

### 6.9 Listings (`Market_proofs`)

`ListingInvariant`, and from it the action property `OrdersAreKept`
(`OrdersKept`), for any files, markets, orders, edits and starts. `NoneBack`:
what slice and log would bring back is in the books, unless the engine does not
have its market; `NoneLost`: what is in the books would be brought back, unless
the last slice was made without its market; `IdsInv`: a new order is none of
those cancelled before. With more than two starts the property was false in an
earlier form, in which a start never brings an order that the last engine had
not: an order of a delisted market waits in the slice.

### 6.10 Price server (`MarketPrice_proofs`)

`ConsumerAlwaysWoken`, `NoneMissed` and `ExactIfUninterrupted` (`ConsumerWoken`,
`NothingMissed`, `ExactUnlessInterrupted`) for any markets, prices, amounts,
units, settings, limits of the two lists, faults and crashes. The assumptions
are `PriceAssumption` and `KlinesAssumption`: kinds of the constants, and units
that are not zero. `Types` is any set of the four: no kline is used for
another.

The properties speak of memory between two flushes; what makes them true is
what Redis has in the middle of one, since that is what a restart finds. The
invariant, `PriceInvariant`, has four parts besides the types:

* `ConsumerInv`: the list is the interval of the offsets before `position`; the
  thread, once it has seen room, finds room.
* `OffsetsInv`: what lies between the last message counted and the next one to
  count was no deal. So a restart, which begins after the offset that was
  saved, begins where the counting that Redis has ended, although messages
  without an id do not move the offset and the offset 0 is saved as well by a
  server that has counted nothing.
* `MemCovers`, `RedisCovers`: each kline of memory has every deal up to `upto`
  and each of Redis up to `saved`, unless it is in `gone` or, in Redis, `lost`.
  What a flush writes early does no harm, as a kline that covers more deals
  covers fewer. `MemExact` and `RedisExact` say the same with equality, of
  Redis while it is not `ahead`.
* `Synced`, `DealsSynced`, `Flushed`: Redis and memory have the same kline
  unless it is noted in `update` or lost; the list of deals is the one of Redis
  with those still to be pushed in front; and a market that a flush has passed
  has nothing left to write, so that all memory has is in Redis when the offset
  is saved. That is why the order of the flush matters.

What is older than `Horizon` is left out throughout: memory and Redis drop it
at different times, and as the horizon only moves forward it does not come back.
The rest are lemmas about data, which need no induction: a sum over deals is
the size of a set of units (`SumOf`), so one more deal adds what it has
(`DealAdds`, by the library's `FS_Union`); a counted deal keeps a kline that of
its deals (`UpdateIsKline`); a deal pushed is in front of those not yet in
Redis (`PushedMore`).

### 6.11 Only model-checked

* Liveness (`LoggedEventually`, `RowsStored`, `Answered`,
  `Fresh`, `Reconnected`): out of the provers' reach, like ENABLED.
* What recursive definitions and folds compute (`Klines` and `AnswersRight`,
  the merged depth of `DepthRecent`, `AnswersAgree`): induction over data,
  which they cannot do.
* The properties of the frames, and of the market redone (`LogExplainsMemory`,
  `RedoSucceeds`).

## 7. What is not modelled

* Market: other markets of the same users, except for what they do to a
  balance; order times and source; out-of-memory branches, which leave a
  market half-changed and which nothing in the code can recover from; the timer
  that forgets keys of updates.
* Skip list, dict and list as data structures with pointers, levels and
  hashes: they are the ordered sets, functions and sequences that their
  callers rely on.
* Network: addresses, socket options, buffers and their memory; clients with
  several addresses; ids of pending requests that wrap at 2^32, and session
  id 0, which cannot be closed; the reuse of memory that `nw_cache` may also
  free; a SEQPACKET socket whose `on_can_write` compares -1 as a `size_t`.
* Websocket gateway: one `connected` stands for all backends; what a user feed
  misses while the worker is down; headers and masks.
* Market price: the search for a Redis master through sentinels.
* The command lines of the processes, and the alert center, which forwards a
  line to a script.
* For good: vendored code (`depends/`, `utils/http_parser.c`, `ut_sds.c`),
  logging, configuration files but for listings, wire formats and the text of
  answers, and `sql/` beyond its keys.

## 8. Plan

In this order; each item names the hazard it is for.

1. *Updates* (`me_update.c` with its timer) composed with `EngineReplay`: what
   a promise for retries would have to say.
2. *Skip list* against the ordered set `Market` uses, and ids of `nw_state`
   that wrap.
