---------------------------- MODULE EngineOutput ----------------------------
(***************************************************************************)
(* What a match engine tells the rest of the system: rows of the history   *)
(* database (me_history.c) and messages in Kafka (me_message.c).           *)
(*                                                                         *)
(* Commands append rows to a statement per table, which a timer hands to   *)
(* the threads of a job (Jobs), and produce messages, which wait in lists  *)
(* while librdkafka's queue is full.  A restart takes the engine back to   *)
(* what is in the operation log and loses the rows and messages that are   *)
(* on the way.                                                             *)
(***************************************************************************)
EXTENDS Jobs, FiniteSets, TLC

CONSTANTS
    Users,
    FirstOrders,         \* the orders that are open when the engine first starts
    HISTORY_HASH_NUM,
    MAX_PENDING_HISTORY,
    MAX_PENDING_MESSAGE,
    QueueMax,            \* messages librdkafka's queue takes
    MaxCommands,         \* bound
    MaxTroubles          \* bound: queries without an answer, messages that fail, restarts

(* The first orders have the ids up to their number.                       *)
ASSUME OutputAssumption ==
    /\ QueueMax \in Nat /\ HISTORY_HASH_NUM \in Nat \ {0} /\ Users \subseteq Nat
    /\ IsFiniteSet(DOMAIN FirstOrders)
    /\ FirstOrders \in [1..Cardinality(DOMAIN FirstOrders) -> [user : Users, dealt : BOOLEAN]]

VARIABLES
    orders,      \* the open orders: the user, and whether there was a deal
    ids,         \* order_id_start
    log,         \* what orders and ids were since the last restart; the operation log has the first of it
    dict_sql,    \* the rows of the statement of each table that has one
    tables,      \* the history database: the rows of the statements each table took
    list,        \* per topic, the messages that wait for room in the queue
    queue,       \* per topic, what librdkafka has
    delivered,   \* per topic, what Kafka has
    phase,       \* of the main thread, "loop" until a signal
    troubles, commands,
    \* History.
    rows,        \* how many rows there have been
    pushed,      \* per topic, how many messages
    dropped,     \* messages refused, not delivered or dropped by a restart
    lost,        \* rows dropped by a restart
    refused,     \* rows of statements refused for a duplicate
    repeated,    \* rows of statements sent again
    again        \* order ids that were given before a restart and are free after it

engine == <<orders, ids, log>>
statements == <<dict_sql, rows>>
messages == <<list, queue, pushed, dropped>>
historyVars == <<job, tables, lost, refused, repeated>>
environment == <<troubles, commands>>
outputVars == <<engine, statements, messages, delivered, historyVars, phase, environment, again>>

Types == <<"user_balance", "user_order", "user_deal", "order_detail", "order_deal">>

Keys == ToSet(Types) \X (0..HISTORY_HASH_NUM - 1)

(* Where the dict has the statement of a table; its iterator goes by it.   *)
Place(key) == Len(Types) * key[2] + (CHOOSE i \in DOMAIN Types : Types[i] = key[1])

Topics == {"balances", "orders", "deals"}

(* order_history and order_detail have the id of the order for a key.      *)
PrimaryKey(key) == key[1] \in {"user_order", "order_detail"}

init_output ==
    /\ orders = FirstOrders /\ ids = Cardinality(DOMAIN FirstOrders)
    /\ log = {[orders |-> orders, ids |-> ids]}
    /\ dict_sql = <<>> /\ nw_job_create
    /\ tables = [key \in Keys |-> <<>>]
    /\ list = [t \in Topics |-> <<>>] /\ queue = [t \in Topics |-> <<>>]
    /\ delivered = [t \in Topics |-> <<>>]
    /\ phase = "loop"
    /\ troubles = 0 /\ commands = 0
    /\ rows = 0 /\ pushed = [t \in Topics |-> 0]
    /\ dropped = {} /\ lost = {} /\ refused = {} /\ repeated = {} /\ again = {}
--------------------------------------------------------------------------------
(* A row has a number, for its place among all.                            *)
Row(type, hashed, user, id) ==
    [n |-> 0, key |-> <<type, hashed % HISTORY_HASH_NUM>>, user |-> user, id |-> id]

append_order_history(id, user) ==
    <<Row("user_order", user, user, id), Row("order_detail", id, user, id)>>

append_order_deal_history(ask, ask_user, bid, bid_user) ==
    <<Row("order_deal", ask, ask_user, ask), Row("order_deal", bid, bid_user, bid),
      Row("user_deal", ask_user, ask_user, ask), Row("user_deal", bid_user, bid_user, bid)>>

append_user_balance_history(user) == <<Row("user_balance", user, user, 0)>>

(* get_sql, and set_sql: a row begins a statement or is added to it.       *)
AppendedTo(sql, new) ==
    [key \in DOMAIN sql \cup {r.key : r \in new} |->
        (IF key \in DOMAIN sql THEN sql[key] ELSE {}) \cup {r \in new : r.key = key}]

Append_(new) ==
    /\ rows' = rows + Len(new)
    /\ dict_sql' = AppendedTo(dict_sql, {[new[i] EXCEPT !.n = rows + i] : i \in DOMAIN new})

is_history_block == request_count >= MAX_PENDING_HISTORY

(* Each statement becomes a request, the i-th the one with i - 1 before it. *)
Due(i) ==
    LET keys == DOMAIN dict_sql
    IN CHOOSE key \in keys : Cardinality({k \in keys : Place(k) <= Place(key)}) = i

Flushed ==
    nw_job_add([i \in 1..Cardinality(DOMAIN dict_sql) |-> [key |-> Due(i), rows |-> dict_sql[Due(i)]]])

on_history_timer ==
    /\ phase = "loop" /\ dict_sql # <<>>
    /\ Flushed /\ dict_sql' = <<>>
    /\ UNCHANGED <<engine, rows, messages, delivered, tables, lost, refused, repeated,
                   phase, environment, again>>

(* A thread begins with a statement.                                       *)
Begin(t) ==
    /\ Take(t)
    /\ UNCHANGED <<engine, statements, messages, delivered, tables, lost, refused, repeated,
                   phase, environment, again>>

Ids(batch) == {r.id : r \in batch}
Stored(key) == UNION ToSet(tables[key])

(* A statement is refused as a whole, with error 1062, if a primary key is *)
(* there already.                                                          *)
Duplicate(e) ==
    /\ PrimaryKey(e.key)
    /\ \/ Ids(e.rows) \cap Ids(Stored(e.key)) # {}
       \/ \E r, s \in e.rows : r # s /\ r.id = s.id

Executed(e) ==
    tables' = IF Duplicate(e) THEN tables ELSE [tables EXCEPT ![e.key] = Append(@, e.rows)]

(* Faulty: a statement that was not answered is given up.                  *)
Faulty_on_history_job_once(t) ==
    /\ t \in Running
    /\ LET e == job.running[t][1]
       IN /\ \/ /\ Executed(e)
                /\ refused' = refused \cup (IF Duplicate(e) THEN e.rows \ Stored(e.key) ELSE {})
                /\ UNCHANGED troubles
             \/ troubles < MaxTroubles /\ troubles' = troubles + 1 /\ UNCHANGED <<tables, refused>>
          /\ DoneUnanswered(t)
    /\ UNCHANGED <<engine, statements, messages, delivered, lost, repeated, phase,
                   commands, again>>

(* on_job repeats a statement, the same connection and the same text,      *)
(* until it is executed or refused for a duplicate, which counts as done.  *)
(* One that failed without an effect, or had to wait, changes nothing.     *)
on_history_job(t) ==
    /\ t \in Running
    /\ LET e == job.running[t][1]
       IN /\ Executed(e)
          /\ \/ /\ DoneUnanswered(t)
                /\ refused' = refused \cup (IF Duplicate(e) THEN e.rows \ Stored(e.key) ELSE {})
                /\ UNCHANGED <<troubles, repeated>>
             \/ /\ troubles < MaxTroubles /\ troubles' = troubles + 1
                /\ repeated' = repeated \cup e.rows
                /\ UNCHANGED <<job, refused>>
    /\ UNCHANGED <<engine, statements, messages, delivered, lost, phase,
                   commands, again>>
--------------------------------------------------------------------------------
Room(out) == QueueMax - (Len(out.queue["balances"]) + Len(out.queue["orders"]) + Len(out.queue["deals"]))

(* rd_kafka_produce takes a message, finds its queue full or, failing, has *)
(* another error.                                                          *)
Produced(out, t, message, failing) ==
    IF failing THEN [out EXCEPT !.dropped = @ \cup {<<t, message>>}]
    ELSE [out EXCEPT !.queue[t] = Append(@, message)]

(* Faulty: the list is only for the message the queue has no room for.     *)
Faulty_push_message_past_list(out, t, failing) ==
    LET message == out.pushed[t] + 1
        noted   == [out EXCEPT !.pushed[t] = message]
    IN IF ~(t \in failing) /\ Room(out) = 0
       THEN [noted EXCEPT !.list[t] = Append(@, message)]
       ELSE Produced(noted, t, message, t \in failing)

push_message(out, t, failing) ==
    LET message == out.pushed[t] + 1
        noted   == [out EXCEPT !.pushed[t] = message]
    IN IF out.list[t] # <<>> \/ (~(t \in failing) /\ Room(out) = 0)
       THEN [noted EXCEPT !.list[t] = Append(@, message)]
       ELSE Produced(noted, t, message, t \in failing)

Output == [list |-> list, queue |-> queue, pushed |-> pushed, dropped |-> dropped]

Becomes(out) ==
    /\ list' = out.list /\ queue' = out.queue /\ pushed' = out.pushed /\ dropped' = out.dropped

(* In each command, the messages of some topics may fail.                  *)
Failing(topics) == IF troubles < MaxTroubles THEN {{}, topics} ELSE {{}}

(* A command pushes up to three messages, one after the other.             *)
Pushed(topics, failing) ==
    LET push(out, i) ==
            IF i \in DOMAIN topics THEN push_message(out, topics[i], failing) ELSE out
    IN push(push(push(Output, 1), 2), 3)

Push(topics) ==
    \E failing \in Failing(ToSet(topics)) :
        /\ Becomes(Pushed(topics, failing))
        /\ troubles' = IF failing = {} THEN troubles ELSE troubles + 1

is_message_block == \E t \in Topics : Len(list[t]) >= MAX_PENDING_MESSAGE

(* The lists are produced in this order up to the message the queue has no *)
(* room for; one that fails for another reason is deleted, as if it were   *)
(* not delivered.                                                          *)
Before(t) ==
    CASE t = "balances" -> 0
      [] t = "orders" -> Len(list["balances"])
      [] t = "deals" -> Len(list["balances"]) + Len(list["orders"])

produce_list(t) == Max({0, Min({Len(list[t]), Room(Output) - Before(t)})})

ListsProduced ==
    /\ queue' = [t \in Topics |-> queue[t] \o SubSeq(list[t], 1, produce_list(t))]
    /\ list' = [t \in Topics |-> SubSeq(list[t], produce_list(t) + 1, Len(list[t]))]
    /\ UNCHANGED <<pushed, dropped>>

on_message_timer ==
    /\ phase = "loop" /\ \E t \in Topics : list[t] # <<>>
    /\ ListsProduced
    /\ UNCHANGED <<engine, statements, historyVars, delivered, phase, environment, again>>

(* Kafka takes a message, or the delivery fails, which on_delivery logs.   *)
on_delivery(t) ==
    /\ queue[t] # <<>>
    /\ queue' = [queue EXCEPT ![t] = Tail(@)]
    /\ \/ delivered' = [delivered EXCEPT ![t] = Append(@, Head(queue[t]))]
          /\ UNCHANGED <<dropped, troubles>>
       \/ /\ troubles < MaxTroubles /\ troubles' = troubles + 1
          /\ dropped' = dropped \cup {<<t, Head(queue[t])>>}
          /\ UNCHANGED delivered
    /\ UNCHANGED <<engine, statements, list, pushed, historyVars, phase, commands, again>>
--------------------------------------------------------------------------------
(* svr_on_recv_pkg takes no command that writes while there is too much    *)
(* to write.                                                               *)
Command(new, topics) ==
    /\ phase = "loop" /\ ~is_history_block /\ ~is_message_block
    /\ commands < MaxCommands /\ commands' = commands + 1
    /\ Append_(new) /\ Push(topics)
    /\ log' = log \cup {[orders |-> orders', ids |-> ids']}
    /\ UNCHANGED <<historyVars, delivered, phase, again>>

update_user_balance ==
    \E user \in Users :
        /\ UNCHANGED <<orders, ids>>
        /\ Command(append_user_balance_history(user), <<"balances">>)

Order(user, dealt) == [user |-> user, dealt |-> dealt]

With(open, id, order) == [o \in DOMAIN open \cup {id} |-> IF o = id THEN order ELSE open[o]]
Without(id) == [o \in DOMAIN orders \ {id} |-> orders[o]]

(* An order that meets no other.                                           *)
put_order ==
    \E user \in Users :
        /\ ids' = ids + 1
        /\ orders' = With(orders, ids', Order(user, FALSE))
        /\ Command(<<>>, <<"orders">>)

(* The rows of a deal that finishes the maker, and the taker or not.  Each *)
(* side has several rows of balances, of which the model has one.          *)
DealRows(taker, user, maker, rest) ==
    append_order_deal_history(taker, user, maker, orders[maker].user)
    \o append_user_balance_history(user)
    \o append_user_balance_history(orders[maker].user)
    \o append_order_history(maker, orders[maker].user)
    \o (IF rest THEN <<>> ELSE append_order_history(taker, user))

(* Faulty: the maker that is finished stays in the market.                 *)
Faulty_put_order_deal_leaves ==
    \E user \in Users, maker \in DOMAIN orders, rest \in BOOLEAN :
        /\ ids' = ids + 1
        /\ orders' = IF rest THEN With(orders, ids', Order(user, TRUE)) ELSE orders
        /\ Command(DealRows(ids', user, maker, rest), <<"deals", "orders", "orders">>)

(* An order that finishes another one, and is finished or rests.           *)
put_order_deal ==
    \E user \in Users, maker \in DOMAIN orders, rest \in BOOLEAN :
        /\ ids' = ids + 1
        /\ orders' = IF rest THEN With(Without(maker), ids', Order(user, TRUE)) ELSE Without(maker)
        /\ Command(DealRows(ids', user, maker, rest), <<"deals", "orders", "orders">>)

(* An order with a deal is in the history.                                 *)
cancel_order ==
    \E id \in DOMAIN orders :
        /\ orders' = Without(id) /\ UNCHANGED ids
        /\ Command(IF orders[id].dealt THEN append_order_history(id, orders[id].user) ELSE <<>>,
                   <<"orders">>)
--------------------------------------------------------------------------------
PendingRows == UNION {e.rows : e \in Pending}
StatementRows == UNION {dict_sql[key] : key \in DOMAIN dict_sql}
StoredRows == UNION {Stored(key) : key \in Keys}
WaitingMessages(lists) == UNION {{<<t, m>> : m \in ToSet(lists[t])} : t \in Topics}

(* A signal ends the loop: fini_message produces the lists and waits a     *)
(* second, at most, for rd_kafka_flush.                                    *)
fini_message ==
    /\ phase = "loop" /\ troubles < MaxTroubles
    /\ ListsProduced
    /\ phase' = "fini_message"
    /\ UNCHANGED <<engine, statements, historyVars, delivered, environment, again>>

(* rd_kafka_destroy, and fini_history: the statements become requests.     *)
fini_history ==
    /\ phase = "fini_message"
    /\ phase' = "fini_history"
    /\ dropped' = dropped \cup WaitingMessages(list) \cup WaitingMessages(queue)
    /\ list' = [t \in Topics |-> <<>>] /\ queue' = [t \in Topics |-> <<>>]
    /\ Flushed /\ dict_sql' = <<>>
    /\ UNCHANGED <<engine, rows, delivered, pushed, tables, lost, refused, repeated,
                   environment, again>>

(* A tenth of a second later.                                              *)
Release ==
    /\ phase = "fini_history"
    /\ phase' = "fini_operlog"
    /\ nw_job_release
    /\ UNCHANGED <<engine, statements, messages, delivered, tables, lost, refused, repeated,
                   environment, again>>

(* The engine goes on from what the operation log has.                     *)
Restarted(at) ==
    /\ troubles' = troubles + 1 /\ phase' = "loop"
    /\ lost' = lost \cup StatementRows \cup (PendingRows \ StoredRows)
    /\ dropped' = dropped \cup WaitingMessages(list) \cup WaitingMessages(queue)
    /\ dict_sql' = <<>> /\ Recreated
    /\ list' = [t \in Topics |-> <<>>] /\ queue' = [t \in Topics |-> <<>>]
    /\ orders' = at.orders /\ ids' = at.ids /\ log' = {at}
    /\ again' = again \cup (at.ids + 1)..ids \cup (DOMAIN at.orders \ DOMAIN orders)
    /\ UNCHANGED <<rows, pushed, delivered, tables, refused, repeated, commands>>

(* fini_operlog, which waits no longer than fini_history for what is left  *)
(* of the log to be written.                                               *)
Stopped ==
    /\ phase = "fini_operlog" /\ Joined
    /\ \E at \in log : Restarted(at)

Crash ==
    /\ troubles < MaxTroubles
    /\ \E at \in log : Restarted(at)

OutputNext ==
    \/ update_user_balance \/ put_order \/ put_order_deal \/ cancel_order
    \/ on_history_timer \/ on_message_timer
    \/ \E t \in Thread : Begin(t) \/ on_history_job(t)
    \/ \E t \in Topics : on_delivery(t)
    \/ fini_message \/ fini_history \/ Release \/ Stopped \/ Crash
--------------------------------------------------------------------------------
Numbers(batch) == {r.n : r \in batch}

(* The places where rows are, and which rows are there.                    *)
Held == ({"statement"} \X DOMAIN dict_sql) \cup ({"request"} \X DOMAIN job.requests)
        \cup ({"thread"} \X Running)
Taken == UNION {{"table"} \X {key} \X DOMAIN tables[key] : key \in Keys}

RowsAt(p) ==
    CASE p[1] = "statement" -> dict_sql[p[2]]
      [] p[1] = "request" -> job.requests[p[2]].rows
      [] p[1] = "thread" -> job.running[p[2]][1].rows
      [] p[1] = "table" -> tables[p[2]][p[3]]

Places(n) == {p \in Held \cup Taken : n \in Numbers(RowsAt(p))}

(* A row that was appended is in a statement, a request or its table, once *)
(* unless the statement was sent again, whatever fails, unless a restart   *)
(* or a duplicate took it: on_timer and on_job of me_history.c.            *)
RowsAccounted ==
    \A n \in 1..rows \ Numbers(lost \cup refused) :
        /\ Places(n) # {}
        /\ n \notin Numbers(repeated) => \A p, q \in Places(n) : p = q

(* 1062 only ever takes rows when ids were given again after a restart:    *)
(* otherwise it means that the statement is done.                          *)
RefusedOnlyAgain == refused # {} => again # {}

Ordered(s) == \A i, j \in DOMAIN s : i < j => s[i] < s[j]
Line(t) == delivered[t] \o queue[t] \o list[t]

(* A topic gets its messages in the order in which they were pushed, each  *)
(* once and all but those that fail: the list is not overtaken.            *)
PushedInOrder ==
    \A t \in Topics :
        /\ Ordered(Line(t))
        /\ ToSet(Line(t)) = {m \in 1..pushed[t] : <<t, m>> \notin dropped}

(* The loop runs its timers, a thread takes what there is, and MySQL       *)
(* answers in the end.                                                     *)
OutputFairness ==
    /\ WF_outputVars(on_history_timer) /\ WF_outputVars(on_message_timer)
    /\ WF_outputVars(fini_history) /\ WF_outputVars(Release) /\ WF_outputVars(Stopped)
    /\ \A t \in Thread : WF_outputVars(Begin(t)) /\ WF_outputVars(on_history_job(t))
    /\ \A t \in Topics : WF_outputVars(on_delivery(t))

OutputSpec == init_output /\ [][OutputNext]_outputVars /\ OutputFairness

Settled(n) == n \in Numbers(lost \cup refused \cup StoredRows)

(* A row is in its table in the end, whatever failed and however often.    *)
RowsStored == \A n \in 1..2 : (n <= rows) ~> Settled(n)
=============================================================================
