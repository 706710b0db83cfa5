---------------------------- MODULE HistoryReader ----------------------------
(***************************************************************************)
(* readhistory: rh_server.c has worker threads look up in MySQL what       *)
(* me_history.c stored there, rh_reader.c asks the questions; and a client *)
(* of it as accessws and accesshttp are one, with the requests that wait   *)
(* for an answer in an nw_state.                                           *)
(*                                                                         *)
(* Data.  A row is its id, its owner (a user, or of a deal the order), its *)
(* subject (asset or market) and its time; business and side are           *)
(* conditions like the subject and are left out.  A client pages through   *)
(* an order history, the next page once it has had the one before; the     *)
(* other requests are members of a set.  Who asked is part of a message    *)
(* for the properties alone.                                               *)
(***************************************************************************)
EXTENDS NwSessions, Jobs, NwState, FiniteSets

CONSTANTS
    MAX_PENDING_JOB, QUERY_LIMIT,
    Unchecked,       \* the clients that send without rpc_clt_connected
    Pagers,          \* the clients that page through the history
    Others,          \* the other clients' requests
    FirstRows, LaterRows,  \* what is stored, and what will be
    PageSize,        \* limit of the pages
    MaxAsks          \* bound: requests of each client

AllRows == FirstRows \cup LaterRows

(* The id is the key of a table.                                           *)
ASSUME ReaderAssumption ==
    /\ IsFiniteSet(AllRows)
    /\ \A r \in AllRows : r.id \in Nat
    /\ \A r, n \in AllRows : r.id = n.id => r = n
    /\ UINT_MAX \in Nat /\ UINT_MAX > 1
    /\ \A c \in Clients : MaxAsks[c] \in 0..UINT_MAX
    /\ PageSize \in Nat /\ QUERY_LIMIT \in Nat
    /\ Pagers \subseteq Clients

VARIABLES
    rows,            \* the table of each command
    state_context,   \* the nw_state of each client
    asks,            \* how many requests each client has made
    page             \* where each client is, what it has seen and what
                     \* there was when it first asked (history)

readerVars == <<sessions, job, rows, state_context, asks, page>>

Null == "null"
AnySubject == ""
Tables == {"balance", "order", "deal", "user_deal"}

ReaderInit ==
    /\ InitSessions
    /\ nw_job_create
    /\ rows = [t \in Tables |-> FirstRows]
    /\ state_context = [c \in Clients |-> nw_state_create(svr_id_start)]
    /\ asks = [c \in Clients |-> 0]
    /\ page = [c \in Clients |-> [offset |-> 0, got |-> {}, first |-> {}, done |-> FALSE]]

-------------------------------------------------------------------------------
(* rh_reader.c.                                                            *)

(* Faulty: the first page is in the order in which rows were stored.       *)
Faulty_Page_unordered(R, offset, limit) ==
    {r \in R : Cardinality({n \in R : IF offset = 0 THEN n.id < r.id ELSE n.id > r.id})
                \in offset..(offset + limit - 1)}

(* ORDER BY id DESC LIMIT offset, limit: the rows with so many newer ones. *)
Page(R, offset, limit) ==
    {r \in R : Cardinality({n \in R : n.id > r.id}) \in offset..(offset + limit - 1)}

Between(r, start_time, end_time) ==
    (start_time # 0 => r.time >= start_time) /\ (end_time # 0 => r.time < end_time)

(* An asset is asked for or all are.                                       *)
get_user_balance_history(q) ==
    Page({r \in rows["balance"] : /\ r.owner = q.owner
                                  /\ q.subject \in {AnySubject, r.subject}
                                  /\ Between(r, q.start_time, q.end_time)},
         q.offset, q.limit)

(* The market is always a condition.                                       *)
finished_orders(q) ==
    {r \in rows["order"] : /\ r.owner = q.owner /\ r.subject = q.subject
                           /\ Between(r, q.start_time, q.end_time)}
get_user_order_finished(q) == Page(finished_orders(q), q.offset, q.limit)

get_order_deal_details(q) ==
    Page({r \in rows["deal"] : r.owner = q.owner}, q.offset, q.limit)

get_finished_order_detail(q) ==
    LET found == {r \in rows["order"] : r.id = q.owner}
    IN IF found = {} THEN Null ELSE found

get_market_user_deals(q) ==
    Page({r \in rows["user_deal"] : r.owner = q.owner /\ r.subject = q.subject},
         q.offset, q.limit)

-------------------------------------------------------------------------------
(* rh_server.c, the worker threads.                                        *)

InvalidArgument == [code |-> 1, result |-> Null]
InternalError == [code |-> 2, result |-> Null]
Unavailable == [code |-> 3, result |-> Null]
Result(records, works) == IF works THEN [code |-> 0, result |-> records] ELSE InternalError

GoodLimit(q) == q.limit \in 1..QUERY_LIMIT
GoodTimes(q) == q.end_time # 0 => q.start_time <= q.end_time

on_cmd_balance_history(q, works) ==
    IF q.owner = 0 \/ ~GoodTimes(q) \/ ~GoodLimit(q) THEN InvalidArgument
    ELSE Result(get_user_balance_history(q), works)

on_cmd_order_history(q, works) ==
    IF q.owner = 0 \/ ~GoodTimes(q) \/ ~GoodLimit(q) THEN InvalidArgument
    ELSE Result(get_user_order_finished(q), works)

on_cmd_order_deals(q, works) ==
    IF q.owner = 0 \/ ~GoodLimit(q) THEN InvalidArgument
    ELSE Result(get_order_deal_details(q), works)

on_cmd_order_detail_finished(q, works) ==
    IF q.owner = 0 THEN InvalidArgument
    ELSE Result(get_finished_order_detail(q), works)

on_cmd_market_deals(q, works) ==
    IF q.owner = 0 \/ ~GoodLimit(q) THEN InvalidArgument
    ELSE Result(get_market_user_deals(q), works)

(* The entry with its answer; none for a command there is not.             *)
Performed(entry, works) ==
    LET q == entry.pkg.request
    IN [entry |-> entry,
        reply |-> CASE q.command = "balance_history" -> <<on_cmd_balance_history(q, works)>>
                    [] q.command = "order_history" -> <<on_cmd_order_history(q, works)>>
                    [] q.command = "order_deals" -> <<on_cmd_order_deals(q, works)>>
                    [] q.command = "order_detail" -> <<on_cmd_order_detail_finished(q, works)>>
                    [] q.command = "market_deals" -> <<on_cmd_market_deals(q, works)>>
                    [] OTHER -> <<>>]

thread_takes(t) ==
    /\ Take(t)
    /\ UNCHANGED <<sessions, rows, state_context, asks, page>>

(* MySQL may refuse, or there be no memory for the answer.                 *)
on_job(t, works) ==
    /\ t \in Running
    /\ IF works THEN UNCHANGED troubles ELSE Trouble
    /\ Done(t, Performed(job.running[t][1], works))
    /\ UNCHANGED <<listening, clt, accepting, svr_ses, svr_id_start, rows, state_context, asks, page>>

-------------------------------------------------------------------------------
(* rh_server.c, the main thread.                                           *)

AnswerTo(pkg, reply) == [sequence |-> pkg.sequence, reply |-> reply, to |-> pkg]

svr_on_recv_pkg(s) ==
    /\ svr_ses[s].in # <<>>
    /\ LET pkg == Head(svr_ses[s].in)
           now == [svr_ses[s] EXCEPT !.in = Tail(@)]
       IN \/ /\ pkg.request.command = "not an array"
             /\ svr_close_clt(s, clt)
             /\ UNCHANGED job
          \/ /\ pkg.request.command # "not an array"
             /\ request_count >= MAX_PENDING_JOB * Cardinality(Thread)
             /\ svr_send(s, AnswerTo(pkg, Unavailable), now)
             /\ UNCHANGED job
          \/ /\ pkg.request.command # "not an array"
             /\ request_count < MAX_PENDING_JOB * Cardinality(Thread)
             /\ nw_job_add(<<[ses |-> s, ses_id |-> svr_ses[s].id, pkg |-> pkg]>>)
             /\ svr_ses' = [svr_ses EXCEPT ![s] = now]
             /\ UNCHANGED clt
    /\ UNCHANGED <<listening, accepting, svr_id_start, troubles, rows, state_context, asks, page>>

on_can_read ==
    /\ Wake
    /\ UNCHANGED <<sessions, rows, state_context, asks, page>>

(* Faulty: any session there is will do.                                   *)
Faulty_AskerSession_any(entry) == svr_ses[entry.ses].id # 0

AskerSession(entry) == svr_ses[entry.ses].id = entry.ses_id

on_job_finish ==
    /\ Reply
    /\ LET done == Head(job.replies)
       IN IF AskerSession(done.entry) /\ done.reply # <<>>
          THEN svr_send(done.entry.ses, AnswerTo(done.entry.pkg, done.reply[1]), svr_ses[done.entry.ses])
          ELSE UNCHANGED <<clt, svr_ses>>
    /\ UNCHANGED <<listening, accepting, svr_id_start, troubles, rows, state_context, asks, page>>

replies_emptied ==
    /\ Emptied
    /\ UNCHANGED <<sessions, rows, state_context, asks, page>>

-------------------------------------------------------------------------------
(* A client.                                                               *)

PageFrom(offset) ==
    [command |-> "order_history", owner |-> 1, subject |-> "m", start_time |-> 0,
     end_time |-> 0, offset |-> offset, limit |-> PageSize]
NextPage(c) == PageFrom(page[c].offset)

Requests(c) ==
    IF c \notin Pagers THEN Others
    ELSE IF page[c].done THEN {} ELSE {NextPage(c)}

on_request(c, q) ==
    /\ asks[c] < MaxAsks[c]
    /\ clt[c].connected \/ c \in Unchecked
    /\ asks' = [asks EXCEPT ![c] = @ + 1]
    /\ LET context == nw_state_add(state_context[c], UINT_MAX, q)
       IN /\ state_context' = [state_context EXCEPT ![c] = context]
          /\ nw_ses_send(c, [sequence |-> context.id_start, client |-> c, request |-> q])
    /\ page' = IF c \in Pagers /\ asks[c] = 0
               THEN [page EXCEPT ![c].first = finished_orders(q)] ELSE page
    /\ UNCHANGED <<listening, svr_id_start, troubles, job, rows>>

(* The user has the page of e, and asks for the next one if it was full.   *)
Turned(c, e, reply) ==
    IF c \in Pagers /\ reply.code = 0 /\ e.data.offset = page[c].offset
    THEN [page EXCEPT ![c].offset = @ + PageSize, ![c].got = @ \cup reply.result,
                      ![c].done = Cardinality(reply.result) < PageSize]
    ELSE page

clt_on_recv_pkg(c) ==
    /\ ReadNext(c)
    /\ LET answer == Head(clt[c].in)
           found == nw_state_get(state_context[c], answer.sequence)
       IN IF found = {}
          THEN UNCHANGED <<state_context, page>>
          ELSE \E e \in found :
                 /\ state_context' = [state_context EXCEPT ![c] = state_remove(@, e)]
                 /\ page' = Turned(c, e, answer.reply)
    /\ UNCHANGED <<job, rows, asks>>

clt_on_timeout(c) ==
    /\ \E e \in state_context[c].entries :
          state_context' = [state_context EXCEPT ![c] = state_remove(@, e)]
    /\ UNCHANGED <<sessions, job, rows, asks, page>>

-------------------------------------------------------------------------------
(* The history writer commits another row.                                 *)
Commit(r) ==
    /\ r \notin rows["order"]
    /\ rows' = [rows EXCEPT !["order"] = @ \cup {r}]
    /\ UNCHANGED <<sessions, job, state_context, asks, page>>

ReaderDies ==
    /\ ServerDies
    /\ Recreated
    /\ UNCHANGED <<rows, state_context, asks, page>>

Network ==
    /\ SessionsNext
    /\ UNCHANGED <<job, rows, state_context, asks, page>>

ReaderNext ==
    \/ Network
    \/ \E t \in Thread : thread_takes(t) \/ \E works \in BOOLEAN : on_job(t, works)
    \/ \E s \in SesSlots : svr_on_recv_pkg(s)
    \/ on_can_read \/ on_job_finish \/ replies_emptied
    \/ \E c \in Clients :
          \/ \E q \in Requests(c) : on_request(c, q)
          \/ clt_on_recv_pkg(c) \/ clt_on_timeout(c)
    \/ \E r \in LaterRows : Commit(r)
    \/ ReaderDies

(* The event loops serve every socket and every timer; the kernel finishes *)
(* what it began and process_keepalive starts the server again.            *)
Fairness ==
    /\ \A c \in Clients :
          /\ WF_readerVars(on_reconnect_timeout(c) /\ UNCHANGED <<job, rows, state_context, asks, page>>)
          /\ WF_readerVars(on_connect_timeout(c) /\ UNCHANGED <<job, rows, state_context, asks, page>>)
          /\ WF_readerVars(on_can_connect(c) /\ UNCHANGED <<job, rows, state_context, asks, page>>)
          /\ WF_readerVars(on_close(c) /\ UNCHANGED <<job, rows, state_context, asks, page>>)
          /\ WF_readerVars(Handshake(c) /\ UNCHANGED <<job, rows, state_context, asks, page>>)
          /\ WF_readerVars(clt_on_recv_pkg(c))
    /\ WF_readerVars(ServerStarts /\ UNCHANGED <<job, rows, state_context, asks, page>>)

ReaderSpec == ReaderInit /\ [][ReaderNext]_readerVars /\ Fairness
==============================================================================
