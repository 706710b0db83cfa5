----------------------------- MODULE HttpGateway ------------------------------
(***************************************************************************)
(* accesshttp: the workers behind the listener, ah_server.c on             *)
(* utils/ut_http_svr.c.  A worker reads requests from its sessions,        *)
(* forwards them to the backends and sends back what these answer, or says *)
(* that they have not.                                                     *)
(*                                                                         *)
(* Data.  A request is its kind and travels in three pieces: its head and  *)
(* two parts of its body.  What is not HTTP is one piece.  A read takes    *)
(* any number of the pieces that have come, so several requests, or part   *)
(* of one.  The backends are one link, which answers in any order.         *)
(***************************************************************************)
EXTENDS Listener, FiniteSets

CONSTANTS
    Slots,       \* the memory of a worker's sessions
    Kinds,       \* of requests: "known", "unknown", "malformed", "not http"
    MaxRequests  \* bound

VARIABLES
    ses,         \* the session in each slot of each worker
    svr_id,      \* how many sessions each has had
    state,       \* the nw_state entries of each worker
    backend,     \* the requests the backends of each worker have
    connected,   \* the workers that are connected to them
    stream,      \* the pieces written to each connection and not read
    \* History: the connections that were given a session, in order, the
    \* number of requests written to each; the connection of each request
    \* handled and those its answer was handed to.
    served, written, asked, answers

http == <<ses, svr_id, state, backend, connected, stream>>
record == <<served, written, asked, answers>>
vars == <<listener, http, record>>

NoSession == [id |-> 0, conn |-> <<>>, split |-> FALSE]

Init ==
    /\ InitListener
    /\ ses = [w \in Workers |-> [s \in Slots |-> NoSession]]
    /\ svr_id = [w \in Workers |-> 0]
    /\ state = [w \in Workers |-> {}]
    /\ backend = [w \in Workers |-> {}]
    /\ connected = Workers
    /\ stream = [c \in Conns |-> <<>>]
    /\ served = <<>>
    /\ written = [c \in Conns |-> 0]
    /\ asked = <<>>
    /\ answers = [r \in 1..MaxRequests |-> <<>>]

Held(w) == {c \in Conns : \E s \in Slots : ses[w][s].conn = <<c>>}

-------------------------------------------------------------------------------
(* Clients.                                                                *)

Pieces(kind) ==
    LET piece(part) == [part |-> part, kind |-> kind]
    IN IF kind = "not http" THEN <<piece("all")>>
       ELSE <<piece("head"), piece("body"), piece("rest")>>

Write(c, kind) ==
    /\ Open(c) /\ c \notin left
    /\ MapThenSumSet(LAMBDA d : written[d], Conns) < MaxRequests
    /\ stream' = [stream EXCEPT ![c] = @ \o Pieces(kind)]
    /\ written' = [written EXCEPT ![c] = @ + 1]
    /\ UNCHANGED <<listener, ses, svr_id, state, backend, connected, served, asked, answers>>

-------------------------------------------------------------------------------
(* Sessions.                                                               *)

(* Worker w's session in slot s is closed.                                 *)
nw_svr_close_clt(w, s) ==
    /\ ses' = [ses EXCEPT ![w][s] = NoSession]
    /\ copies' = Close(copies, ToSet(ses[w][s].conn))

(* Answers go out to requests rs in slot s, or the send of the first fails,*)
(* which closes the session.                                               *)
Answer(w, s, rs, ok) ==
    IF ok \/ rs = {}
    THEN /\ answers' = [r \in DOMAIN answers |->
                IF r \in rs THEN Append(answers[r], ses[w][s].conn[1]) ELSE answers[r]]
         /\ UNCHANGED <<ses, copies>>
    ELSE nw_svr_close_clt(w, s) /\ UNCHANGED answers

(* nw_svr_add_clt_fd makes the descriptor a session of the worker; when    *)
(* the client has gone it may have no address any more and is closed.      *)
on_listener_recv_fd(w, s, good) ==
    /\ on_recv_fd(w)
    /\ ses[w][s].id = 0
    /\ LET c == Head(pipe[link[w]])
       IN /\ good \/ c \in left
          /\ IF good
             THEN /\ svr_id' = [svr_id EXCEPT ![w] = @ + 1]
                  /\ ses' = [ses EXCEPT ![w][s] =
                        [id |-> svr_id'[w], conn |-> <<c>>, split |-> FALSE]]
                  /\ served' = Append(served, c)
                  /\ UNCHANGED copies
             ELSE /\ copies' = Close(copies, {c})
                  /\ UNCHANGED <<svr_id, ses, served>>
    /\ UNCHANGED <<state, backend, connected, stream, written, asked, answers>>

-------------------------------------------------------------------------------
(* Requests.                                                               *)

(* on_http_request, as far as it looks at the request: on_body keeps the   *)
(* last part of a body only, so that one read in two does not decode.      *)
Verdict(kind, split) ==
    IF kind = "not http" THEN "end"
    ELSE IF kind = "malformed" \/ split THEN "bad request"
    ELSE IF kind = "unknown" THEN "not found" ELSE "forward"

(* The requests that a read of the pieces P completes, by the place of     *)
(* their last piece, up to one that ends the session.                      *)
VerdictAt(P, split, i) ==
    Verdict(P[i].kind, split /\ \A j \in 1..i - 1 : P[j].part \notin {"rest", "all"})
Ends(P, split, i) == VerdictAt(P, split, i) \in {"end", "bad request"}
Completed(P, split) ==
    LET done == {i \in DOMAIN P : P[i].part \in {"rest", "all"}}
    IN {i \in done : \A j \in done : Ends(P, split, j) => i <= j}

(* on_recv_pkg and the callbacks of the parser.  If a send fails on a      *)
(* connection with further requests the parser goes on in freed memory:    *)
(* the worker may die, or do nothing more, which is this.  No more is read *)
(* than MaxRequests lets the clients write.                                *)
on_recv_pkg(w, s, n, ok) ==
    LET c == ses[w][s].conn[1]
        P == SubSeq(stream[c], 1, n)
        verdict(i) == VerdictAt(P, ses[w][s].split, i)
        completed == Completed(P, ses[w][s].split)
        requests == {i \in completed : verdict(i) # "end"}
        atOnce == {i \in requests : ~(verdict(i) = "forward" /\ w \in connected)}
        failed == ~ok /\ atOnce # {}
        new == IF failed THEN {i \in requests : \A j \in atOnce : i <= j} ELSE requests
        number(i) == Len(asked) + Cardinality({j \in new : j <= i})
        forwarded == {number(i) : i \in new \ atOnce}
    IN /\ ses[w][s].id # 0
       /\ n \in 1..Len(stream[c])
       /\ Len(asked) + Cardinality(new) <= MaxRequests
       /\ stream' = [stream EXCEPT ![c] = SubSeq(@, n + 1, Len(@))]
       /\ asked' = asked \o [i \in 1..Cardinality(new) |-> c]
       /\ answers' = [r \in DOMAIN answers |->
             IF ok /\ r \in {number(i) : i \in atOnce} THEN <<c>> ELSE answers[r]]
       /\ state' = [state EXCEPT ![w] = @ \cup
             {[id |-> r, ses |-> s, ses_id |-> ses[w][s].id] : r \in forwarded}]
       /\ backend' = [backend EXCEPT ![w] = @ \cup forwarded]
       /\ IF failed \/ \E i \in completed : Ends(P, ses[w][s].split, i)
          THEN nw_svr_close_clt(w, s)
          ELSE /\ ses' = [ses EXCEPT ![w][s].split = P[n].part = "body"]
               /\ UNCHANGED copies
       /\ UNCHANGED <<backlog, accepted, workers, link, links, pipe, left, stops,
                      svr_id, connected, served, written>>

(* The client has closed the connection, or written nothing for keep_alive.*)
on_timer(w, s) ==
    /\ ses[w][s].id # 0
    /\ nw_svr_close_clt(w, s)
    /\ UNCHANGED <<backlog, accepted, workers, link, links, pipe, left, stops, svr_id,
                   state, backend, connected, stream, record>>

-------------------------------------------------------------------------------
(* Answers.                                                                *)

(* Faulty: any session in the slot will do.                                *)
Faulty_SameSession_any(w, e) == ses[w][e.ses].id # 0

SameSession(w, e) == ses[w][e.ses].id = e.ses_id

(* Faulty: nobody is told.                                                 *)
Faulty_on_state_timeout_silent(w, e, ok) ==
    /\ e \in state[w] /\ ok
    /\ state' = [state EXCEPT ![w] = @ \ {e}]
    /\ UNCHANGED <<listener, ses, svr_id, backend, connected, stream, record>>

on_state_timeout(w, e, ok) ==
    /\ e \in state[w]
    /\ state' = [state EXCEPT ![w] = @ \ {e}]
    /\ Answer(w, e.ses, IF SameSession(w, e) THEN {e.id} ELSE {}, ok)
    /\ UNCHANGED <<backlog, accepted, workers, link, links, pipe, left, stops, svr_id,
                   backend, connected, stream, served, written, asked>>

on_backend_recv_pkg(w, r, ok) ==
    LET waiting == {e \in state[w] : e.id = r}
    IN /\ r \in backend[w]
       /\ backend' = [backend EXCEPT ![w] = @ \ {r}]
       /\ state' = [state EXCEPT ![w] = @ \ waiting]
       /\ IF waiting = {} THEN UNCHANGED <<ses, copies, answers>>
          ELSE \E e \in waiting :
                 Answer(w, e.ses, IF SameSession(w, e) THEN {r} ELSE {}, ok)
       /\ UNCHANGED <<backlog, accepted, workers, link, links, pipe, left, stops, svr_id,
                      connected, stream, served, written, asked>>

(* The connection to the backends breaks, with what is on it, or is back.  *)
on_backend_connect(w) ==
    /\ connected' = IF w \in connected THEN connected \ {w} ELSE connected \cup {w}
    /\ backend' = [backend EXCEPT ![w] = {}]
    /\ UNCHANGED <<listener, ses, svr_id, state, stream, record>>

(* A worker dies and process_keepalive starts another.  Its ids go on,     *)
(* where the code's begin again: nothing is left of the old ones.          *)
WorkerRestarts(w) ==
    /\ WorkerDies(w, Held(w))
    /\ ses' = [ses EXCEPT ![w] = [s \in Slots |-> NoSession]]
    /\ state' = [state EXCEPT ![w] = {}]
    /\ backend' = [backend EXCEPT ![w] = {}]
    /\ UNCHANGED <<svr_id, connected, stream, record>>

-------------------------------------------------------------------------------
Receive(w) == \E s \in Slots, good \in BOOLEAN : on_listener_recv_fd(w, s, good)
Read(w, s) == \E n \in 1..3 * MaxRequests, ok \in BOOLEAN : on_recv_pkg(w, s, n, ok)
Timer(w, r) == \E e \in state[w], ok \in BOOLEAN : e.id = r /\ on_state_timeout(w, e, ok)

OfListener ==
    \/ \E c \in Conns : Connect(c) \/ ClientCloses(c) \/ Accept(c)
    \/ \E w \in Workers : worker_on_new_connection(w) \/ WorkerUnlinks(w)
    \/ \E l \in 1..MaxLinks : worker_on_connection_close(l)
    \/ ListenerDies

Next ==
    \/ OfListener /\ UNCHANGED <<http, record>>
    \/ \E c \in Conns, kind \in Kinds : Write(c, kind)
    \/ \E w \in Workers, s \in Slots : Read(w, s) \/ on_timer(w, s)
    \/ \E w \in Workers : Receive(w) \/ on_backend_connect(w) \/ WorkerRestarts(w)
    \/ \E w \in Workers, r \in 1..MaxRequests : Timer(w, r)
    \/ \E w \in Workers, r \in 1..MaxRequests, ok \in BOOLEAN : on_backend_recv_pkg(w, r, ok)

Spec == Init /\ [][Next]_vars
===============================================================================
