------------------------------ MODULE NwSessions ------------------------------
(***************************************************************************)
(* network/nw_ses.c, nw_clt.c, nw_svr.c and utils/ut_rpc_clt.c,            *)
(* ut_rpc_svr.c: stream connections of clients, which reconnect when       *)
(* theirs is closed, to a server, which keeps a session for each.          *)
(*                                                                         *)
(* A session is a slot, memory that the next session is given once it is   *)
(* closed, and an id.  Data.  A message is read and written as a whole;    *)
(* a socket takes SOCK_MAX of them, what it does not take waits in the     *)
(* write_buf of up to BUF_LIMIT.  `in` is what has arrived at an end and   *)
(* was not read, `gone` that the other end is closed.  A client has one    *)
(* address; the heartbeats themselves are left out.                        *)
(***************************************************************************)
EXTENDS Naturals, Sequences, SequencesExt

CONSTANTS
    Clients,     \* the processes that connect
    SesSlots,    \* the memory of the server's sessions
    SOCK_MAX, BUF_LIMIT, UINT_MAX,
    MaxTroubles  \* bound: how often something goes wrong

VARIABLES
    listening,     \* whether the server has its port
    clt,           \* the nw_clt of each client
    accepting,     \* the connections the server has not accepted
    svr_ses,       \* the server's sessions
    svr_id_start,  \* its id_start
    troubles

sessions == <<listening, clt, accepting, svr_ses, svr_id_start, troubles>>

NoSes == [id |-> 0, clt |-> <<>>, in |-> <<>>, out |-> <<>>, gone |-> FALSE]

(* on_connect_called is not read before nw_clt_start has cleared it.       *)
Closed(timer) ==
    [sock |-> "none", watch |-> "none", timer |-> timer, connected |-> FALSE,
     on_connect_called |-> FALSE, in |-> <<>>, out |-> <<>>, gone |-> FALSE]

(* Once on_connect has been called the timer of watch_connect does nothing *)
(* when it expires, so it ends here.                                       *)
Established ==
    [Closed("none") EXCEPT !.sock = "up", !.watch = "read", !.connected = TRUE,
                           !.on_connect_called = TRUE]

(* Faulty: nobody watches how long the connect takes.                      *)
Faulty_Connecting_unwatched ==
    [Closed("none") EXCEPT !.sock = "syn", !.watch = "connect"]

(* nw_ses_connect is under way, watched by watch_connect's timer.          *)
Connecting ==
    [Closed("connect") EXCEPT !.sock = "syn", !.watch = "connect"]

InitSessions ==
    /\ listening = TRUE
    /\ clt = [c \in Clients |-> Connecting]
    /\ accepting = <<>>
    /\ svr_ses = [s \in SesSlots |-> NoSes]
    /\ svr_id_start = UINT_MAX
    /\ troubles = 0

Trouble == troubles < MaxTroubles /\ troubles' = troubles + 1

-------------------------------------------------------------------------------
(* The two ends of a connection.                                           *)

SessionOf(c) == {s \in SesSlots : svr_ses[s].clt = <<c>> /\ ~svr_ses[s].gone}
InBacklog(c) == {i \in DOMAIN accepting : accepting[i].clt = <<c>> /\ ~accepting[i].gone}

(* The client's end is closed: sss and queue are the server's with that.   *)
Gone(c, sss) ==
    [s \in SesSlots |-> IF s \in SessionOf(c) THEN [sss[s] EXCEPT !.gone = TRUE] ELSE sss[s]]
GoneFrom(c) ==
    [i \in DOMAIN accepting |->
        IF i \in InBacklog(c) THEN [accepting[i] EXCEPT !.gone = TRUE] ELSE accepting[i]]

(* clt_close, on_error, on_close and on_connect(false): the client closes  *)
(* its socket and will be `next`.                                          *)
clt_close(c, next) ==
    /\ clt' = [clt EXCEPT ![c] = next]
    /\ svr_ses' = Gone(c, svr_ses)
    /\ accepting' = GoneFrom(c)

(* A message is put at the end of what has arrived at the server.          *)
Room(c) ==
    /\ \A s \in SessionOf(c) : Len(svr_ses[s].in) < SOCK_MAX
    /\ \A i \in InBacklog(c) : Len(accepting[i].in) < SOCK_MAX
Arrives(c, pkg) ==
    /\ svr_ses' = [s \in SesSlots |-> IF s \in SessionOf(c)
                      THEN [svr_ses[s] EXCEPT !.in = Append(@, pkg)] ELSE svr_ses[s]]
    /\ accepting' = [i \in DOMAIN accepting |-> IF i \in InBacklog(c)
                        THEN [accepting[i] EXCEPT !.in = Append(@, pkg)] ELSE accepting[i]]

-------------------------------------------------------------------------------
(* The client: nw_clt.c and ut_rpc_clt.c.                                  *)

(* connect() to an address of this host may be done, or refused, at once;  *)
(* the refusal is handled twice and comes to the same.  When there is no   *)
(* descriptor for a socket it returns an error before it sets a timer, and *)
(* no caller looks at that: "never" says that nobody will try again.       *)
nw_clt_start(c) ==
    \/ clt_close(c, Connecting)
    \/ /\ listening
       /\ clt' = [clt EXCEPT ![c] = Established]
       /\ accepting' = Append(GoneFrom(c), [NoSes EXCEPT !.clt = <<c>>])
       /\ svr_ses' = Gone(c, svr_ses)
    \/ /\ ~listening
       /\ clt_close(c, Closed("reconnect"))
    \/ clt_close(c, Closed("never"))

on_reconnect_timeout(c) ==
    /\ clt[c].timer = "reconnect"
    /\ nw_clt_start(c)
    /\ UNCHANGED <<listening, svr_id_start, troubles>>

(* It is a trouble when the connect was only slow.                         *)
on_connect_timeout(c) ==
    /\ clt[c].timer = "connect" /\ ~clt[c].on_connect_called
    /\ IF clt[c].sock = "lost" \/ clt[c].watch # "connect"
       THEN UNCHANGED troubles ELSE Trouble
    /\ nw_clt_start(c)
    /\ UNCHANGED <<listening, svr_id_start>>

(* on_can_connect and on_connect *)
on_can_connect(c) ==
    /\ clt[c].watch = "connect"
    /\ \/ /\ clt[c].sock = "up"
          /\ clt' = [clt EXCEPT ![c].watch = "read", ![c].timer = "none",
                                ![c].connected = TRUE, ![c].on_connect_called = TRUE]
          /\ UNCHANGED <<svr_ses, accepting>>
       \/ /\ clt[c].sock = "refused"
          /\ clt_close(c, Closed("reconnect"))
    /\ UNCHANGED <<listening, svr_id_start, troubles>>

(* The client's next message; the module that extends this one handles it. *)
Reads(c) == clt[c].watch \in {"read", "read_write"} /\ clt[c].in # <<>>
ReadNext(c) ==
    /\ Reads(c)
    /\ clt' = [clt EXCEPT ![c].in = Tail(@)]
    /\ UNCHANGED <<listening, accepting, svr_ses, svr_id_start, troubles>>

(* The end of the connection, or that there never was one, is read.        *)
on_close(c) ==
    /\ clt[c].watch \in {"read", "read_write"} /\ clt[c].in = <<>>
    /\ clt[c].gone \/ clt[c].sock = "refused"
    /\ clt_close(c, Closed("reconnect"))
    /\ UNCHANGED <<listening, svr_id_start, troubles>>

(* read or write fail, or what came cannot be decoded.                     *)
on_error(c) ==
    /\ clt[c].watch \in {"read", "read_write"} /\ clt[c].sock = "up"
    /\ Trouble
    /\ clt_close(c, Closed("reconnect"))
    /\ UNCHANGED <<listening, svr_id_start>>

(* The heartbeat timer: nothing has been heard from the server for long.   *)
clt_on_timer(c) ==
    /\ clt[c].connected
    /\ Trouble
    /\ nw_clt_start(c)
    /\ UNCHANGED <<listening, svr_id_start>>

(* rpc_clt_send.  Messages go behind those that wait; a socket still       *)
(* connecting says EAGAIN like a full one, and watch_read_write takes the  *)
(* place of the watcher that was to call on_connect.                       *)
nw_ses_send(c, pkg) ==
    IF clt[c].sock = "none"
    THEN UNCHANGED <<clt, svr_ses, accepting>>
    ELSE IF clt[c].out = <<>> /\ (clt[c].sock = "refused" \/ clt[c].gone)
    THEN clt_close(c, Closed("reconnect"))
    ELSE IF clt[c].out = <<>> /\ clt[c].sock = "up" /\ Room(c)
    THEN Arrives(c, pkg) /\ UNCHANGED clt
    ELSE IF Len(clt[c].out) < BUF_LIMIT
    THEN clt' = [clt EXCEPT ![c].out = Append(@, pkg), ![c].watch = "read_write"]
         /\ UNCHANGED <<svr_ses, accepting>>
    ELSE clt_close(c, Closed("reconnect"))

on_can_write(c) ==
    /\ clt[c].watch = "read_write" /\ clt[c].sock = "up"
    /\ \/ /\ clt[c].gone
          /\ clt_close(c, Closed("reconnect"))
       \/ /\ ~clt[c].gone /\ Room(c)
          /\ Arrives(c, Head(clt[c].out))
          /\ clt' = [clt EXCEPT ![c].out = Tail(@),
                       ![c].watch = IF Len(clt[c].out) = 1 THEN "read" ELSE @]
    /\ UNCHANGED <<listening, svr_id_start, troubles>>

-------------------------------------------------------------------------------
(* The server: nw_svr.c and ut_rpc_svr.c.                                  *)

(* The session in s is closed, by either end: its slot is free and the     *)
(* client will read the end.  cs are the clients otherwise.                *)
svr_close_clt(s, cs) ==
    /\ svr_ses' = [svr_ses EXCEPT ![s] = NoSes]
    /\ clt' = IF svr_ses[s].gone THEN cs ELSE [cs EXCEPT ![svr_ses[s].clt[1]].gone = TRUE]

NextId(n) == IF n = UINT_MAX THEN 1 ELSE n + 1

(* accept, nw_svr_add_clt: id 0 is that of a closed session.               *)
nw_svr_add_clt(s) ==
    /\ listening /\ accepting # <<>>
    /\ svr_ses[s].clt = <<>>
    /\ svr_id_start' = NextId(svr_id_start)
    /\ svr_ses' = [svr_ses EXCEPT ![s] = [Head(accepting) EXCEPT !.id = svr_id_start']]
    /\ accepting' = Tail(accepting)
    /\ UNCHANGED <<listening, clt, troubles>>

(* on_error, on_close *)
svr_on_close(s) ==
    /\ svr_ses[s].id # 0
    /\ \/ svr_ses[s].gone /\ svr_ses[s].in = <<>> /\ UNCHANGED troubles
       \/ ~svr_ses[s].gone /\ Trouble
    /\ svr_close_clt(s, clt)
    /\ UNCHANGED <<listening, accepting, svr_id_start>>

(* rpc_send to the session in s, while the rest of it is `now`.            *)
svr_send(s, pkg, now) ==
    LET c == now.clt[1]
    IN IF now.out = <<>> /\ now.gone
       THEN svr_close_clt(s, clt)
       ELSE IF now.out = <<>> /\ Len(clt[c].in) < SOCK_MAX
       THEN /\ clt' = [clt EXCEPT ![c].in = Append(@, pkg)]
            /\ svr_ses' = [svr_ses EXCEPT ![s] = now]
       ELSE IF Len(now.out) < BUF_LIMIT
       THEN svr_ses' = [svr_ses EXCEPT ![s] = [now EXCEPT !.out = Append(@, pkg)]] /\ UNCHANGED clt
       ELSE svr_close_clt(s, clt)

svr_on_can_write(s) ==
    /\ svr_ses[s].out # <<>>
    /\ \/ svr_ses[s].gone /\ svr_close_clt(s, clt)
       \/ /\ ~svr_ses[s].gone
          /\ LET c == svr_ses[s].clt[1]
             IN /\ Len(clt[c].in) < SOCK_MAX
                /\ clt' = [clt EXCEPT ![c].in = Append(@, Head(svr_ses[s].out))]
          /\ svr_ses' = [svr_ses EXCEPT ![s].out = Tail(@)]
    /\ UNCHANGED <<listening, accepting, svr_id_start, troubles>>

-------------------------------------------------------------------------------
(* The kernel, and the server's process.                                   *)

Handshake(c) ==
    /\ clt[c].sock = "syn"
    /\ clt' = [clt EXCEPT ![c].sock = IF listening THEN "up" ELSE "refused"]
    /\ accepting' = IF listening THEN Append(accepting, [NoSes EXCEPT !.clt = <<c>>])
                                 ELSE accepting
    /\ UNCHANGED <<listening, svr_ses, svr_id_start, troubles>>

HandshakeLost(c) ==
    /\ clt[c].sock = "syn"
    /\ Trouble
    /\ clt' = [clt EXCEPT ![c].sock = "lost"]
    /\ UNCHANGED <<listening, accepting, svr_ses, svr_id_start>>

(* The server's process dies, and process_keepalive starts another.        *)
ServerDies ==
    /\ listening
    /\ Trouble
    /\ listening' = FALSE
    /\ clt' = [c \in Clients |-> IF clt[c].sock = "up"
                                 THEN [clt[c] EXCEPT !.gone = TRUE] ELSE clt[c]]
    /\ svr_ses' = [s \in SesSlots |-> NoSes]
    /\ accepting' = <<>> /\ svr_id_start' = 0

ServerStarts ==
    /\ ~listening
    /\ listening' = TRUE
    /\ UNCHANGED <<clt, accepting, svr_ses, svr_id_start, troubles>>

SessionsNext ==
    \/ \E c \in Clients :
          \/ on_reconnect_timeout(c) \/ on_connect_timeout(c) \/ on_can_connect(c)
          \/ on_close(c) \/ on_error(c) \/ clt_on_timer(c) \/ on_can_write(c)
          \/ Handshake(c) \/ HandshakeLost(c)
    \/ \E s \in SesSlots : nw_svr_add_clt(s) \/ svr_on_close(s) \/ svr_on_can_write(s)
    \/ ServerStarts
===============================================================================
