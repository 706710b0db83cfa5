------------------------------- MODULE Listener -------------------------------
(***************************************************************************)
(* accesshttp/ah_listener.c and accessws/aw_listener.c, which are the same *)
(* program: the process that accepts the connections of a gateway and      *)
(* hands each, a file descriptor, to one of its workers over a unix        *)
(* socket; with the listener's end of these sockets in utils/ut_rpc_svr.c  *)
(* and the worker's in ah_server.c.                                        *)
(*                                                                         *)
(* A link is the unix socket of a worker, numbered, as a worker makes a    *)
(* new one when its last was closed.  The two ends notice at different     *)
(* times that it is: `workers` is what the listener still has in its list, *)
(* `link` what the workers still have.  What has been sent stays readable  *)
(* when the sender has closed its end and is lost with the reader's.       *)
(* `copies` counts the descriptors the processes and links hold of a       *)
(* connection: its client sees it closed when there is none.               *)
(***************************************************************************)
EXTENDS Integers, Sequences, SequencesExt

CONSTANTS
    Conns,      \* the connections, each made once
    Workers,    \* the worker processes
    PIPE_MAX,   \* how many descriptors a link holds
    MaxLinks, MaxStops  \* bounds

VARIABLES
    backlog,    \* the connections not accepted
    accepted,   \* those that have been
    copies,
    workers,    \* the links of worker_svr's list of sessions
    link,       \* the link of each worker, 0 if it has none
    links,      \* how many there have been
    pipe,       \* the descriptors in each link
    left,       \* the connections their clients have closed
    stops       \* how many processes have died

listener == <<backlog, accepted, copies, workers, link, links, pipe, left, stops>>

InitListener ==
    /\ backlog = {} /\ accepted = {} /\ left = {}
    /\ copies = [c \in Conns |-> 0]
    /\ workers = {}
    /\ link = [w \in Workers |-> 0]
    /\ links = 0
    /\ pipe = [l \in 1..MaxLinks |-> <<>>]
    /\ stops = 0

(* The client sees no end of its connection.                               *)
Open(c) == c \in backlog \/ copies[c] > 0

Close(counts, S) == [c \in Conns |-> IF c \in S THEN counts[c] - 1 ELSE counts[c]]

Connect(c) ==
    /\ c \notin backlog \cup accepted \cup left
    /\ backlog' = backlog \cup {c}
    /\ UNCHANGED <<accepted, copies, workers, link, links, pipe, left, stops>>

ClientCloses(c) ==
    /\ Open(c) /\ c \notin left
    /\ left' = left \cup {c}
    /\ UNCHANGED <<backlog, accepted, copies, workers, link, links, pipe, stops>>

(* nw_ses_send_fd: a link whose other end is closed, or that is full,      *)
(* takes nothing.                                                          *)
nw_ses_send_fd(l) ==
    /\ \E w \in Workers : link[w] = l
    /\ Len(pipe[l]) < PIPE_MAX

(* Faulty: the listener keeps its own descriptor.                          *)
Faulty_listener_on_accept_keeps(c, worker) ==
    /\ c \in backlog
    /\ backlog' = backlog \ {c}
    /\ accepted' = accepted \cup {c}
    /\ IF worker # <<>> /\ nw_ses_send_fd(worker[1])
       THEN /\ pipe' = [pipe EXCEPT ![worker[1]] = Append(@, c)]
            /\ copies' = [copies EXCEPT ![c] = 2]
       ELSE UNCHANGED <<pipe, copies>>
    /\ UNCHANGED <<workers, link, links, left, stops>>

(* on_can_accept and listener_on_accept: the session of the list that      *)
(* rand() names gets the connection; if it does not, there is none, or the *)
(* list is empty, the connection is closed.  In the end the listener has   *)
(* no descriptor of it.                                                    *)
listener_on_accept(c, worker) ==
    /\ c \in backlog
    /\ backlog' = backlog \ {c}
    /\ accepted' = accepted \cup {c}
    /\ IF worker # <<>> /\ nw_ses_send_fd(worker[1])
       THEN /\ pipe' = [pipe EXCEPT ![worker[1]] = Append(@, c)]
            /\ copies' = [copies EXCEPT ![c] = 1]
       ELSE UNCHANGED <<pipe, copies>>
    /\ UNCHANGED <<workers, link, links, left, stops>>

Accept(c) ==
    \/ workers = {} /\ listener_on_accept(c, <<>>)
    \/ \E l \in workers : listener_on_accept(c, <<l>>)

(* A worker without a link connects, worker_svr accepts it.                *)
worker_on_new_connection(w) ==
    /\ link[w] = 0 /\ links < MaxLinks
    /\ links' = links + 1
    /\ link' = [link EXCEPT ![w] = links + 1]
    /\ workers' = workers \cup {links + 1}
    /\ UNCHANGED <<backlog, accepted, copies, pipe, left, stops>>

(* worker_svr closes the session of link l: the worker has closed it, or   *)
(* on_timer has not heard its heartbeat for too long, so it may be there.  *)
worker_on_connection_close(l) ==
    /\ l \in workers
    /\ workers' = workers \ {l}
    /\ UNCHANGED <<backlog, accepted, copies, link, links, pipe, left, stops>>

(* The worker closes its link, having read that the listener has or heard  *)
(* no answer to its heartbeats: what it has not read is lost.              *)
Unlinked(w, counts) ==
    IF link[w] = 0
    THEN copies' = counts /\ UNCHANGED <<link, pipe>>
    ELSE /\ link' = [link EXCEPT ![w] = 0]
         /\ pipe' = [pipe EXCEPT ![link[w]] = <<>>]
         /\ copies' = Close(counts, ToSet(pipe[link[w]]))

WorkerUnlinks(w) ==
    /\ link[w] # 0
    /\ Unlinked(w, copies)
    /\ UNCHANGED <<backlog, accepted, workers, links, left, stops>>

(* nw_ses.c:on_can_read on the worker's end takes the next descriptor.     *)
on_recv_fd(w) ==
    /\ link[w] # 0 /\ pipe[link[w]] # <<>>
    /\ pipe' = [pipe EXCEPT ![link[w]] = Tail(@)]
    /\ UNCHANGED <<backlog, accepted, workers, link, links, left, stops>>

(* The listener dies, process_keepalive starts it again.  What it had      *)
(* accepted is in the links; the clients in its backlog are refused.       *)
ListenerDies ==
    /\ stops < MaxStops
    /\ stops' = stops + 1
    /\ accepted' = accepted \cup backlog
    /\ backlog' = {}
    /\ workers' = {}
    /\ UNCHANGED <<copies, link, links, pipe, left>>

(* A worker dies with its link and the connections in `held`.              *)
WorkerDies(w, held) ==
    /\ stops < MaxStops
    /\ stops' = stops + 1
    /\ Unlinked(w, Close(copies, held))
    /\ UNCHANGED <<backlog, accepted, workers, links, left>>
===============================================================================
