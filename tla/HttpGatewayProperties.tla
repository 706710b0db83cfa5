------------------------ MODULE HttpGatewayProperties -------------------------
(***************************************************************************)
(* What must be true of the HTTP gateway and its listener, HttpGateway.tla *)
(* and Listener.tla.                                                       *)
(***************************************************************************)
EXTENDS HttpGateway

\* listener_on_accept, on_listener_recv_fd: there is a descriptor of a
\* connection for every session that has it and every link it is in, and no
\* other, whichever process dies or gives up its link and when: a connection
\* nobody will read is closed.
NoneForgotten ==
    \A c \in Conns :
        copies[c] = Cardinality({w \in Workers : c \in Held(w)})
                    + Cardinality({l \in 1..MaxLinks : c \in ToSet(pipe[l])})

Opened(r, w, s) == ses[w][s].conn = <<asked[r]>>

\* ah_server.c, ut_http_svr.c: a request that was read and not answered, whose
\* connection is open, still has its timer, and the timer the session that asked
\* it: in the end it is answered, whatever becomes of the backends.
NoneUnanswered ==
    \A r \in DOMAIN asked, w \in Workers, s \in Slots :
        answers[r] = <<>> /\ Opened(r, w, s) =>
            \E e \in state[w] : e.id = r /\ e.ses = s /\ e.ses_id = ses[w][s].id

(* A connection is numbered by its place among those that had a session.   *)
Index(c) == CHOOSE i \in DOMAIN served : served[i] = c
Sessions == {i \in DOMAIN served : \E w \in Workers : served[i] \in Held(w)}
Askers == [r \in DOMAIN asked |-> Index(asked[r])]
Told == [r \in DOMAIN answers |-> [j \in DOMAIN answers[r] |-> Index(answers[r][j])]]

\* ah_server.c implements RequestReply, across all workers.
Abstract == INSTANCE RequestReply WITH
    open <- Sessions, last <- Len(served), asked <- Askers, answers <- Told
ImplementsRequestReply == Abstract!Spec
===============================================================================
