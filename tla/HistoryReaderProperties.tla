----------------------- MODULE HistoryReaderProperties -----------------------
(***************************************************************************)
(* What must be true of the history reader and of the connections to it,   *)
(* HistoryReader.tla and NwSessions.tla.                                   *)
(***************************************************************************)
EXTENDS HistoryReader

\* rh_server.c:on_job_finish, nw_state.c: what is on its way to a client under
\* the id of a request that waits is the answer to this request, also when the
\* session it was asked on is closed and its memory another client's.
AskerAnswered ==
    \A c \in Clients :
        LET coming == ToSet(clt[c].in)
                \cup UNION {ToSet(svr_ses[s].out) : s \in SessionOf(c)}
        IN \A answer \in coming :
              /\ answer.to.client = c
              /\ \A e \in state_context[c].entries :
                    e.id = answer.sequence => e.data = answer.to.request

\* rh_reader.c: whoever has read the pages of a history up to its end has seen
\* every row there was when he first asked, whatever has been stored meanwhile.
NothingSkipped ==
    \A c \in Pagers : page[c].done => page[c].first \subseteq page[c].got

\* nw_clt.c: a client whose connection was closed or never came about gets
\* another one, whatever happened to the one before, unless nw_clt_start found
\* no descriptor for its socket.
Works(c) == clt[c].connected /\ ~clt[c].gone
Reconnected == \A c \in Clients : []<>(Works(c) \/ clt[c].timer = "never")
==============================================================================
