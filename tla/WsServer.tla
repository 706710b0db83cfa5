------------------------------- MODULE WsServer -------------------------------
(***************************************************************************)
(* utils/ut_ws_svr.c on network/nw_ses.c: one connection of the websocket  *)
(* server, from the HTTP request that upgrades it to its end.              *)
(*                                                                         *)
(* Data.  What is written travels in pieces, so that a read may end in the *)
(* middle of the request or of a frame.  A frame is its opcode, its FIN    *)
(* bit, its length in pieces and, as payload, a part of a message.  A      *)
(* client sends no frame before it has got its 101.                        *)
(***************************************************************************)
EXTENDS Naturals, Sequences, SequencesExt

CONSTANTS
    MAX_PKG_SIZE,  \* the size of the read_buf, in pieces
    Sizes,         \* the lengths of frames
    Requests,      \* the requests to upgrade the client may write
    MaxMessages, MaxPings  \* bounds

VARIABLES
    alive,     \* whether the session is
    upgrade, message, split,  \* of its clt_info
    stream,    \* what was written and not read
    read_buf,  \* what was read and not decoded
    replied,   \* whether the client has got its 101
    sending,   \* whether the client is in the middle of a message
    pings,
    \* History: the messages written and those on_message was given.
    sent, got

clt_info == <<upgrade, message, split>>
client == <<stream, replied, sending, pings, sent>>
vars == <<alive, clt_info, client, read_buf, got>>

NoMessage == <<>>

Init ==
    /\ alive = TRUE
    /\ upgrade = FALSE /\ message = NoMessage /\ split = FALSE
    /\ stream = <<>> /\ read_buf = <<>>
    /\ replied = FALSE /\ sending = FALSE
    /\ pings = 0
    /\ sent = <<>> /\ got = <<>>

-------------------------------------------------------------------------------
(* The client.                                                             *)

HttpPiece(request, needed, last) ==
    [request |-> request, needed |-> needed, last |-> last]

(* The two pieces meet inside a header; `needed` is whether it is one that *)
(* on_http_message_complete asks for.                                      *)
WriteRequest(request, needed) ==
    /\ alive /\ ~replied /\ stream = <<>> /\ read_buf = <<>> /\ ~upgrade /\ ~split
    /\ stream' = <<HttpPiece(request, needed, FALSE), HttpPiece(request, needed, TRUE)>>
    /\ UNCHANGED <<alive, clt_info, read_buf, replied, sending, pings, sent, got>>

Frame(opcode, fin, part, size) ==
    [i \in 1..size |->
        [opcode |-> opcode, fin |-> fin, part |-> part, size |-> size]]

(* Text: a message is one frame or two, a ping may come between them.      *)
WriteFrame(fin, size) ==
    /\ replied
    /\ Len(sent) < MaxMessages
    /\ sending => fin
    /\ stream' = stream \o
          Frame(IF sending THEN "more" ELSE "text", fin,
                <<Len(sent) + 1, IF sending THEN "end" ELSE IF fin THEN "all" ELSE "begin">>, size)
    /\ sending' = ~fin
    /\ sent' = IF fin THEN Append(sent, Len(sent) + 1) ELSE sent
    /\ UNCHANGED <<alive, clt_info, read_buf, replied, pings, got>>

WritePing(size) ==
    /\ replied /\ pings < MaxPings
    /\ pings' = pings + 1
    /\ stream' = stream \o Frame("ping", TRUE, <<0, "ping">>, size)
    /\ UNCHANGED <<alive, clt_info, read_buf, replied, sending, sent, got>>

-------------------------------------------------------------------------------
(* The server.                                                             *)

(* decode_pkg: how many pieces of buf, which begins with a frame, make the *)
(* frame; 0 if it has not come as a whole.                                 *)
decode_pkg(buf) == IF Len(buf) < buf[1].size THEN 0 ELSE buf[1].size

(* on_message's text; what is not the parts of one message is none.        *)
Text(parts) ==
    IF \E m \in 1..MaxMessages :
          parts \in {<<<<m, "all">>>>, <<<<m, "begin">>, <<m, "end">>>>}
    THEN parts[1][1] ELSE 0

(* Faulty: the message is kept.                                            *)
Faulty_on_frame_keeps(frame, r) ==
    IF frame.opcode = "ping" THEN r
    ELSE LET parts == Append(r.message, frame.part)
         IN IF ~frame.fin THEN [r EXCEPT !.message = parts]
            ELSE [r EXCEPT !.got = Append(@, Text(parts)), !.message = parts]

(* on_recv_pkg of a frame, after the upgrade.                              *)
on_frame(frame, r) ==
    IF frame.opcode = "ping" THEN r
    ELSE LET parts == Append(r.message, frame.part)
         IN IF ~frame.fin THEN [r EXCEPT !.message = parts]
            ELSE [r EXCEPT !.got = Append(@, Text(parts)), !.message = NoMessage]

(* The loop of on_can_read over buf, from r on.                            *)
RECURSIVE Decode(_, _)
Decode(buf, r) ==
    IF buf = <<>> \/ decode_pkg(buf) = 0 THEN [r EXCEPT !.buf = buf]
    ELSE Decode(SubSeq(buf, decode_pkg(buf) + 1, Len(buf)), on_frame(buf[1], r))

(* on_can_read reads n pieces of frames.  A frame larger than the buffer,  *)
(* a pong that cannot be sent or a message that on_message refuses ends    *)
(* the session, the last two after `upto` messages.                        *)
on_can_read_frames(n, upto) ==
    LET r == Decode(read_buf \o SubSeq(stream, 1, n),
                    [message |-> message, got |-> got, buf |-> <<>>])
        refused == upto < Len(r.got)
    IN /\ alive /\ upgrade
       /\ n \in 1..Len(stream) /\ n <= MAX_PKG_SIZE - Len(read_buf)
       /\ upto \in Len(got)..Len(r.got)
       /\ stream' = SubSeq(stream, n + 1, Len(stream))
       /\ got' = SubSeq(r.got, 1, upto)
       /\ IF refused \/ Len(r.buf) = MAX_PKG_SIZE
          THEN alive' = FALSE /\ message' = NoMessage /\ read_buf' = <<>>
          ELSE message' = r.message /\ read_buf' = r.buf /\ UNCHANGED alive
       /\ UNCHANGED <<upgrade, split, replied, sending, pings, sent>>

(* Before the upgrade decode_pkg gives all of a read to the HTTP parser:   *)
(* on_http_message_complete ends the session if the request lacks what it  *)
(* must have, or if a header it must have came in two reads, as            *)
(* on_http_header_field and on_http_header_value keep only part of it.     *)
on_can_read_request(n, ok) ==
    LET piece == stream[n]
        good == piece.request = "good" /\ ~(piece.needed /\ split)
    IN /\ alive /\ ~upgrade
       /\ n \in 1..Len(stream)
       /\ stream' = SubSeq(stream, n + 1, Len(stream))
       /\ IF ~piece.last
          THEN split' = TRUE /\ UNCHANGED <<alive, upgrade, replied>>
          ELSE /\ UNCHANGED split
               /\ alive' = (good /\ ok)
               /\ upgrade' = good
               /\ replied' = (good /\ ok)
       /\ UNCHANGED <<message, read_buf, sending, pings, sent, got>>

(* The client closes the connection, or on_timer has read nothing from it  *)
(* for keep_alive.                                                         *)
Close ==
    /\ alive
    /\ alive' = FALSE
    /\ message' = NoMessage /\ read_buf' = <<>>
    /\ UNCHANGED <<upgrade, split, client, got>>

Read ==
    \/ \E n \in 1..2, ok \in BOOLEAN : on_can_read_request(n, ok)
    \/ \E n \in 1..MAX_PKG_SIZE, upto \in 0..MaxMessages : on_can_read_frames(n, upto)

Next ==
    \/ \E request \in Requests, needed \in BOOLEAN : WriteRequest(request, needed)
    \/ \E size \in Sizes : (\E fin \in BOOLEAN : WriteFrame(fin, size)) \/ WritePing(size)
    \/ Read
    \/ Close

(* The event loop reads what has come.                                     *)
Fairness == WF_vars(Read)
Spec == Init /\ [][Next]_vars /\ Fairness
===============================================================================
