------------------------- MODULE HistoryReader_proofs -------------------------
(***************************************************************************)
(* Proofs about the history reader and the connections to it: what comes   *)
(* to a client under the id of a request that waits is the answer to this  *)
(* request, and a history that is paged to its end is read as a whole.     *)
(***************************************************************************)
EXTENDS HistoryReaderProperties, FiniteSetTheorems, SequenceTheorems, WellFoundedInduction, TLAPS

(* What a client may have asked: a pager's pages, not ahead of where it is.*)
Askable(c) ==
    IF c \in Pagers THEN {PageFrom(offset) : offset \in 0..page[c].offset} ELSE Others

(* The requests of each client: one under an id in use is the entry's.     *)
Asked ==
    [c \in Clients |->
        {p \in [sequence : 1..asks[c], client : {c}, request : Askable(c)] :
            \A e \in state_context[c].entries : e.id = p.sequence => e.data = p.request}]

Replies == [code : 0..3, result : (SUBSET AllRows) \cup {Null}]

(* The history that is paged through, and how many rows of it are newer.   *)
Table == finished_orders(PageFrom(0))
Above(R, r) == {n \in R : n.id > r.id}

(* S is what is needed of the page that a pager is at.                     *)
Fills(c, S) ==
    /\ PageSize > 0 /\ S \subseteq AllRows
    /\ \A r \in page[c].first :
          Cardinality(Above(Table, r)) < page[c].offset + PageSize => r \in page[c].got \cup S
    /\ Cardinality(S) < PageSize => page[c].first \subseteq page[c].got \cup S

Honest(p, reply) ==
    p.client \in Pagers /\ reply.code = 0 /\ p.request.offset = page[p.client].offset
        => Fills(p.client, reply.result)

Answers ==
    [c \in Clients |->
        {a \in [sequence : Nat, reply : Replies, to : Asked[c]] :
            a.sequence = a.to.sequence /\ Honest(a.to, a.reply)}]

-------------------------------------------------------------------------------
(* What the connections hold, when requests are in P and answers in A.     *)

CltSet(P, A, c) ==
    {v \in [sock : {"none", "syn", "up", "refused", "lost"},
            watch : {"none", "connect", "read", "read_write"},
            timer : {"none", "connect", "reconnect", "never"},
            connected : BOOLEAN, on_connect_called : BOOLEAN,
            in : Seq(A[c]), out : Seq(P[c]), gone : BOOLEAN] :
        v.watch = "read_write" => v.out # <<>>}

SesSet(P, A, c) ==
    [id : Nat, clt : {<<c>>}, in : Seq(P[c]), out : Seq(A[c]), gone : BOOLEAN]

SesOK(P, A, v) == v = NoSes \/ (v.id # 0 /\ \E c \in Clients : v \in SesSet(P, A, c))

CltsHeld(P, A) ==
    /\ clt = [c \in Clients |-> clt[c]]
    /\ \A c \in Clients : clt[c] \in CltSet(P, A, c)
SesHeld(P, A) ==
    /\ svr_ses = [s \in SesSlots |-> svr_ses[s]]
    /\ \A s \in SesSlots : SesOK(P, A, svr_ses[s])
AnySes(P, A) == UNION {SesSet(P, A, c) : c \in Clients}
QueueHeld(P, A) == accepting \in Seq(AnySes(P, A))

Held(P, A) ==
    CltsHeld(P, A) /\ SesHeld(P, A) /\ QueueHeld(P, A) /\ svr_id_start \in Nat

(* What becomes of a session: it ends, it stays a client's, or the slot is *)
(* given to another one, with a new id.                                    *)
Moves ==
    \A s \in SesSlots :
        \/ svr_ses'[s] = NoSes
        \/ svr_ses'[s].id = svr_ses[s].id /\ svr_ses'[s].clt = svr_ses[s].clt
        \/ svr_ses'[s].id = svr_id_start' /\ svr_id_start' # svr_id_start

LEMMA Fresh ==
  ASSUME NEW P, NEW A, NEW c \in Clients
  PROVE  /\ [NoSes EXCEPT !.clt = <<c>>] \in SesSet(P, A, c)
         /\ Connecting \in CltSet(P, A, c) /\ Established \in CltSet(P, A, c)
         /\ Closed("reconnect") \in CltSet(P, A, c)
         /\ Closed("never") \in CltSet(P, A, c)
  <1>1. <<>> \in Seq(P[c]) /\ <<>> \in Seq(A[c])
    OBVIOUS
  <1>2. [NoSes EXCEPT !.clt = <<c>>] \in SesSet(P, A, c)
    BY <1>1 DEF NoSes, SesSet
  <1>3. Closed("reconnect") \in CltSet(P, A, c) /\ Closed("never") \in CltSet(P, A, c)
    BY <1>1 DEF CltSet, Closed
  <1>4. Connecting \in CltSet(P, A, c)
    BY <1>1 DEF CltSet, Connecting, Closed
  <1>5. Established \in CltSet(P, A, c)
    BY <1>1 DEF CltSet, Established, Closed
  <1>6. QED
    BY <1>2, <1>3, <1>4, <1>5

LEMMA GoneKeeps ==
  ASSUME NEW P, NEW A, NEW c \in Clients, Held(P, A)
  PROVE  /\ \A s \in SesSlots : /\ SesOK(P, A, Gone(c, svr_ses)[s])
                                /\ Gone(c, svr_ses)[s].id = svr_ses[s].id
                                /\ Gone(c, svr_ses)[s].clt = svr_ses[s].clt
         /\ GoneFrom(c) \in Seq(AnySes(P, A))
  <1>1. ASSUME NEW s \in SesSlots
        PROVE  /\ SesOK(P, A, Gone(c, svr_ses)[s])
               /\ Gone(c, svr_ses)[s].id = svr_ses[s].id
               /\ Gone(c, svr_ses)[s].clt = svr_ses[s].clt
    <2>1. SesOK(P, A, svr_ses[s])
      BY DEF Held, SesHeld
    <2>2. CASE s \notin SessionOf(c)
      BY <2>1, <2>2 DEF Gone
    <2>3. CASE s \in SessionOf(c)
      <3>1. svr_ses[s].clt = <<c>>
        BY <2>3 DEF SessionOf
      <3>2. svr_ses[s] # NoSes
        BY <3>1 DEF NoSes
      <3>3. PICK d \in Clients : svr_ses[s] \in SesSet(P, A, d)
        BY <2>1, <3>2 DEF SesOK
      <3>4. /\ [svr_ses[s] EXCEPT !.gone = TRUE] \in SesSet(P, A, d)
            /\ [svr_ses[s] EXCEPT !.gone = TRUE].id = svr_ses[s].id
            /\ [svr_ses[s] EXCEPT !.gone = TRUE].clt = svr_ses[s].clt
        BY <3>3 DEF SesSet
      <3>5. Gone(c, svr_ses)[s] = [svr_ses[s] EXCEPT !.gone = TRUE]
        BY <2>3 DEF Gone
      <3>6. svr_ses[s].id # 0
        BY <2>1, <3>2 DEF SesOK
      <3>7. QED
        BY <3>4, <3>5, <3>6 DEF SesOK
    <2>4. QED
      BY <2>2, <2>3
  <1>2. GoneFrom(c) \in Seq(AnySes(P, A))
    <2>1. accepting \in Seq(AnySes(P, A))
      BY DEF Held, QueueHeld
    <2>2. ASSUME NEW i \in DOMAIN accepting
          PROVE  (IF i \in InBacklog(c) THEN [accepting[i] EXCEPT !.gone = TRUE]
                  ELSE accepting[i]) \in AnySes(P, A)
      <3>1. accepting[i] \in AnySes(P, A)
        BY <2>1
      <3>2. PICK d \in Clients : accepting[i] \in SesSet(P, A, d)
        BY <3>1 DEF AnySes
      <3>3. [accepting[i] EXCEPT !.gone = TRUE] \in SesSet(P, A, d)
        BY <3>2 DEF SesSet
      <3>4. QED
        BY <3>1, <3>3 DEF AnySes
    <2>3. QED
      BY <2>1, <2>2 DEF GoneFrom
  <1>3. QED
    BY <1>1, <1>2

(* The client closes its end.                                              *)
LEMMA CloseKeeps ==
  ASSUME NEW P, NEW A, NEW c \in Clients, Held(P, A),
         NEW next \in CltSet(P, A, c), clt_close(c, next)
  PROVE  CltsHeld(P, A)' /\ SesHeld(P, A)' /\ QueueHeld(P, A)' /\ Moves
  <1>1. CltsHeld(P, A)'
    BY DEF Held, CltsHeld, clt_close
  <1>2. svr_ses' = Gone(c, svr_ses) /\ accepting' = GoneFrom(c)
    BY DEF clt_close
  <1>3. SesHeld(P, A)'
    <2>1. svr_ses' = [s \in SesSlots |-> svr_ses'[s]]
      BY <1>2 DEF Gone
    <2>2. QED
      BY <1>2, <2>1, GoneKeeps DEF SesHeld, SesOK
  <1>4. QED
    BY <1>1, <1>2, <1>3, GoneKeeps DEF QueueHeld, Moves

LEMMA StartKeeps ==
  ASSUME NEW P, NEW A, NEW c \in Clients, Held(P, A), nw_clt_start(c)
  PROVE  CltsHeld(P, A)' /\ SesHeld(P, A)' /\ QueueHeld(P, A)' /\ Moves
  <1>1. CASE clt_close(c, Connecting)
    BY <1>1, Fresh, CloseKeeps
  <1>2. CASE clt_close(c, Closed("reconnect"))
    BY <1>2, Fresh, CloseKeeps
  <1>3. CASE /\ clt' = [clt EXCEPT ![c] = Established]
             /\ accepting' = Append(GoneFrom(c), [NoSes EXCEPT !.clt = <<c>>])
             /\ svr_ses' = Gone(c, svr_ses)
    <2>1. CltsHeld(P, A)'
      BY <1>3, Fresh DEF Held, CltsHeld
    <2>2. SesHeld(P, A)'
      <3>1. svr_ses' = [s \in SesSlots |-> svr_ses'[s]]
        BY <1>3 DEF Gone
      <3>2. QED
        BY <1>3, <3>1, GoneKeeps DEF SesHeld, SesOK
    <2>3. QueueHeld(P, A)'
      <3>1. [NoSes EXCEPT !.clt = <<c>>] \in AnySes(P, A)
        BY Fresh DEF AnySes
      <3>2. GoneFrom(c) \in Seq(AnySes(P, A))
        BY GoneKeeps
      <3>3. QED
        BY <1>3, <3>1, <3>2 DEF QueueHeld
    <2>4. QED
      BY <1>3, <2>1, <2>2, <2>3, GoneKeeps DEF Moves
  <1>4. CASE clt_close(c, Closed("never"))
    BY <1>4, Fresh, CloseKeeps
  <1>5. QED
    BY <1>1, <1>2, <1>3, <1>4 DEF nw_clt_start

(* A request reaches the server's end.                                     *)
LEMMA ArrivesKeeps ==
  ASSUME NEW P, NEW A, NEW c \in Clients, Held(P, A), NEW pkg \in P[c], Arrives(c, pkg)
  PROVE  SesHeld(P, A)' /\ QueueHeld(P, A)' /\ Moves
  <1>1. ASSUME NEW s \in SesSlots
        PROVE  /\ SesOK(P, A, svr_ses'[s])
               /\ svr_ses'[s].id = svr_ses[s].id /\ svr_ses'[s].clt = svr_ses[s].clt
    <2>1. SesOK(P, A, svr_ses[s])
      BY DEF Held, SesHeld
    <2>2. CASE s \notin SessionOf(c)
      BY <2>1, <2>2 DEF Arrives
    <2>3. CASE s \in SessionOf(c)
      <3>1. svr_ses[s].clt = <<c>>
        BY <2>3 DEF SessionOf
      <3>2. svr_ses[s] # NoSes
        BY <3>1 DEF NoSes
      <3>3. PICK d \in Clients : svr_ses[s] \in SesSet(P, A, d)
        BY <2>1, <3>2 DEF SesOK
      <3>4. svr_ses[s] \in SesSet(P, A, c)
        BY <3>1, <3>3 DEF SesSet
      <3>5. svr_ses'[s] = [svr_ses[s] EXCEPT !.in = Append(@, pkg)]
        BY <2>3 DEF Arrives
      <3>6. Append(svr_ses[s].in, pkg) \in Seq(P[c])
        <4>1. svr_ses[s].in \in Seq(P[c])
          BY <3>4 DEF SesSet
        <4>2. QED
          BY <4>1, AppendProperties
      <3>7. /\ svr_ses'[s] \in SesSet(P, A, c)
            /\ svr_ses'[s].id = svr_ses[s].id /\ svr_ses'[s].clt = svr_ses[s].clt
        BY <3>4, <3>5, <3>6 DEF SesSet
      <3>8. svr_ses[s].id # 0
        BY <2>1, <3>2 DEF SesOK
      <3>9. QED
        BY <3>7, <3>8 DEF SesOK
    <2>4. QED
      BY <2>2, <2>3
  <1>2. SesHeld(P, A)'
    <2>1. svr_ses' = [s \in SesSlots |-> svr_ses'[s]]
      BY DEF Arrives
    <2>2. QED
      BY <1>1, <2>1 DEF SesHeld, SesOK
  <1>3. QueueHeld(P, A)'
    <2>1. accepting \in Seq(AnySes(P, A))
      BY DEF Held, QueueHeld
    <2>2. ASSUME NEW i \in DOMAIN accepting
          PROVE  (IF i \in InBacklog(c) THEN [accepting[i] EXCEPT !.in = Append(@, pkg)]
                  ELSE accepting[i]) \in AnySes(P, A)
      <3>1. accepting[i] \in AnySes(P, A)
        BY <2>1
      <3>2. PICK d \in Clients : accepting[i] \in SesSet(P, A, d)
        BY <3>1 DEF AnySes
      <3>3. CASE i \in InBacklog(c)
        <4>1. accepting[i] \in SesSet(P, A, c)
          BY <3>2, <3>3 DEF SesSet, InBacklog
        <4>2. Append(accepting[i].in, pkg) \in Seq(P[c])
          <5>1. accepting[i].in \in Seq(P[c])
            BY <4>1 DEF SesSet
          <5>2. QED
            BY <5>1, AppendProperties
        <4>3. [accepting[i] EXCEPT !.in = Append(@, pkg)] \in SesSet(P, A, c)
          BY <4>1, <4>2 DEF SesSet
        <4>4. QED
          BY <3>3, <4>3 DEF AnySes
      <3>4. QED
        BY <3>1, <3>3
    <2>3. accepting' \in Seq(AnySes(P, A))
      <3> DEFINE S == AnySes(P, A)
                 now(i) == IF i \in InBacklog(c)
                           THEN [accepting[i] EXCEPT !.in = Append(@, pkg)] ELSE accepting[i]
      <3>1. accepting' = [i \in 1..Len(accepting) |-> now(i)]
        BY <2>1 DEF Arrives
      <3>2. \A i \in 1..Len(accepting) : now(i) \in S
        <4>1. DOMAIN accepting = 1..Len(accepting)
          BY <2>1, LenProperties
        <4>2. QED
          BY <2>2, <4>1
      <3>3. Len(accepting) \in Nat
        BY <2>1
      <3> HIDE DEF S, now
      <3>4. accepting' \in Seq(S)
        BY <3>1, <3>2, <3>3
      <3>5. QED
        BY <3>4 DEF S
    <2>4. QED
      BY <2>3 DEF QueueHeld, AnySes, SesSet
  <1>4. QED
    BY <1>1, <1>2, <1>3 DEF Moves

LEMMA SendKeeps ==
  ASSUME NEW P, NEW A, NEW c \in Clients, Held(P, A), NEW pkg \in P[c],
         nw_ses_send(c, pkg)
  PROVE  CltsHeld(P, A)' /\ SesHeld(P, A)' /\ QueueHeld(P, A)' /\ Moves
  <1>1. CASE clt_close(c, Closed("reconnect"))
    BY <1>1, Fresh, CloseKeeps
  <1>2. CASE Arrives(c, pkg) /\ UNCHANGED clt
    BY <1>2, ArrivesKeeps DEF Held, CltsHeld
  <1>3. CASE UNCHANGED <<clt, svr_ses, accepting>>
    BY <1>3 DEF Held, CltsHeld, SesHeld, SesOK, QueueHeld, Moves
  <1>4. CASE /\ clt' = [clt EXCEPT ![c].out = Append(@, pkg), ![c].watch = "read_write"]
             /\ UNCHANGED <<svr_ses, accepting>>
    <2>1. clt[c] \in CltSet(P, A, c)
      BY DEF Held, CltsHeld
    <2>2. Append(clt[c].out, pkg) \in Seq(P[c]) /\ Append(clt[c].out, pkg) # <<>>
      <3>1. clt[c].out \in Seq(P[c])
        BY <2>1 DEF CltSet
      <3>2. /\ Append(clt[c].out, pkg) \in Seq(P[c]) /\ Len(clt[c].out) \in Nat
            /\ Len(Append(clt[c].out, pkg)) = Len(clt[c].out) + 1
        <4>1. Len(clt[c].out) \in Nat
          BY <3>1, LenProperties
        <4>2. PICK S, sent : S = P[c] /\ sent = clt[c].out
          OBVIOUS
        <4>3. sent \in Seq(S) /\ pkg \in S
          BY <3>1, <4>2
        <4>4. Append(sent, pkg) \in Seq(S) /\ Len(Append(sent, pkg)) = Len(sent) + 1
          BY <4>3, AppendProperties
        <4>5. QED
          BY <4>1, <4>2, <4>4
      <3>3. Len(Append(clt[c].out, pkg)) # 0 /\ Len(<<>>) = 0
        BY <3>2
      <3>4. QED
        BY <3>2, <3>3
    <2>3. [clt[c] EXCEPT !.out = Append(clt[c].out, pkg), !.watch = "read_write"]
             \in CltSet(P, A, c)
      BY <2>1, <2>2 DEF CltSet
    <2>4. CltsHeld(P, A)'
      BY <1>4, <2>3 DEF Held, CltsHeld
    <2>5. QED
      BY <1>4, <2>4 DEF Held, SesHeld, SesOK, QueueHeld, Moves
  <1>5. QED
    BY <1>1, <1>2, <1>3, <1>4 DEF nw_ses_send

LEMMA WriteKeeps ==
  ASSUME NEW P, NEW A, NEW c \in Clients, Held(P, A), on_can_write(c)
  PROVE  CltsHeld(P, A)' /\ SesHeld(P, A)' /\ QueueHeld(P, A)' /\ Moves
  <1>1. CASE clt_close(c, Closed("reconnect"))
    BY <1>1, Fresh, CloseKeeps
  <1>2. CASE /\ clt[c].watch = "read_write" /\ Arrives(c, Head(clt[c].out))
             /\ clt' = [clt EXCEPT ![c].out = Tail(@),
                          ![c].watch = IF Len(clt[c].out) = 1 THEN "read" ELSE @]
    <2>1. clt[c] \in CltSet(P, A, c)
      BY DEF Held, CltsHeld
    <2>2. /\ Head(clt[c].out) \in P[c] /\ Tail(clt[c].out) \in Seq(P[c])
          /\ Len(clt[c].out) # 1 => Tail(clt[c].out) # <<>>
      <3>1. clt[c].out \in Seq(P[c]) /\ clt[c].out # <<>>
        BY <1>2, <2>1 DEF CltSet
      <3>2. /\ Head(clt[c].out) \in P[c] /\ Tail(clt[c].out) \in Seq(P[c])
            /\ Len(Tail(clt[c].out)) = Len(clt[c].out) - 1
        BY <3>1, HeadTailProperties
      <3>3. Len(clt[c].out) \in Nat
        BY <3>1
      <3>4. Tail(clt[c].out) = <<>> => Len(clt[c].out) - 1 = 0
        BY <3>2, EmptySeq
      <3>5. QED
        BY <3>2, <3>3, <3>4
    <2> DEFINE w == IF Len(clt[c].out) = 1 THEN "read" ELSE clt[c].watch
    <2>3. clt' = [clt EXCEPT ![c] = [clt[c] EXCEPT !.out = Tail(clt[c].out), !.watch = w]]
      BY <1>2
    <2>4. [clt[c] EXCEPT !.out = Tail(clt[c].out), !.watch = w] \in CltSet(P, A, c)
      BY <2>1, <2>2 DEF CltSet
    <2>5. CltsHeld(P, A)'
      BY <2>3, <2>4 DEF Held, CltsHeld
    <2>6. PICK pkg \in P[c] : pkg = Head(clt[c].out)
      BY <2>2
    <2>7. Arrives(c, pkg)
      BY <1>2, <2>6
    <2>8. QED
      BY <2>5, <2>7, ArrivesKeeps
  <1>3. QED
    BY <1>1, <1>2 DEF on_can_write

(* A session that is a client's is ended, by either end.                   *)
LEMMA EndKeeps ==
  ASSUME NEW P, NEW A, NEW s \in SesSlots, Held(P, A), svr_ses[s] # NoSes,
         svr_close_clt(s, clt)
  PROVE  CltsHeld(P, A)' /\ SesHeld(P, A)' /\ Moves
  <1>1. PICK d \in Clients : svr_ses[s] \in SesSet(P, A, d)
    BY DEF Held, SesHeld, SesOK
  <1>2. svr_ses[s].clt[1] = d
    BY <1>1 DEF SesSet
  <1>3. CltsHeld(P, A)'
    <2>1. CASE clt' = clt
      BY <2>1 DEF Held, CltsHeld
    <2>2. CASE clt' = [clt EXCEPT ![d] = [clt[d] EXCEPT !.gone = TRUE]]
      <3>1. [clt[d] EXCEPT !.gone = TRUE] \in CltSet(P, A, d)
        BY DEF Held, CltsHeld, CltSet
      <3>2. QED
        BY <2>2, <3>1 DEF Held, CltsHeld
    <2>3. QED
      BY <1>2, <2>1, <2>2 DEF svr_close_clt
  <1>4. SesHeld(P, A)'
    BY DEF Held, SesHeld, SesOK, svr_close_clt
  <1>5. Moves
    BY DEF Held, SesHeld, Moves, svr_close_clt
  <1>6. QED
    BY <1>3, <1>4, <1>5

(* now is the session with fewer requests to be read.                      *)
LEMMA SvrSendKeeps ==
  ASSUME NEW P, NEW A, NEW s \in SesSlots, NEW c \in Clients, Held(P, A),
         svr_ses[s] # NoSes, NEW a \in A[c], NEW now \in SesSet(P, A, c),
         now.id = svr_ses[s].id, now.clt = svr_ses[s].clt, svr_send(s, a, now)
  PROVE  CltsHeld(P, A)' /\ SesHeld(P, A)' /\ Moves
  <1>1. now.clt[1] = c /\ now.id # 0
    BY DEF SesSet, Held, SesHeld, SesOK
  <1>2. CASE svr_close_clt(s, clt)
    BY <1>2, EndKeeps
  <1>3. CASE /\ clt' = [clt EXCEPT ![c].in = Append(@, a)]
             /\ svr_ses' = [svr_ses EXCEPT ![s] = now]
    <2>1. clt[c].in \in Seq(A[c])
      BY DEF Held, CltsHeld, CltSet
    <2>2. Append(clt[c].in, a) \in Seq(A[c])
      BY <2>1, AppendProperties
    <2>3. [clt[c] EXCEPT !.in = Append(clt[c].in, a)] \in CltSet(P, A, c)
      BY <2>2 DEF Held, CltsHeld, CltSet
    <2>4. CltsHeld(P, A)'
      BY <1>3, <2>3 DEF Held, CltsHeld
    <2>5. SesHeld(P, A)'
      BY <1>1, <1>3 DEF Held, SesHeld, SesOK
    <2>6. QED
      BY <1>3, <2>4, <2>5 DEF Held, SesHeld, Moves
  <1>4. CASE svr_ses' = [svr_ses EXCEPT ![s] = [now EXCEPT !.out = Append(@, a)]] /\ UNCHANGED clt
    <2>1. now.out \in Seq(A[c])
      BY DEF SesSet
    <2>2. Append(now.out, a) \in Seq(A[c])
      BY <2>1, AppendProperties
    <2>3. PICK next \in SesSet(P, A, c) :
              /\ next = [now EXCEPT !.out = Append(now.out, a)]
              /\ next.id = now.id /\ next.clt = now.clt
      <3> DEFINE new == [now EXCEPT !.out = Append(now.out, a)]
      <3>1. new \in SesSet(P, A, c) /\ new.id = now.id /\ new.clt = now.clt
        BY <2>2 DEF SesSet
      <3>2. QED
        BY <3>1
    <2>4. svr_ses' = [svr_ses EXCEPT ![s] = next]
      BY <1>4, <2>3
    <2>5. SesHeld(P, A)'
      BY <1>1, <2>3, <2>4 DEF Held, SesHeld, SesOK
    <2>6. QED
      BY <1>4, <2>3, <2>4, <2>5 DEF Held, CltsHeld, SesHeld, Moves
  <1>5. QED
    BY <1>1, <1>2, <1>3, <1>4 DEF svr_send

LEMMA SvrWriteKeeps ==
  ASSUME NEW P, NEW A, NEW s \in SesSlots, Held(P, A), svr_on_can_write(s)
  PROVE  CltsHeld(P, A)' /\ SesHeld(P, A)' /\ Moves
  <1>1. svr_ses[s].out # <<>> /\ svr_ses[s] # NoSes
    BY DEF svr_on_can_write, NoSes
  <1>2. PICK c \in Clients : svr_ses[s] \in SesSet(P, A, c)
    BY <1>1 DEF Held, SesHeld, SesOK
  <1>3. CASE svr_close_clt(s, clt)
    BY <1>1, <1>3, EndKeeps
  <1>4. CASE /\ clt' = [clt EXCEPT ![c].in = Append(@, Head(svr_ses[s].out))]
             /\ svr_ses' = [svr_ses EXCEPT ![s].out = Tail(@)]
    <2>1. svr_ses[s].out \in Seq(A[c])
      BY <1>2 DEF SesSet
    <2>2. Head(svr_ses[s].out) \in A[c] /\ Tail(svr_ses[s].out) \in Seq(A[c])
      BY <1>1, <2>1, HeadTailProperties
    <2>3. clt[c].in \in Seq(A[c])
      BY DEF Held, CltsHeld, CltSet
    <2>4. Append(clt[c].in, Head(svr_ses[s].out)) \in Seq(A[c])
      BY <2>2, <2>3, AppendProperties
    <2>5. [clt[c] EXCEPT !.in = Append(clt[c].in, Head(svr_ses[s].out))] \in CltSet(P, A, c)
      BY <2>4 DEF Held, CltsHeld, CltSet
    <2>6. CltsHeld(P, A)'
      BY <1>4, <2>5 DEF Held, CltsHeld
    <2>7. PICK next \in SesSet(P, A, c) :
              /\ next = [svr_ses[s] EXCEPT !.out = Tail(svr_ses[s].out)]
              /\ next.id = svr_ses[s].id /\ next.clt = svr_ses[s].clt
      <3> DEFINE new == [svr_ses[s] EXCEPT !.out = Tail(svr_ses[s].out)]
      <3>1. new \in SesSet(P, A, c) /\ new.id = svr_ses[s].id /\ new.clt = svr_ses[s].clt
        BY <1>2, <2>2 DEF SesSet
      <3>2. QED
        BY <3>1
    <2>8. svr_ses' = [svr_ses EXCEPT ![s] = next]
      BY <1>4, <2>7
    <2>9. SesHeld(P, A)'
      BY <1>1, <2>7, <2>8 DEF Held, SesHeld, SesOK
    <2>10. QED
      BY <2>6, <2>7, <2>8, <2>9 DEF Held, SesHeld, Moves
  <1>5. QED
    <2>1. svr_ses[s].clt[1] = c
      BY <1>2 DEF SesSet
    <2>2. QED
      BY <1>3, <1>4, <2>1 DEF svr_on_can_write

LEMMA AcceptKeeps ==
  ASSUME NEW P, NEW A, NEW s \in SesSlots, Held(P, A), nw_svr_add_clt(s)
  PROVE  Held(P, A)' /\ Moves
  <1>1. svr_id_start' \in Nat /\ svr_id_start' # 0 /\ svr_id_start' # svr_id_start
    BY ReaderAssumption DEF nw_svr_add_clt, NextId, Held
  <1>2. Head(accepting) \in AnySes(P, A) /\ Tail(accepting) \in Seq(AnySes(P, A))
    BY HeadTailProperties DEF nw_svr_add_clt, Held, QueueHeld
  <1>3. PICK c \in Clients : Head(accepting) \in SesSet(P, A, c)
    BY <1>2 DEF AnySes
  <1>4. PICK id : id = svr_id_start'
    OBVIOUS
  <1>5. PICK next \in SesSet(P, A, c) :
            next = [Head(accepting) EXCEPT !.id = id] /\ next.id = id
    <2> DEFINE new == [Head(accepting) EXCEPT !.id = id]
    <2>1. new \in SesSet(P, A, c) /\ new.id = id
      BY <1>1, <1>3, <1>4 DEF SesSet
    <2>2. QED
      BY <2>1
  <1>6. svr_ses' = [svr_ses EXCEPT ![s] = next]
    BY <1>4, <1>5 DEF nw_svr_add_clt
  <1>7. SesHeld(P, A)'
    BY <1>1, <1>4, <1>5, <1>6 DEF Held, SesHeld, SesOK
  <1>8. CltsHeld(P, A)'
    BY DEF Held, CltsHeld, nw_svr_add_clt
  <1>9. QueueHeld(P, A)'
    BY <1>2 DEF QueueHeld, nw_svr_add_clt
  <1>10. Moves
    BY <1>1, <1>4, <1>5, <1>6 DEF Held, SesHeld, Moves
  <1>11. QED
    BY <1>1, <1>7, <1>8, <1>9, <1>10 DEF Held

LEMMA HandshakeKeeps ==
  ASSUME NEW P, NEW A, NEW c \in Clients, Held(P, A), Handshake(c) \/ HandshakeLost(c)
  PROVE  CltsHeld(P, A)' /\ SesHeld(P, A)' /\ QueueHeld(P, A)' /\ Moves
  <1>1. PICK sock \in {"up", "refused", "lost"} : clt' = [clt EXCEPT ![c].sock = sock]
    BY DEF Handshake, HandshakeLost
  <1>2. CltsHeld(P, A)'
    <2>1. [clt[c] EXCEPT !.sock = sock] \in CltSet(P, A, c)
      BY DEF Held, CltsHeld, CltSet
    <2>2. QED
      BY <1>1, <2>1 DEF Held, CltsHeld
  <1>3. SesHeld(P, A)' /\ Moves
    BY DEF Held, SesHeld, SesOK, Moves, Handshake, HandshakeLost
  <1>4. QueueHeld(P, A)'
    <2>1. accepting \in Seq(AnySes(P, A))
      BY DEF Held, QueueHeld
    <2>2. PICK new \in AnySes(P, A) : new = [NoSes EXCEPT !.clt = <<c>>]
      <3>1. [NoSes EXCEPT !.clt = <<c>>] \in SesSet(P, A, c)
        BY Fresh
      <3>2. QED
        BY <3>1 DEF AnySes
    <2>3. Append(accepting, new) \in Seq(AnySes(P, A))
      BY <2>1, AppendProperties
    <2>4. accepting' \in {accepting, Append(accepting, new)}
      BY <2>2 DEF Handshake, HandshakeLost
    <2>5. QED
      BY <2>1, <2>3, <2>4 DEF QueueHeld
  <1>5. QED
    BY <1>2, <1>3, <1>4

LEMMA DeathKeeps ==
  ASSUME NEW P, NEW A, Held(P, A), ServerDies
  PROVE  Held(P, A)' /\ Moves
  <1>1. CltsHeld(P, A)'
    <2>1. ASSUME NEW c \in Clients
          PROVE  [clt[c] EXCEPT !.gone = TRUE] \in CltSet(P, A, c) /\ clt[c] \in CltSet(P, A, c)
      BY DEF Held, CltsHeld, CltSet
    <2>2. QED
      BY <2>1 DEF CltsHeld, ServerDies
  <1>2. SesHeld(P, A)' /\ Moves
    BY DEF SesHeld, SesOK, Moves, ServerDies
  <1>3. QueueHeld(P, A)' /\ svr_id_start' \in Nat
    BY EmptySeq DEF QueueHeld, ServerDies
  <1>4. QED
    BY <1>1, <1>2, <1>3 DEF Held

(* Whatever the connections do, requests stay requests, and answers        *)
(* answers, of the client whose connection it is.                          *)
LEMMA SessionsKeep ==
  ASSUME NEW P, NEW A, Held(P, A), SessionsNext
  PROVE  Held(P, A)' /\ Moves
  <1> DEFINE Kept == Held(P, A)' /\ Moves
  <1>1. ASSUME NEW c \in Clients, on_reconnect_timeout(c) \/ on_connect_timeout(c) \/ clt_on_timer(c)
        PROVE  Kept
    <2>1. nw_clt_start(c) /\ svr_id_start' = svr_id_start
      BY <1>1 DEF on_reconnect_timeout, on_connect_timeout, clt_on_timer
    <2>2. QED
      BY <2>1, StartKeeps DEF Held
  <1>2. ASSUME NEW c \in Clients, on_close(c) \/ on_error(c)
        PROVE  Kept
    <2>1. clt_close(c, Closed("reconnect")) /\ svr_id_start' = svr_id_start
      BY <1>2 DEF on_close, on_error
    <2>2. QED
      BY <2>1, Fresh, CloseKeeps DEF Held
  <1>3. ASSUME NEW c \in Clients, on_can_connect(c)
        PROVE  Kept
    <2>1. CASE clt_close(c, Closed("reconnect"))
      BY <1>3, <2>1, Fresh, CloseKeeps DEF Held, on_can_connect
    <2>2. CASE /\ clt' = [clt EXCEPT ![c].watch = "read", ![c].timer = "none",
                                     ![c].connected = TRUE, ![c].on_connect_called = TRUE]
               /\ UNCHANGED <<svr_ses, accepting>>
      <3>1. [clt[c] EXCEPT !.watch = "read", !.timer = "none", !.connected = TRUE,
                           !.on_connect_called = TRUE] \in CltSet(P, A, c)
        BY DEF Held, CltsHeld, CltSet
      <3>2. CltsHeld(P, A)'
        BY <2>2, <3>1 DEF Held, CltsHeld
      <3>3. SesHeld(P, A)' /\ QueueHeld(P, A)' /\ Moves
        BY <2>2 DEF Held, SesHeld, SesOK, QueueHeld, Moves
      <3>4. QED
        BY <1>3, <3>2, <3>3 DEF Held, on_can_connect
    <2>3. QED
      BY <1>3, <2>1, <2>2 DEF on_can_connect
  <1>4. ASSUME NEW c \in Clients, on_can_write(c)
        PROVE  Kept
    BY <1>4, WriteKeeps DEF Held, on_can_write
  <1>5. ASSUME NEW c \in Clients, Handshake(c) \/ HandshakeLost(c)
        PROVE  Kept
    BY <1>5, HandshakeKeeps DEF Held, Handshake, HandshakeLost
  <1>6. ASSUME NEW s \in SesSlots, nw_svr_add_clt(s)
        PROVE  Kept
    BY <1>6, AcceptKeeps
  <1>7. ASSUME NEW s \in SesSlots, svr_on_close(s)
        PROVE  Kept
    <2>1. svr_close_clt(s, clt) /\ svr_ses[s] # NoSes
      BY <1>7 DEF svr_on_close, NoSes
    <2>2. QueueHeld(P, A)' /\ svr_id_start' = svr_id_start
      BY <1>7 DEF Held, QueueHeld, svr_on_close
    <2>3. QED
      BY <2>1, <2>2, EndKeeps DEF Held
  <1>8. ASSUME NEW s \in SesSlots, svr_on_can_write(s)
        PROVE  Kept
    <2>1. QueueHeld(P, A)' /\ svr_id_start' = svr_id_start
      BY <1>8 DEF Held, QueueHeld, svr_on_can_write
    <2>2. QED
      BY <1>8, <2>1, SvrWriteKeeps DEF Held
  <1>9. CASE ServerStarts
    BY <1>9 DEF ServerStarts, Held, CltsHeld, SesHeld, SesOK, QueueHeld, Moves
  <1>10. QED
    BY <1>1, <1>2, <1>3, <1>4, <1>5, <1>6, <1>7, <1>8, <1>9 DEF SessionsNext

LEMMA HeldGrows ==
  ASSUME NEW P, NEW A, NEW Q, NEW B, Held(P, A),
         \A c \in Clients : P[c] \subseteq Q[c] /\ A[c] \subseteq B[c]
  PROVE  Held(Q, B)
  <1>1. ASSUME NEW c \in Clients
        PROVE  Seq(P[c]) \subseteq Seq(Q[c]) /\ Seq(A[c]) \subseteq Seq(B[c])
    <2>1. P[c] \subseteq Q[c] /\ A[c] \subseteq B[c]
      OBVIOUS
    <2>2. QED
      BY <2>1
  <1>2. ASSUME NEW c \in Clients
        PROVE  CltSet(P, A, c) \subseteq CltSet(Q, B, c) /\ SesSet(P, A, c) \subseteq SesSet(Q, B, c)
    BY <1>1 DEF CltSet, SesSet
  <1>3. CltsHeld(Q, B)
    BY <1>2 DEF Held, CltsHeld
  <1>4. SesHeld(Q, B)
    BY <1>2 DEF Held, SesHeld, SesOK
  <1>5. QueueHeld(Q, B)
    <2>1. AnySes(P, A) \subseteq AnySes(Q, B)
      BY <1>2 DEF AnySes
    <2>2. Seq(AnySes(P, A)) \subseteq Seq(AnySes(Q, B))
      BY <2>1
    <2>3. QED
      BY <2>2 DEF Held, QueueHeld
  <1>6. QED
    BY <1>3, <1>4, <1>5 DEF Held

-------------------------------------------------------------------------------
(* What the threads hold: requests, with the session each came from, and   *)
(* what was found.                                                         *)

Entry(P) ==
    [ses : SesSlots, ses_id : Nat \ {0}, pkg : UNION {P[c] : c \in Clients}]
Found(P, A) ==
    {f \in [entry : Entry(P), reply : Seq(Replies)] :
        f.reply # <<>> => AnswerTo(f.entry.pkg, f.reply[1]) \in A[f.entry.pkg.client]}

JobHeld(P, A) ==
    job \in [requests : Seq(Entry(P)), running : [Thread -> Seq(Entry(P))],
             replies : Seq(Found(P, A)), pipe : BOOLEAN, reading : BOOLEAN,
             shutdown : BOOLEAN]

InJob == Pending \cup {job.replies[i].entry : i \in DOMAIN job.replies}

(* A session with the id that a request came with is the asker's.          *)
Linked ==
    \A e \in InJob :
        svr_ses[e.ses].id = e.ses_id => svr_ses[e.ses].clt = <<e.pkg.client>>

(* An id of a session comes round only when no request that came with it   *)
(* is still with the threads: there are 2^32 - 1 of them.                  *)
FreshIds ==
    svr_id_start' # svr_id_start => \A e \in InJob : e.ses_id # svr_id_start'

LEMMA JobGrows ==
  ASSUME NEW P, NEW A, NEW Q, NEW B, JobHeld(P, A),
         \A c \in Clients : \A p \in P[c] : p.client = c,
         \A c \in Clients : P[c] \subseteq Q[c] /\ A[c] \subseteq B[c]
  PROVE  JobHeld(Q, B)
  <1>1. Entry(P) \subseteq Entry(Q)
    BY DEF Entry
  <1>2. ASSUME NEW f \in Found(P, A) PROVE f \in Found(Q, B)
    <2>1. PICK c \in Clients : f.entry.pkg \in P[c]
      BY DEF Found, Entry
    <2>2. f.entry.pkg.client = c
      BY <2>1
    <2>3. QED
      BY <1>1, <2>2 DEF Found
  <1>3. /\ Seq(Entry(P)) \subseteq Seq(Entry(Q))
        /\ Seq(Found(P, A)) \subseteq Seq(Found(Q, B))
    BY <1>1, <1>2
  <1>4. QED
    BY <1>3 DEF JobHeld

LEMMA InJobTyped ==
  ASSUME NEW P, NEW A, JobHeld(P, A)
  PROVE  \A e \in InJob : e \in Entry(P)
  <1>1. \A i \in DOMAIN job.requests : job.requests[i] \in Entry(P)
    BY ElementOfSeq, LenProperties DEF JobHeld
  <1>2. ToSet(job.requests) \subseteq Entry(P)
    BY <1>1 DEF ToSet
  <1>3. \A t \in Running : job.running[t][1] \in Entry(P)
    <2> TAKE t \in Running
    <2>1. job.running[t] \in Seq(Entry(P)) /\ job.running[t] # <<>>
      BY DEF JobHeld, Running
    <2>2. 1 \in 1..Len(job.running[t])
      BY <2>1, EmptySeq
    <2>3. QED
      BY <2>1, <2>2, ElementOfSeq
  <1>4. \A i \in DOMAIN job.replies : job.replies[i].entry \in Entry(P)
    <2>1. \A i \in DOMAIN job.replies : job.replies[i] \in Found(P, A)
      BY ElementOfSeq, LenProperties DEF JobHeld
    <2>2. QED
      BY <2>1 DEF Found
  <1>5. QED
    BY <1>2, <1>3, <1>4 DEF InJob, Pending

LEMMA LinkedKeeps ==
  ASSUME NEW P, NEW A, JobHeld(P, A), Linked, Moves, FreshIds, InJob' \subseteq InJob
  PROVE  Linked'
  <1> SUFFICES ASSUME NEW e \in InJob, svr_ses'[e.ses].id = e.ses_id
               PROVE  svr_ses'[e.ses].clt = <<e.pkg.client>>
    BY DEF Linked
  <1>1. e \in Entry(P)
    BY InJobTyped
  <1>2. e.ses \in SesSlots /\ e.ses_id # 0
    BY <1>1 DEF Entry
  <1>3. svr_ses'[e.ses] # NoSes
    BY <1>2 DEF NoSes
  <1>4. ~(svr_ses'[e.ses].id = svr_id_start' /\ svr_id_start' # svr_id_start)
    BY DEF FreshIds
  <1>5. svr_ses'[e.ses].id = svr_ses[e.ses].id /\ svr_ses'[e.ses].clt = svr_ses[e.ses].clt
    BY <1>2, <1>3, <1>4 DEF Moves
  <1>6. QED
    BY <1>5 DEF Linked

LEMMA TakeKeeps ==
  ASSUME NEW P, NEW A, JobHeld(P, A), NEW t \in Thread, Take(t)
  PROVE  JobHeld(P, A)' /\ InJob' \subseteq InJob
  <1>1. job.requests \in Seq(Entry(P)) /\ job.requests # <<>>
    BY DEF JobHeld, Take
  <1>2. /\ Head(job.requests) \in Entry(P) /\ Tail(job.requests) \in Seq(Entry(P))
        /\ Len(Tail(job.requests)) = Len(job.requests) - 1
        /\ \A i \in 1..Len(Tail(job.requests)) : Tail(job.requests)[i] = job.requests[i + 1]
    BY <1>1, HeadTailProperties
  <1>3. <<Head(job.requests)>> \in Seq(Entry(P))
    BY <1>2
  <1>4. JobHeld(P, A)'
    BY <1>2, <1>3 DEF JobHeld, Take
  <1>5. /\ job'.requests = Tail(job.requests) /\ job'.replies = job.replies
        /\ job'.running = [job.running EXCEPT ![t] = <<Head(job.requests)>>]
    BY DEF JobHeld, Take
  <1>6. ToSet(Tail(job.requests)) \subseteq ToSet(job.requests)
    <2>1. DOMAIN job.requests = 1..Len(job.requests) /\ Len(job.requests) \in Nat
      BY <1>1, LenProperties
    <2>2. DOMAIN Tail(job.requests) = 1..Len(Tail(job.requests))
      BY <1>2, LenProperties
    <2>3. QED
      BY <1>2, <2>1, <2>2 DEF ToSet
  <1>7. Head(job.requests) \in ToSet(job.requests)
    <2>1. Head(job.requests) = job.requests[1] /\ 1 \in DOMAIN job.requests
      BY <1>1, EmptySeq, LenProperties
    <2>2. QED
      BY <2>1 DEF ToSet
  <1>8. ASSUME NEW u \in Thread, job'.running[u] # <<>>
        PROVE  job'.running[u][1] \in Pending
    <2>1. CASE u = t
      <3>1. job'.running[u] = <<Head(job.requests)>>
        BY <1>5, <2>1 DEF JobHeld
      <3>2. QED
        BY <1>7, <3>1 DEF Pending
    <2>2. CASE u # t
      BY <1>5, <1>8, <2>2 DEF JobHeld, Pending, Running
    <2>3. QED
      BY <2>1, <2>2
  <1>9. QED
    BY <1>4, <1>5, <1>6, <1>8 DEF InJob, Pending, Running

LEMMA DoneKeeps ==
  ASSUME NEW P, NEW A, JobHeld(P, A), NEW t \in Thread, NEW f \in Found(P, A),
         f.entry = job.running[t][1], Done(t, f)
  PROVE  JobHeld(P, A)' /\ InJob' \subseteq InJob
  <1>1. /\ job'.requests = job.requests /\ job'.replies = Append(job.replies, f)
        /\ job'.running = [job.running EXCEPT ![t] = <<>>]
    BY DEF JobHeld, Done
  <1>2. job.replies \in Seq(Found(P, A))
    BY DEF JobHeld
  <1>3. /\ Append(job.replies, f) \in Seq(Found(P, A))
        /\ Len(Append(job.replies, f)) = Len(job.replies) + 1
        /\ \A i \in 1..Len(job.replies) : Append(job.replies, f)[i] = job.replies[i]
        /\ Append(job.replies, f)[Len(job.replies) + 1] = f
    BY <1>2, AppendProperties
  <1>4. <<>> \in Seq(Entry(P))
    BY EmptySeq
  <1>5. JobHeld(P, A)'
    BY <1>3, <1>4 DEF JobHeld, Done
  <1>6. f.entry \in Pending
    BY DEF Pending, Running, Done
  <1>7. ASSUME NEW i \in DOMAIN job'.replies
        PROVE  job'.replies[i].entry \in InJob
    <2>1. i \in 1..(Len(job.replies) + 1) /\ Len(job.replies) \in Nat
      BY <1>1, <1>2, <1>3, LenProperties
    <2>2. CASE i = Len(job.replies) + 1
      BY <1>1, <1>3, <1>6, <2>2 DEF InJob
    <2>3. CASE i \in 1..Len(job.replies)
      <3>1. job'.replies[i] = job.replies[i] /\ i \in DOMAIN job.replies
        BY <1>1, <1>2, <1>3, <2>3, LenProperties
      <3>2. QED
        BY <3>1 DEF InJob
    <2>4. QED
      BY <2>1, <2>2, <2>3
  <1>8. ASSUME NEW u \in Thread, job'.running[u] # <<>>
        PROVE  job'.running[u][1] \in Pending
    BY <1>1, <1>8 DEF JobHeld, Pending, Running
  <1>9. QED
    BY <1>1, <1>5, <1>7, <1>8 DEF InJob, Pending, Running

LEMMA ReplyKeeps ==
  ASSUME NEW P, NEW A, JobHeld(P, A), Reply
  PROVE  JobHeld(P, A)' /\ InJob' \subseteq InJob
  <1>1. job.replies \in Seq(Found(P, A)) /\ job.replies # <<>>
    BY DEF JobHeld, Reply
  <1>2. /\ Tail(job.replies) \in Seq(Found(P, A))
        /\ Len(Tail(job.replies)) = Len(job.replies) - 1
        /\ \A i \in 1..Len(Tail(job.replies)) : Tail(job.replies)[i] = job.replies[i + 1]
    BY <1>1, HeadTailProperties
  <1>3. JobHeld(P, A)'
    BY <1>2 DEF JobHeld, Reply
  <1>4. /\ job'.requests = job.requests /\ job'.running = job.running
        /\ job'.replies = Tail(job.replies)
    BY DEF JobHeld, Reply
  <1>5. ASSUME NEW i \in DOMAIN job'.replies
        PROVE  job'.replies[i].entry \in InJob
    <2>1. i \in 1..Len(Tail(job.replies)) /\ Len(job.replies) \in Nat
          /\ DOMAIN job.replies = 1..Len(job.replies)
      BY <1>1, <1>2, <1>4, LenProperties
    <2>2. i + 1 \in DOMAIN job.replies /\ job'.replies[i] = job.replies[i + 1]
      BY <1>2, <1>4, <2>1
    <2>3. QED
      BY <2>2 DEF InJob
  <1>6. QED
    BY <1>3, <1>4, <1>5 DEF InJob, Pending, Running

LEMMA AddKeeps ==
  ASSUME NEW P, NEW A, JobHeld(P, A), NEW e \in Entry(P), nw_job_add(<<e>>)
  PROVE  JobHeld(P, A)' /\ InJob' \subseteq InJob \cup {e}
  <1>1. job.requests \in Seq(Entry(P)) /\ <<e>> \in Seq(Entry(P)) /\ Len(<<e>>) = 1
    BY DEF JobHeld
  <1>2. /\ job.requests \o <<e>> \in Seq(Entry(P))
        /\ Len(job.requests \o <<e>>) = Len(job.requests) + 1
        /\ \A i \in 1..(Len(job.requests) + 1) : (job.requests \o <<e>>)[i] =
               IF i <= Len(job.requests) THEN job.requests[i] ELSE <<e>>[i - Len(job.requests)]
    BY <1>1, ConcatProperties
  <1>3. JobHeld(P, A)'
    BY <1>2 DEF JobHeld, nw_job_add
  <1>4. /\ job'.requests = job.requests \o <<e>> /\ job'.replies = job.replies
        /\ job'.running = job.running
    BY DEF JobHeld, nw_job_add
  <1>5. ASSUME NEW i \in DOMAIN (job.requests \o <<e>>)
        PROVE  (job.requests \o <<e>>)[i] \in ToSet(job.requests) \cup {e}
    <2>1. /\ i \in 1..(Len(job.requests) + 1) /\ Len(job.requests) \in Nat
          /\ DOMAIN job.requests = 1..Len(job.requests)
      BY <1>1, <1>2, LenProperties
    <2>2. CASE i = Len(job.requests) + 1
      BY <1>2, <2>1, <2>2
    <2>3. CASE i \in 1..Len(job.requests)
      BY <1>2, <2>1, <2>3 DEF ToSet
    <2>4. QED
      BY <2>1, <2>2, <2>3
  <1>6. ToSet(job.requests \o <<e>>) \subseteq ToSet(job.requests) \cup {e}
    BY <1>5 DEF ToSet
  <1>7. QED
    BY <1>3, <1>4, <1>6 DEF InJob, Pending, Running

LEMMA EmptyJob ==
  ASSUME NEW P, NEW A
  PROVE  /\ Recreated => JobHeld(P, A)' /\ InJob' = {}
         /\ nw_job_create => JobHeld(P, A) /\ InJob = {}
  <1> DEFINE none == [requests |-> <<>>, running |-> [t \in Thread |-> <<>>],
                      replies |-> <<>>, pipe |-> FALSE, reading |-> FALSE, shutdown |-> FALSE]
  <1>1. <<>> \in Seq(Entry(P)) /\ <<>> \in Seq(Found(P, A)) /\ ToSet(<<>>) = {}
    BY EmptySeq DEF ToSet
  <1>2. ASSUME Recreated PROVE JobHeld(P, A)' /\ InJob' = {}
    <2>1. job' = none
      BY <1>2 DEF Recreated
    <2>2. JobHeld(P, A)'
      BY <1>1, <2>1 DEF JobHeld
    <2>3. /\ ToSet(job'.requests) = {} /\ DOMAIN job'.replies = {}
          /\ \A t \in Thread : job'.running[t] = <<>>
      BY <1>1, <2>1
    <2>4. QED
      BY <2>2, <2>3 DEF InJob, Pending, Running
  <1>3. ASSUME nw_job_create PROVE JobHeld(P, A) /\ InJob = {}
    <2>1. job = none
      BY <1>3 DEF nw_job_create
    <2>2. JobHeld(P, A)
      BY <1>1, <2>1 DEF JobHeld
    <2>3. /\ ToSet(job.requests) = {} /\ DOMAIN job.replies = {}
          /\ \A t \in Thread : job.running[t] = <<>>
      BY <1>1, <2>1
    <2>4. QED
      BY <2>2, <2>3 DEF InJob, Pending, Running
  <1>4. QED
    BY <1>2, <1>3

-------------------------------------------------------------------------------
(* The server reads a request, and sends what was found.                   *)

LEMMA RecvKeeps ==
  ASSUME NEW P, NEW A, Held(P, A), JobHeld(P, A), Linked, FreshIds,
         \A c \in Clients : \A p \in P[c] : p.client = c /\ AnswerTo(p, Unavailable) \in A[c],
         NEW s \in SesSlots, svr_on_recv_pkg(s)
  PROVE  Held(P, A)' /\ JobHeld(P, A)' /\ Linked'
  <1>1. svr_ses[s].in # <<>> /\ svr_ses[s] # NoSes
    <2>1. svr_ses[s].in # <<>>
      BY DEF svr_on_recv_pkg
    <2>2. NoSes.in = <<>>
      BY DEF NoSes
    <2>3. QED
      BY <2>1, <2>2
  <1>2. PICK c \in Clients : svr_ses[s] \in SesSet(P, A, c)
    BY <1>1 DEF Held, SesHeld, SesOK
  <1>3. svr_ses[s].in \in Seq(P[c]) /\ svr_ses[s].clt = <<c>> /\ svr_ses[s].id \in Nat \ {0}
    BY <1>1, <1>2 DEF SesSet, Held, SesHeld, SesOK
  <1>4. Head(svr_ses[s].in) \in P[c] /\ Tail(svr_ses[s].in) \in Seq(P[c])
    BY <1>1, <1>3, HeadTailProperties
  <1>5. PICK pkg \in P[c] : pkg = Head(svr_ses[s].in)
    BY <1>4
  <1>6. PICK now \in SesSet(P, A, c) : /\ now = [svr_ses[s] EXCEPT !.in = Tail(@)]
                                       /\ now.id = svr_ses[s].id /\ now.clt = svr_ses[s].clt
    <2> DEFINE new == [svr_ses[s] EXCEPT !.in = Tail(svr_ses[s].in)]
    <2>1. new \in SesSet(P, A, c) /\ new.id = svr_ses[s].id /\ new.clt = svr_ses[s].clt
      BY <1>2, <1>4 DEF SesSet
    <2>2. QED
      BY <2>1
  <1>7. QueueHeld(P, A)' /\ svr_id_start' \in Nat
    BY DEF svr_on_recv_pkg, Held, QueueHeld
  <1>8. CASE svr_close_clt(s, clt) /\ UNCHANGED job
    <2>1. CltsHeld(P, A)' /\ SesHeld(P, A)' /\ Moves
      BY <1>1, <1>8, EndKeeps
    <2>2. JobHeld(P, A)' /\ InJob' = InJob
      BY <1>8 DEF JobHeld, InJob, Pending, Running
    <2>3. QED
      BY <1>7, <2>1, <2>2, LinkedKeeps DEF Held
  <1>9. CASE svr_send(s, AnswerTo(pkg, Unavailable), now) /\ UNCHANGED job
    <2>1. CltsHeld(P, A)' /\ SesHeld(P, A)' /\ Moves
      <3>1. AnswerTo(pkg, Unavailable) \in A[c]
        BY <1>5
      <3>2. QED
        BY <1>1, <1>6, <1>9, <3>1, SvrSendKeeps
    <2>2. JobHeld(P, A)' /\ InJob' = InJob
      BY <1>9 DEF JobHeld, InJob, Pending, Running
    <2>3. QED
      BY <1>7, <2>1, <2>2, LinkedKeeps DEF Held
  <1>10. CASE /\ nw_job_add(<<[ses |-> s, ses_id |-> svr_ses[s].id, pkg |-> pkg]>>)
              /\ svr_ses' = [svr_ses EXCEPT ![s] = now] /\ UNCHANGED clt
    <2>1. PICK e : e = [ses |-> s, ses_id |-> svr_ses[s].id, pkg |-> pkg]
      OBVIOUS
    <2>2. e \in Entry(P)
      BY <1>3, <1>5, <2>1 DEF Entry
    <2>3. JobHeld(P, A)' /\ InJob' \subseteq InJob \cup {e}
      BY <1>10, <2>1, <2>2, AddKeeps
    <2>4. SesHeld(P, A)' /\ CltsHeld(P, A)'
      BY <1>3, <1>6, <1>10 DEF Held, SesHeld, SesOK, CltsHeld
    <2>5. \A u \in SesSlots : svr_ses'[u].id = svr_ses[u].id /\ svr_ses'[u].clt = svr_ses[u].clt
      BY <1>6, <1>10 DEF Held, SesHeld
    <2>6. Linked'
      <3> SUFFICES ASSUME NEW d \in InJob', svr_ses'[d.ses].id = d.ses_id
                   PROVE  svr_ses'[d.ses].clt = <<d.pkg.client>>
        BY DEF Linked
      <3>1. CASE d = e
        BY <1>3, <1>5, <2>1, <2>5, <3>1
      <3>2. CASE d \in InJob
        <4>1. d.ses \in SesSlots
          BY <3>2, InJobTyped DEF Entry
        <4>2. QED
          BY <2>5, <3>2, <4>1 DEF Linked
      <3>3. QED
        BY <2>3, <3>1, <3>2
    <2>7. QED
      BY <1>7, <2>3, <2>4, <2>6 DEF Held
  <1>11. QED
    BY <1>5, <1>6, <1>8, <1>9, <1>10 DEF svr_on_recv_pkg

LEMMA FinishKeeps ==
  ASSUME NEW P, NEW A, Held(P, A), JobHeld(P, A), Linked, FreshIds,
         \A c \in Clients : \A p \in P[c] : p.client = c, on_job_finish
  PROVE  Held(P, A)' /\ JobHeld(P, A)' /\ Linked'
  <1>1. JobHeld(P, A)' /\ InJob' \subseteq InJob
    BY ReplyKeeps DEF on_job_finish
  <1>2. QueueHeld(P, A)' /\ svr_id_start' \in Nat
    BY DEF on_job_finish, Held, QueueHeld
  <1>3. CltsHeld(P, A)' /\ SesHeld(P, A)' /\ Moves
    <2>1. CASE UNCHANGED <<clt, svr_ses>>
      BY <2>1 DEF Held, CltsHeld, SesHeld, SesOK, Moves
    <2>2. ASSUME NEW done, done = Head(job.replies), AskerSession(done.entry), done.reply # <<>>,
                 svr_send(done.entry.ses, AnswerTo(done.entry.pkg, done.reply[1]),
                          svr_ses[done.entry.ses])
          PROVE  CltsHeld(P, A)' /\ SesHeld(P, A)' /\ Moves
      <3>1. job.replies \in Seq(Found(P, A)) /\ job.replies # <<>>
        BY DEF JobHeld, on_job_finish, Reply
      <3>2. done \in Found(P, A)
        BY <2>2, <3>1, HeadTailProperties
      <3>3. done.entry \in InJob
        <4>1. done = job.replies[1] /\ 1 \in DOMAIN job.replies
          BY <2>2, <3>1, EmptySeq, LenProperties
        <4>2. QED
          BY <4>1 DEF InJob
      <3>4. PICK s \in SesSlots : s = done.entry.ses
        BY <3>2 DEF Found, Entry
      <3>5. PICK c \in Clients : done.entry.pkg \in P[c]
        BY <3>2 DEF Found, Entry
      <3>6. done.entry.pkg.client = c
        BY <3>5
      <3>7. svr_ses[s].id # 0 /\ svr_ses[s].clt = <<c>>
        BY <2>2, <3>2, <3>3, <3>4, <3>6 DEF Linked, AskerSession, Found, Entry
      <3>8. svr_ses[s] # NoSes
        BY <3>7 DEF NoSes
      <3>9. svr_ses[s] \in SesSet(P, A, c)
        BY <3>7, <3>8 DEF Held, SesHeld, SesOK, SesSet
      <3>10. AnswerTo(done.entry.pkg, done.reply[1]) \in A[c]
        BY <2>2, <3>2, <3>6 DEF Found
      <3>11. PICK a \in A[c] : a = AnswerTo(done.entry.pkg, done.reply[1])
        BY <3>10
      <3>12. PICK now \in SesSet(P, A, c) : now = svr_ses[s]
        BY <3>9
      <3>13. svr_send(s, a, now)
        BY <2>2, <3>4, <3>11, <3>12
      <3>14. now.id = svr_ses[s].id /\ now.clt = svr_ses[s].clt
        BY <3>12
      <3>15. QED
        BY <3>8, <3>13, <3>14, SvrSendKeeps
    <2>3. QED
      BY <2>1, <2>2 DEF on_job_finish
  <1>4. QED
    BY <1>1, <1>2, <1>3, LinkedKeeps DEF Held

-------------------------------------------------------------------------------
(* Pages.  Of rows with distinct ids each place is had: a page that is not *)
(* full has everything from its first place on.                            *)

LEMMA AboveIs ==
  ASSUME NEW R, R \subseteq AllRows
  PROVE  /\ IsFiniteSet(R)
         /\ \A r : IsFiniteSet(Above(R, r)) /\ Cardinality(Above(R, r)) \in Nat
  <1>1. IsFiniteSet(R)
    BY FS_Subset, ReaderAssumption
  <1>2. \A r : Above(R, r) \subseteq R
    BY DEF Above
  <1>3. QED
    BY <1>1, <1>2, FS_Subset, FS_CardinalityType

LEMMA AboveGrows ==
  ASSUME NEW R, NEW T, R \subseteq T, T \subseteq AllRows, NEW r
  PROVE  Cardinality(Above(R, r)) <= Cardinality(Above(T, r))
  <1>1. Above(R, r) \subseteq Above(T, r)
    BY DEF Above
  <1>2. IsFiniteSet(Above(T, r))
    BY AboveIs
  <1>3. QED
    BY <1>1, <1>2, FS_Subset

(* The row n above r that is next to it has one row less above it.         *)
LEMMA NextAbove ==
  ASSUME NEW R, R \subseteq AllRows, NEW r \in R, NEW n \in Above(R, r),
         \A m \in Above(R, r) : n.id <= m.id
  PROVE  Cardinality(Above(R, r)) = Cardinality(Above(R, n)) + 1
  <1>1. n \in R /\ r.id \in Nat /\ n.id \in Nat /\ n.id > r.id
    BY ReaderAssumption DEF Above
  <1>2. \A m \in R : m.id \in Nat
    BY ReaderAssumption
  <1>3. n \notin Above(R, n)
    BY <1>1 DEF Above
  <1>4. Above(R, r) = Above(R, n) \cup {n}
    <2>1. ASSUME NEW m \in Above(R, r), m # n
          PROVE  m \in Above(R, n)
      <3>1. m \in R /\ m.id \in Nat /\ n.id <= m.id
        BY <1>2 DEF Above
      <3>2. m.id # n.id
        BY <1>1, <2>1, <3>1, ReaderAssumption
      <3>3. m.id > n.id
        BY <1>1, <3>1, <3>2
      <3>4. QED
        BY <3>1, <3>3 DEF Above
    <2>2. ASSUME NEW m \in Above(R, n)
          PROVE  m \in Above(R, r)
      BY <1>1, <1>2 DEF Above
    <2>3. QED
      BY <2>1, <2>2
  <1>5. IsFiniteSet(Above(R, n))
    BY AboveIs
  <1>6. QED
    BY <1>3, <1>4, <1>5, FS_AddElement

LEMMA Least ==
  ASSUME NEW S, S \subseteq Nat, S # {}
  PROVE  \E n \in S : \A m \in S : n <= m
  <1>1. PICK n \in S : \A m \in S : ~ (<<m, n>> \in OpToRel(<, Nat))
    BY WFMin, NatLessThanWellFounded
  <1>2. \A m \in S : ~ (m < n)
    BY <1>1 DEF OpToRel
  <1>3. QED
    BY <1>2

LEMMA EveryPlace ==
  ASSUME NEW R, R \subseteq AllRows, NEW k \in Nat, NEW r \in R,
         Cardinality(Above(R, r)) >= k
  PROVE  \E n \in R : Cardinality(Above(R, n)) = k
  <1> DEFINE places == {Cardinality(Above(R, n)) : n \in R}
             T == {i \in places : i >= k}
  <1>1. T \subseteq Nat /\ T # {}
    BY AboveIs
  <1>2. PICK i \in T : \A j \in T : i <= j
    <2> HIDE DEF T
    <2>1. QED
      BY <1>1, Least
  <1>3. PICK n \in R : i = Cardinality(Above(R, n))
    OBVIOUS
  <1>4. CASE i = k
    BY <1>3, <1>4
  <1>5. CASE i # k
    <2>1. i > k /\ i \in Nat
      BY <1>1, <1>5
    <2>2. Above(R, n) # {}
      BY <1>3, <2>1, FS_EmptySet
    <2>3. PICK m \in Above(R, n) : \A l \in Above(R, n) : m.id <= l.id
      <3> DEFINE ids == {l.id : l \in Above(R, n)}
      <3>1. ids \subseteq Nat /\ ids # {}
        BY <2>2, ReaderAssumption DEF Above
      <3>2. PICK id \in ids : \A j \in ids : id <= j
        <4> HIDE DEF ids
        <4>1. QED
          BY <3>1, Least
      <3>3. QED
        BY <3>2
    <2>4. i = Cardinality(Above(R, m)) + 1 /\ Cardinality(Above(R, m)) \in Nat
      BY <1>3, <2>3, NextAbove, AboveIs
    <2>5. m \in R
      BY DEF Above
    <2>6. Cardinality(Above(R, m)) \in T
      BY <2>1, <2>4, <2>5
    <2>7. QED
      BY <1>2, <2>4, <2>6
  <1>6. QED
    BY <1>4, <1>5

LEMMA PageIs ==
  ASSUME NEW R, R \subseteq AllRows, NEW offset \in Nat, PageSize > 0
  PROVE  /\ Page(R, offset, PageSize) \subseteq R
         /\ \A r \in R : Cardinality(Above(R, r)) < offset + PageSize =>
                Cardinality(Above(R, r)) < offset \/ r \in Page(R, offset, PageSize)
         /\ Cardinality(Page(R, offset, PageSize)) < PageSize =>
                \A r \in R : Cardinality(Above(R, r)) < offset + PageSize
  <1> DEFINE S == Page(R, offset, PageSize)
             K == offset..(offset + PageSize - 1)
  <1>1. PageSize \in Nat
    BY ReaderAssumption
  <1>2. S = {r \in R : Cardinality(Above(R, r)) \in K}
    BY DEF Page, Above
  <1>3. \A r \in R : Cardinality(Above(R, r)) \in Nat
    BY AboveIs
  <1>4. ASSUME NEW r \in R, Cardinality(Above(R, r)) >= offset + PageSize
        PROVE  Cardinality(S) >= PageSize
    <2>1. \A k \in K : \E n \in R : Cardinality(Above(R, n)) = k
      <3> TAKE k \in K
      <3>1. k \in Nat /\ Cardinality(Above(R, r)) >= k
        BY <1>1, <1>3, <1>4
      <3>2. QED
        BY <3>1, EveryPlace
    <2> DEFINE f == [k \in K |-> CHOOSE n \in R : Cardinality(Above(R, n)) = k]
    <2>2. \A k \in K : f[k] \in R /\ Cardinality(Above(R, f[k])) = k
      BY <2>1
    <2>3. f \in Injection(K, S)
      <3>1. f \in [K -> S]
        BY <1>2, <2>2
      <3>2. \A i, j \in K : f[i] = f[j] => i = j
        BY <2>2
      <3>3. QED
        BY <3>1, <3>2 DEF Injection, IsInjective
    <2>4. IsFiniteSet(S)
      <3>1. IsFiniteSet(R) /\ S \subseteq R
        BY <1>2, AboveIs
      <3>2. QED
        BY <3>1, FS_Subset
    <2>5. Cardinality(K) <= Cardinality(S)
      BY <2>3, <2>4, FS_Injection
    <2>6. Cardinality(K) = PageSize
      <3>1. offset \in Int /\ offset + PageSize - 1 \in Int
        BY <1>1
      <3>2. Cardinality(K) = IF offset > offset + PageSize - 1 THEN 0
                             ELSE (offset + PageSize - 1) - offset + 1
        BY <3>1, FS_Interval
      <3>3. QED
        BY <1>1, <3>2
    <2>7. Cardinality(S) \in Nat
      BY <2>4, FS_CardinalityType
    <2>8. QED
      BY <1>1, <2>5, <2>6, <2>7
  <1>5. IsFiniteSet(S) /\ Cardinality(S) \in Nat
    <2>1. IsFiniteSet(R) /\ S \subseteq R
      BY <1>2, AboveIs
    <2>2. QED
      BY <2>1, FS_Subset, FS_CardinalityType
  <1>6. Cardinality(S) < PageSize => \A r \in R : Cardinality(Above(R, r)) < offset + PageSize
    BY <1>1, <1>3, <1>4, <1>5
  <1>7. \A r \in R : Cardinality(Above(R, r)) < offset + PageSize =>
                Cardinality(Above(R, r)) < offset \/ r \in S
    BY <1>1, <1>2, <1>3
  <1>8. QED
    BY <1>2, <1>6, <1>7

-------------------------------------------------------------------------------
(* The requests that wait, and the pages that were had.                    *)

ContextsInv ==
    /\ asks = [c \in Clients |-> asks[c]]
    /\ state_context = [c \in Clients |-> state_context[c]]
    /\ \A c \in Clients :
          /\ asks[c] \in 0..MaxAsks[c]
          /\ state_context[c] = [id_start |-> IF asks[c] = 0 THEN UINT_MAX ELSE asks[c],
                                 entries |-> state_context[c].entries]
          /\ \A e \in state_context[c].entries : e.id \in 1..asks[c]

PagesInv ==
    /\ rows \in [Tables -> SUBSET AllRows]
    /\ page \in [Clients -> [offset : Nat, got : SUBSET AllRows, first : SUBSET AllRows,
                             done : BOOLEAN]]
    /\ \A c \in Pagers :
          /\ page[c].first \subseteq Table
          /\ \A r \in page[c].first :
                Cardinality(Above(Table, r)) < page[c].offset => r \in page[c].got
          /\ page[c].done => page[c].first \subseteq page[c].got
          /\ asks[c] = 0 => page[c].offset = 0

ReaderInv ==
    /\ ContextsInv /\ PagesInv
    /\ Held(Asked, Answers) /\ JobHeld(Asked, Answers) /\ Linked

(* The ids given are 1, 2, 3 and so on.                                    *)
LEMMA NewId ==
  ASSUME ContextsInv, NEW c \in Clients, asks[c] < MaxAsks[c], NEW q
  PROVE  nw_state_add(state_context[c], UINT_MAX, q) =
            [id_start |-> asks[c] + 1,
             entries |-> state_context[c].entries \cup {[id |-> asks[c] + 1, data |-> q]}]
  <1> DEFINE n == asks[c] + 1
             context == state_context[c]
             free == {i \in 1..UINT_MAX : nw_state_get(context, i) = {}}
             later == {i \in free : i > context.id_start}
             S == IF later = {} THEN free ELSE later
  <1>1. /\ UINT_MAX \in Nat /\ MaxAsks[c] \in 0..UINT_MAX /\ asks[c] \in 0..MaxAsks[c]
        /\ \A e \in context.entries : e.id \in 1..asks[c]
        /\ context.id_start = IF asks[c] = 0 THEN UINT_MAX ELSE asks[c]
    BY ReaderAssumption DEF ContextsInv
  <1>2. n \in 1..UINT_MAX
    BY <1>1
  <1>3. nw_state_get(context, n) = {}
    BY <1>1 DEF nw_state_get
  <1>4. n \in free
    BY <1>2, <1>3
  <1>5. n \in S /\ \A i \in S : n <= i
    <2>1. CASE asks[c] = 0
      <3>1. later = {}
        BY <1>1, <2>1
      <3>2. QED
        BY <1>4, <2>1, <3>1
    <2>2. CASE asks[c] # 0
      <3>1. n \in later
        BY <1>1, <1>4, <2>2
      <3>2. \A i \in later : n <= i
        BY <1>1, <2>2
      <3>3. QED
        BY <3>1, <3>2
    <2>3. QED
      BY <2>1, <2>2
  <1>6. S \subseteq Nat
    BY <1>1
  <1>7. Min(S) = n
    <2> HIDE DEF S, n
    <2>1. \A i \in S : (\A j \in S : i <= j) => i = n
      <3> TAKE i \in S
      <3> HAVE \A j \in S : i <= j
      <3>1. i <= n /\ n <= i /\ i \in Nat /\ n \in Nat
        BY <1>5, <1>6
      <3>2. QED
        BY <3>1
    <2>2. QED
      BY <1>5, <2>1 DEF Min
  <1>8. get_available_id(context, UINT_MAX) = n
    BY <1>7 DEF get_available_id
  <1>9. QED
    BY <1>8 DEF nw_state_add

LEMMA AskedGrows ==
  ASSUME NEW c \in Clients, asks[c] \in Nat, asks'[c] \in Nat, asks[c] <= asks'[c],
         Askable(c) \subseteq Askable(c)',
         \A e \in state_context'[c].entries :
            e.id \in 1..asks[c] => e \in state_context[c].entries
  PROVE  Asked[c] \subseteq Asked'[c]
  <1> SUFFICES ASSUME NEW p \in Asked[c] PROVE p \in Asked'[c]
    OBVIOUS
  <1>1. /\ p \in [sequence : 1..asks[c], client : {c}, request : Askable(c)]
        /\ \A e \in state_context[c].entries : e.id = p.sequence => e.data = p.request
    BY DEF Asked
  <1>2. p \in [sequence : 1..asks'[c], client : {c}, request : Askable(c)']
    BY <1>1
  <1>3. \A e \in state_context'[c].entries : e.id = p.sequence => e.data = p.request
    BY <1>1
  <1>4. QED
    BY <1>2, <1>3 DEF Asked

LEMMA AskedIs ==
  ASSUME NEW c \in Clients, NEW p \in Asked[c]
  PROVE  /\ p.client = c /\ p.sequence \in 1..asks[c] /\ p.request \in Askable(c)
         /\ p.client \in Pagers => \E offset \in 0..page[c].offset :
               p.request = PageFrom(offset) /\ p.request.offset = offset
         /\ \A e \in state_context[c].entries : e.id = p.sequence => e.data = p.request
  BY DEF Asked, Askable, PageFrom

LEMMA AnswersGrow ==
  ASSUME NEW c \in Clients, Asked[c] \subseteq Asked'[c],
         c \in Pagers => \A S : \A offset \in 0..page[c].offset :
            /\ asks[c] # 0 /\ offset = page'[c].offset
            /\ offset = page[c].offset => Fills(c, S)
            => Fills(c, S)'
  PROVE  Answers[c] \subseteq Answers'[c]
  <1> SUFFICES ASSUME NEW a \in Answers[c] PROVE a \in Answers'[c]
    OBVIOUS
  <1>1. /\ a \in [sequence : Nat, reply : Replies, to : Asked[c]]
        /\ a.sequence = a.to.sequence /\ Honest(a.to, a.reply)
    BY DEF Answers
  <1>2. a \in [sequence : Nat, reply : Replies, to : Asked'[c]]
    BY <1>1
  <1>3. a.to.client = c /\ a.to.sequence \in 1..asks[c]
    BY <1>1, AskedIs
  <1>4. ASSUME c \in Pagers, a.reply.code = 0, a.to.request.offset = page'[c].offset
        PROVE  Fills(c, a.reply.result)'
    <2>1. a.to.request.offset \in 0..page[c].offset
      BY <1>1, <1>3, <1>4, AskedIs
    <2>2. a.to.request.offset = page[c].offset => Fills(c, a.reply.result)
      BY <1>1, <1>3, <1>4 DEF Honest
    <2>3. asks[c] # 0
      BY <1>3
    <2>4. PICK S : S = a.reply.result
      OBVIOUS
    <2>5. Fills(c, S)'
      BY <1>4, <2>1, <2>2, <2>3, <2>4
    <2>6. QED
      BY <2>4, <2>5
  <1>5. Honest(a.to, a.reply)'
    BY <1>3, <1>4 DEF Honest
  <1>6. QED
    BY <1>1, <1>2, <1>5 DEF Answers

LEMMA FillsStands ==
  ASSUME NEW c \in Clients, page'[c] = page[c], Table \subseteq Table', Table' \subseteq AllRows,
         page[c].offset \in Nat, NEW S, Fills(c, S)
  PROVE  Fills(c, S)'
  <1>1. PICK R, T : R = Table /\ T = Table'
    OBVIOUS
  <1>2. R \subseteq T /\ T \subseteq AllRows /\ R \subseteq AllRows
    BY <1>1
  <1>3. ASSUME NEW r \in page[c].first, Cardinality(Above(T, r)) < page[c].offset + PageSize
        PROVE  r \in page[c].got \cup S
    <2>1. /\ Cardinality(Above(R, r)) <= Cardinality(Above(T, r))
          /\ Cardinality(Above(R, r)) \in Nat /\ Cardinality(Above(T, r)) \in Nat
      BY <1>2, AboveGrows, AboveIs
    <2>2. Cardinality(Above(R, r)) < page[c].offset + PageSize
      BY <1>3, <2>1, ReaderAssumption
    <2>3. QED
      BY <1>1, <2>2 DEF Fills
  <1>4. QED
    BY <1>1, <1>3 DEF Fills

Grows == \A c \in Clients : Asked[c] \subseteq Asked'[c] /\ Answers[c] \subseteq Answers'[c]

LEMMA SameGrows ==
  ASSUME ContextsInv, PagesInv, UNCHANGED <<rows, state_context, asks, page>>
  PROVE  ContextsInv' /\ PagesInv' /\ Grows /\ Asked' = Asked /\ Answers' = Answers
  <1>1. Table' = Table
    BY DEF Table, finished_orders
  <1>2. ContextsInv' /\ PagesInv'
    BY <1>1 DEF ContextsInv, PagesInv
  <1>3. Asked' = Asked
    BY DEF Asked, Askable
  <1>4. Answers' = Answers
    BY <1>1, <1>3 DEF Answers, Honest, Fills
  <1>5. QED
    BY <1>2, <1>3, <1>4 DEF Grows

LEMMA TableTyped ==
  ASSUME PagesInv
  PROVE  Table \subseteq AllRows
  BY DEF PagesInv, Table, finished_orders, Tables

LEMMA AskStep ==
  ASSUME ContextsInv, PagesInv, NEW c \in Clients, NEW q \in Requests(c), on_request(c, q)
  PROVE  /\ ContextsInv' /\ PagesInv' /\ Grows
         /\ \E pkg \in Asked'[c] : nw_ses_send(c, pkg)
  <1> DEFINE n == asks[c] + 1
             new == [id |-> n, data |-> q]
             pkg == [sequence |-> n, client |-> c, request |-> q]
  <1>1. /\ asks[c] < MaxAsks[c] /\ asks' = [asks EXCEPT ![c] = n]
        /\ rows' = rows
    BY DEF on_request
  <1>2. /\ asks[c] \in Nat /\ n \in Nat /\ n \in 1..MaxAsks[c] /\ n \in 1..n
        /\ asks'[c] = n /\ MaxAsks[c] \in Nat
    BY <1>1, ReaderAssumption DEF ContextsInv
  <1>3. /\ state_context' = [state_context EXCEPT ![c] =
              [id_start |-> n, entries |-> state_context[c].entries \cup {new}]]
        /\ nw_ses_send(c, pkg)
    <2>1. nw_state_add(state_context[c], UINT_MAX, q) =
              [id_start |-> n, entries |-> state_context[c].entries \cup {new}]
      BY <1>1, NewId
    <2>2. PICK context : context = nw_state_add(state_context[c], UINT_MAX, q)
      OBVIOUS
    <2>3. /\ state_context' = [state_context EXCEPT ![c] = context]
          /\ nw_ses_send(c, [sequence |-> context.id_start, client |-> c, request |-> q])
      BY <2>2 DEF on_request
    <2>4. context.id_start = n
      BY <2>1, <2>2
    <2>5. QED
      BY <2>1, <2>2, <2>3, <2>4
  <1>4. page' = IF c \in Pagers /\ asks[c] = 0
                THEN [page EXCEPT ![c].first = finished_orders(q)] ELSE page
    BY DEF on_request
  <1>5. q = PageFrom(page[c].offset) \/ c \notin Pagers
    BY DEF Requests, NextPage
  <1>6. Table' = Table /\ Table \subseteq AllRows
    BY <1>1, TableTyped DEF Table, finished_orders
  <1>7. c \in Pagers => finished_orders(q) = Table
    BY <1>5 DEF Table, finished_orders, PageFrom, Between
  <1>8. ContextsInv'
    <2>1. ASSUME NEW d \in Clients
          PROVE  /\ asks'[d] \in 0..MaxAsks[d]
                 /\ state_context'[d] = [id_start |-> IF asks'[d] = 0 THEN UINT_MAX ELSE asks'[d],
                                         entries |-> state_context'[d].entries]
                 /\ \A e \in state_context'[d].entries : e.id \in 1..asks'[d]
      <3>1. CASE d = c
        <4>1. /\ asks'[d] = n /\ state_context'[d] =
                    [id_start |-> n, entries |-> state_context[c].entries \cup {new}]
          BY <1>1, <1>3, <3>1 DEF ContextsInv
        <4>2. \A e \in state_context[c].entries : e.id \in 1..asks[c]
          BY DEF ContextsInv
        <4>3. \A e \in state_context[c].entries \cup {new} : e.id \in 1..n
          BY <1>2, <4>2
        <4>4. n # 0 /\ n \in 0..MaxAsks[c]
          BY <1>2
        <4>5. /\ state_context'[d].entries = state_context[c].entries \cup {new}
              /\ state_context'[d].id_start = n
          BY <4>1
        <4>6. state_context'[d] = [id_start |-> n, entries |-> state_context'[d].entries]
          BY <4>1, <4>5
        <4>7. QED
          BY <3>1, <4>1, <4>3, <4>4, <4>5, <4>6
      <3>2. CASE d # c
        BY <1>1, <1>3, <3>2 DEF ContextsInv
      <3>3. QED
        BY <3>1, <3>2
    <2>2. asks' = [d \in Clients |-> asks'[d]] /\ state_context' = [d \in Clients |-> state_context'[d]]
      BY <1>1, <1>3 DEF ContextsInv
    <2>3. QED
      BY <2>1, <2>2 DEF ContextsInv
  <1>9. /\ page' \in [Clients -> [offset : Nat, got : SUBSET AllRows, first : SUBSET AllRows,
                                  done : BOOLEAN]]
        /\ \A d \in Clients : /\ page'[d].offset = page[d].offset /\ page'[d].got = page[d].got
                              /\ page'[d].done = page[d].done
                              /\ d # c \/ asks[d] # 0 => page'[d] = page[d]
                              /\ d = c /\ asks[d] = 0 /\ c \in Pagers => page'[d].first = Table
    <2>1. CASE c \in Pagers /\ asks[c] = 0
      BY <1>4, <1>6, <1>7, <2>1 DEF PagesInv
    <2>2. CASE ~(c \in Pagers /\ asks[c] = 0)
      <3>1. page' = page
        BY <1>4, <2>2
      <3>2. QED
        BY <2>2, <3>1 DEF PagesInv
    <2>3. QED
      BY <2>1, <2>2
  <1>10. PagesInv'
    <2>1. ASSUME NEW d \in Pagers
          PROVE  /\ page'[d].first \subseteq Table'
                 /\ \A r \in page'[d].first :
                       Cardinality(Above(Table', r)) < page'[d].offset => r \in page'[d].got
                 /\ page'[d].done => page'[d].first \subseteq page'[d].got
                 /\ asks'[d] = 0 => page'[d].offset = 0
      <3>1. d \in Clients
        BY ReaderAssumption
      <3>2. CASE d = c /\ asks[d] = 0 /\ ~page[d].done
        <4>1. page[d].offset = 0
          BY <3>2 DEF PagesInv
        <4>2. \A r : Cardinality(Above(Table, r)) \in Nat
          BY <1>6, AboveIs
        <4>3. QED
          BY <1>2, <1>6, <1>9, <3>1, <3>2, <4>1, <4>2
      <3>3. CASE d # c \/ asks[d] # 0
        <4>1. page'[d] = page[d] /\ (asks'[d] = 0 => asks[d] = 0)
          BY <1>1, <1>2, <1>9, <3>1, <3>3 DEF ContextsInv
        <4>2. QED
          BY <1>6, <4>1 DEF PagesInv
      <3>4. CASE d = c /\ page[d].done
        BY <3>4, <1>5 DEF Requests
      <3>5. QED
        BY <3>2, <3>3, <3>4
    <2>2. rows' \in [Tables -> SUBSET AllRows]
      BY <1>1 DEF PagesInv
    <2>3. QED
      BY <1>9, <2>1, <2>2 DEF PagesInv
  <1>11. Grows
    <2>1. ASSUME NEW d \in Clients
          PROVE  Asked[d] \subseteq Asked'[d]
      <3>1. asks[d] \in Nat /\ asks'[d] \in Nat /\ asks[d] <= asks'[d]
        BY <1>1, <1>2, ReaderAssumption DEF ContextsInv
      <3>2. Askable(d) = Askable(d)'
        BY <1>9 DEF Askable
      <3>3. ASSUME NEW e \in state_context'[d].entries, e.id \in 1..asks[d]
            PROVE  e \in state_context[d].entries
        <4>1. CASE d = c
          <5>1. new.id \notin 1..asks[c]
            BY <1>2
          <5>2. state_context'[d].entries = state_context[c].entries \cup {new}
            BY <1>3, <4>1 DEF ContextsInv
          <5>3. QED
            BY <3>3, <4>1, <5>1, <5>2
        <4>2. CASE d # c
          BY <1>3, <4>2 DEF ContextsInv
        <4>3. QED
          BY <4>1, <4>2
      <3>4. QED
        BY <3>1, <3>2, <3>3, AskedGrows
    <2>2. ASSUME NEW d \in Clients
          PROVE  Answers[d] \subseteq Answers'[d]
      <3>1. ASSUME d \in Pagers, NEW S, NEW offset \in 0..page[d].offset,
                   asks[d] # 0, offset = page'[d].offset,
                   offset = page[d].offset => Fills(d, S)
            PROVE  Fills(d, S)'
        <4>1. page'[d] = page[d] /\ page[d].offset \in Nat
          BY <1>9, <3>1 DEF PagesInv
        <4>2. QED
          BY <1>6, <3>1, <4>1, FillsStands
      <3>2. QED
        BY <2>1, <3>1, AnswersGrow
    <2>3. QED
      BY <2>1, <2>2 DEF Grows
  <1>12. pkg \in Asked'[c]
    <2>1. q \in Askable(c)'
      <3>1. c \notin Pagers => Requests(c) = Others
        BY DEF Requests
      <3>2. page'[c].offset = page[c].offset /\ page[c].offset \in Nat
        BY <1>9 DEF PagesInv
      <3>3. QED
        BY <1>5, <3>1, <3>2 DEF Askable
    <2>2. pkg \in [sequence : 1..asks'[c], client : {c}, request : Askable(c)']
      BY <1>2, <2>1
    <2>3. ASSUME NEW e \in state_context'[c].entries, e.id = n
          PROVE  e.data = q
      <3>1. state_context'[c].entries = state_context[c].entries \cup {new}
        BY <1>3 DEF ContextsInv
      <3>2. \A f \in state_context[c].entries : f.id \in 1..asks[c]
        BY DEF ContextsInv
      <3>3. e \notin state_context[c].entries
        BY <1>2, <2>3, <3>2
      <3>4. QED
        BY <3>1, <3>3
    <2>4. QED
      BY <2>2, <2>3 DEF Asked
  <1>13. QED
    BY <1>3, <1>8, <1>10, <1>11, <1>12

(* A waiting entry goes, with what its answer, or its timer, does to page. *)
LEMMA EntryGoes ==
  ASSUME ContextsInv, NEW c \in Clients, NEW e \in state_context[c].entries,
         state_context' = [state_context EXCEPT ![c] = state_remove(@, e)],
         UNCHANGED asks
  PROVE  /\ ContextsInv'
         /\ \A d \in Clients : state_context'[d].entries \subseteq state_context[d].entries
  <1>1. state_context'[c] = [state_context[c] EXCEPT !.entries = @ \ {e}]
    BY DEF ContextsInv, state_remove
  <1>2. \A d \in Clients : d # c => state_context'[d] = state_context[d]
    BY DEF ContextsInv
  <1>3. /\ state_context[c] = [id_start |-> IF asks[c] = 0 THEN UINT_MAX ELSE asks[c],
                               entries |-> state_context[c].entries]
        /\ \A f \in state_context[c].entries : f.id \in 1..asks[c]
    BY DEF ContextsInv
  <1>4. /\ state_context'[c].entries = state_context[c].entries \ {e}
        /\ state_context'[c] = [id_start |-> IF asks[c] = 0 THEN UINT_MAX ELSE asks[c],
                                entries |-> state_context'[c].entries]
    BY <1>1, <1>3
  <1>5. state_context' = [d \in Clients |-> state_context'[d]]
    BY DEF ContextsInv
  <1>6. ContextsInv'
    BY <1>2, <1>3, <1>4, <1>5 DEF ContextsInv
  <1>7. QED
    BY <1>2, <1>4, <1>6

LEMMA TimeoutStep ==
  ASSUME ContextsInv, PagesInv, NEW c \in Clients, clt_on_timeout(c)
  PROVE  ContextsInv' /\ PagesInv' /\ Grows
  <1>1. UNCHANGED <<rows, asks, page>>
    BY DEF clt_on_timeout
  <1>2. PICK e \in state_context[c].entries :
            state_context' = [state_context EXCEPT ![c] = state_remove(@, e)]
    BY DEF clt_on_timeout
  <1>3. /\ ContextsInv'
        /\ \A d \in Clients : state_context'[d].entries \subseteq state_context[d].entries
    BY <1>1, <1>2, EntryGoes
  <1>4. Table' = Table /\ Table \subseteq AllRows
    BY <1>1, TableTyped DEF Table, finished_orders
  <1>5. PagesInv'
    BY <1>1, <1>4 DEF PagesInv
  <1>6. ASSUME NEW d \in Clients
        PROVE  Asked[d] \subseteq Asked'[d] /\ Answers[d] \subseteq Answers'[d]
    <2>1. asks[d] \in Nat /\ Askable(d) \subseteq Askable(d)'
      BY <1>1, ReaderAssumption DEF ContextsInv, Askable
    <2>2. Asked[d] \subseteq Asked'[d]
      BY <1>1, <1>3, <2>1, AskedGrows
    <2>3. ASSUME d \in Pagers, NEW S, NEW offset \in 0..page[d].offset,
                 asks[d] # 0, offset = page'[d].offset,
                 offset = page[d].offset => Fills(d, S)
          PROVE  Fills(d, S)'
      <3>1. page'[d] = page[d] /\ page[d].offset \in Nat
        BY <1>1 DEF PagesInv
      <3>2. QED
        BY <1>4, <2>3, <3>1, FillsStands
    <2>4. QED
      BY <2>2, <2>3, AnswersGrow
  <1>7. QED
    BY <1>3, <1>5, <1>6 DEF Grows

LEMMA CommitStep ==
  ASSUME ContextsInv, PagesInv, NEW r \in LaterRows, Commit(r)
  PROVE  ContextsInv' /\ PagesInv' /\ Grows
  <1>1. UNCHANGED <<state_context, asks, page>>
    BY DEF Commit
  <1>2. /\ rows' \in [Tables -> SUBSET AllRows]
        /\ rows["order"] \subseteq rows'["order"]
    BY DEF Commit, PagesInv, AllRows, Tables
  <1>3. Table \subseteq Table' /\ Table' \subseteq AllRows
    BY <1>2 DEF Table, finished_orders, Tables
  <1>4. PICK R, T : R = Table /\ T = Table'
    OBVIOUS
  <1>5. \A n : /\ Cardinality(Above(R, n)) <= Cardinality(Above(T, n))
               /\ Cardinality(Above(R, n)) \in Nat /\ Cardinality(Above(T, n)) \in Nat
    BY <1>3, <1>4, AboveGrows, AboveIs
  <1>6. ContextsInv'
    BY <1>1 DEF ContextsInv
  <1>7. PagesInv'
    <2>1. ASSUME NEW d \in Pagers, NEW n \in page[d].first,
                 Cardinality(Above(T, n)) < page[d].offset
          PROVE  n \in page[d].got
      <3>1. page[d].offset \in Nat
        BY ReaderAssumption DEF PagesInv
      <3>2. Cardinality(Above(R, n)) < page[d].offset
        BY <1>5, <2>1, <3>1
      <3>3. QED
        BY <1>4, <3>2 DEF PagesInv
    <2>2. QED
      BY <1>1, <1>2, <1>3, <1>4, <2>1 DEF PagesInv
  <1>8. ASSUME NEW d \in Clients
        PROVE  Asked[d] \subseteq Asked'[d] /\ Answers[d] \subseteq Answers'[d]
    <2>1. asks[d] \in Nat /\ Askable(d) \subseteq Askable(d)'
      BY <1>1, ReaderAssumption DEF ContextsInv, Askable
    <2>2. Asked[d] \subseteq Asked'[d]
      BY <1>1, <2>1, AskedGrows
    <2>3. ASSUME d \in Pagers, NEW S, NEW offset \in 0..page[d].offset,
                 asks[d] # 0, offset = page'[d].offset,
                 offset = page[d].offset => Fills(d, S)
          PROVE  Fills(d, S)'
      <3>1. page'[d] = page[d] /\ page[d].offset \in Nat
        BY <1>1 DEF PagesInv
      <3>2. QED
        BY <1>1, <1>3, <2>3, <3>1, FillsStands
    <2>4. QED
      BY <2>2, <2>3, AnswersGrow
  <1>9. QED
    BY <1>6, <1>7, <1>8 DEF Grows

LEMMA ReadStep ==
  ASSUME ContextsInv, PagesInv, CltsHeld(Asked, Answers), NEW c \in Clients, clt_on_recv_pkg(c)
  PROVE  ContextsInv' /\ PagesInv' /\ Grows
  <1>1. UNCHANGED <<rows, asks>> /\ clt[c].in # <<>>
    BY DEF clt_on_recv_pkg, ReadNext, Reads
  <1>2. PICK a \in Answers[c] : a = Head(clt[c].in)
    <2>1. clt[c].in \in Seq(Answers[c])
      BY DEF CltsHeld, CltSet
    <2>2. QED
      BY <1>1, <2>1, HeadTailProperties
  <1>3. /\ a.to \in Asked[c] /\ a.reply \in Replies /\ a.sequence = a.to.sequence
        /\ Honest(a.to, a.reply)
    BY DEF Answers
  <1>4. a.to.client = c /\ a.to.sequence \in 1..asks[c]
    BY <1>3, AskedIs
  <1>5. CASE UNCHANGED <<state_context, page>>
    BY <1>1, <1>5, SameGrows
  <1>6. CASE \E e \in nw_state_get(state_context[c], a.sequence) :
                /\ state_context' = [state_context EXCEPT ![c] = state_remove(@, e)]
                /\ page' = Turned(c, e, a.reply)
    <2>1. PICK e \in state_context[c].entries :
              /\ e.id = a.sequence
              /\ state_context' = [state_context EXCEPT ![c] = state_remove(@, e)]
              /\ page' = Turned(c, e, a.reply)
      BY <1>6 DEF nw_state_get
    <2>2. e.data = a.to.request
      BY <1>3, <2>1, AskedIs
    <2>3. /\ ContextsInv'
          /\ \A d \in Clients : state_context'[d].entries \subseteq state_context[d].entries
      BY <1>1, <2>1, EntryGoes
    <2>4. Table' = Table /\ Table \subseteq AllRows
      BY <1>1, TableTyped DEF Table, finished_orders
    <2>5. asks[c] # 0
      BY <1>4
    <2>6. /\ \A d \in Clients : d # c => page'[d] = page[d]
          /\ \/ page'[c] = page[c]
             \/ /\ c \in Pagers /\ Fills(c, a.reply.result)
                /\ page'[c] = [offset |-> page[c].offset + PageSize,
                               got |-> page[c].got \cup a.reply.result,
                               first |-> page[c].first,
                               done |-> Cardinality(a.reply.result) < PageSize]
      <3>1. CASE c \in Pagers /\ a.reply.code = 0 /\ e.data.offset = page[c].offset
        <4>1. Fills(c, a.reply.result)
          BY <1>3, <1>4, <2>2, <3>1 DEF Honest
        <4>2. page' = [page EXCEPT ![c].offset = @ + PageSize, ![c].got = @ \cup a.reply.result,
                                   ![c].done = Cardinality(a.reply.result) < PageSize]
          BY <2>1, <3>1 DEF Turned
        <4>3. page[c] \in [offset : Nat, got : SUBSET AllRows, first : SUBSET AllRows,
                           done : BOOLEAN]
          BY DEF PagesInv
        <4>4. page'[c] = [page[c] EXCEPT !.offset = page[c].offset + PageSize,
                                         !.got = page[c].got \cup a.reply.result,
                                         !.done = Cardinality(a.reply.result) < PageSize]
          BY <4>2 DEF PagesInv
        <4>5. PICK full \in BOOLEAN : full = (Cardinality(a.reply.result) < PageSize)
          <5>1. (Cardinality(a.reply.result) < PageSize) \in BOOLEAN
            OBVIOUS
          <5>2. QED
            BY <5>1, Zenon
        <4>6. page'[c] = [offset |-> page[c].offset + PageSize,
                          got |-> page[c].got \cup a.reply.result,
                          first |-> page[c].first, done |-> full]
          BY <4>3, <4>4, <4>5
        <4>7. \A d \in Clients : d # c => page'[d] = page[d]
          BY <4>2 DEF PagesInv
        <4>8. QED
          BY <3>1, <4>1, <4>5, <4>6, <4>7
      <3>2. CASE ~(c \in Pagers /\ a.reply.code = 0 /\ e.data.offset = page[c].offset)
        BY <2>1, <3>2 DEF Turned
      <3>3. QED
        BY <3>1, <3>2
    <2>7. DOMAIN page' = Clients /\ page' = [d \in Clients |-> page'[d]]
      BY <2>1 DEF Turned, PagesInv
    <2>8. ASSUME NEW d \in Clients
          PROVE  page'[d] \in [offset : Nat, got : SUBSET AllRows, first : SUBSET AllRows,
                               done : BOOLEAN]
      <3>1. page[d] \in [offset : Nat, got : SUBSET AllRows, first : SUBSET AllRows,
                         done : BOOLEAN]
        BY DEF PagesInv
      <3>2. CASE page'[d] = page[d]
        BY <3>1, <3>2
      <3>3. CASE page'[d] # page[d]
        <4>1. d = c /\ Fills(c, a.reply.result)
          BY <2>6, <3>3
        <4>2. a.reply.result \subseteq AllRows /\ PageSize \in Nat
          BY <4>1, ReaderAssumption DEF Fills
        <4>3. PICK S, m : S = page[c].got \cup a.reply.result /\ m = page[c].offset + PageSize
          OBVIOUS
        <4>4. S \in SUBSET AllRows /\ m \in Nat /\ page[c].first \in SUBSET AllRows
          BY <3>1, <4>1, <4>2, <4>3
        <4>5. PICK done \in BOOLEAN : done = (Cardinality(a.reply.result) < PageSize)
          <5>1. (Cardinality(a.reply.result) < PageSize) \in BOOLEAN
            OBVIOUS
          <5>2. QED
            BY <5>1, Zenon
        <4>6. page'[d] = [offset |-> m, got |-> S, first |-> page[c].first, done |-> done]
          BY <2>6, <3>3, <4>1, <4>3, <4>5
        <4>7. QED
          BY <4>4, <4>6
      <3>4. QED
        BY <3>2, <3>3
    <2>9. PagesInv'
      <3>1. ASSUME NEW d \in Pagers
            PROVE  /\ page'[d].first \subseteq Table
                   /\ \A r \in page'[d].first :
                         Cardinality(Above(Table, r)) < page'[d].offset => r \in page'[d].got
                   /\ page'[d].done => page'[d].first \subseteq page'[d].got
                   /\ asks[d] = 0 => page'[d].offset = 0
        <4>1. d \in Clients
          BY ReaderAssumption
        <4>2. CASE page'[d] = page[d]
          BY <4>2 DEF PagesInv
        <4>3. CASE page'[d] # page[d]
          <5>1. d = c /\ Fills(c, a.reply.result)
            BY <2>6, <4>1, <4>3
          <5>2. QED
            BY <2>5, <2>6, <4>3, <5>1 DEF Fills, PagesInv
        <4>4. QED
          BY <4>2, <4>3
      <3>2. QED
        BY <1>1, <2>4, <2>7, <2>8, <3>1 DEF PagesInv
    <2>10. ASSUME NEW d \in Clients
           PROVE  Asked[d] \subseteq Asked'[d] /\ Answers[d] \subseteq Answers'[d]
      <3>1. asks[d] \in Nat /\ asks'[d] = asks[d]
        BY <1>1, ReaderAssumption DEF ContextsInv
      <3>2. /\ page[d].offset \in Nat /\ PageSize \in Nat
            /\ page'[d] = page[d] \/ (PageSize > 0 /\ page'[d].offset = page[d].offset + PageSize)
        <4>1. page[d].offset \in Nat /\ PageSize \in Nat
          BY ReaderAssumption DEF PagesInv
        <4>2. CASE page'[d] = page[d]
          BY <4>1, <4>2
        <4>3. CASE page'[d] # page[d]
          BY <2>6, <4>1, <4>3 DEF Fills
        <4>4. QED
          BY <4>2, <4>3
      <3>3. Askable(d) \subseteq Askable(d)'
        <4>1. page'[d].offset \in Nat /\ page[d].offset <= page'[d].offset
          BY <3>2
        <4>2. 0..page[d].offset \subseteq 0..page'[d].offset
          BY <3>2, <4>1
        <4>3. QED
          BY <4>2 DEF Askable
      <3>4. Asked[d] \subseteq Asked'[d]
        BY <2>3, <3>1, <3>3, AskedGrows
      <3>5. ASSUME d \in Pagers, NEW S, NEW offset \in 0..page[d].offset,
                   asks[d] # 0, offset = page'[d].offset,
                   offset = page[d].offset => Fills(d, S)
            PROVE  Fills(d, S)'
        <4>1. page'[d] = page[d]
          BY <3>2, <3>5
        <4>2. QED
          BY <2>4, <3>2, <3>5, <4>1, FillsStands
      <3>6. QED
        BY <3>4, <3>5, AnswersGrow
    <2>11. QED
      BY <2>3, <2>9, <2>10 DEF Grows
  <1>7. QED
    BY <1>2, <1>5, <1>6 DEF clt_on_recv_pkg

LEMMA ReadKeeps ==
  ASSUME NEW P, NEW A, NEW c \in Clients, Held(P, A), ReadNext(c)
  PROVE  Held(P, A)' /\ Moves
  <1>1. clt[c] \in CltSet(P, A, c) /\ clt[c].in # <<>>
    BY DEF Held, CltsHeld, ReadNext, Reads
  <1>2. clt[c].in \in Seq(A[c])
    BY <1>1 DEF CltSet
  <1>3. Tail(clt[c].in) \in Seq(A[c])
    BY <1>1, <1>2, HeadTailProperties
  <1>4. [clt[c] EXCEPT !.in = Tail(clt[c].in)] \in CltSet(P, A, c)
    BY <1>1, <1>3 DEF CltSet
  <1>5. CltsHeld(P, A)'
    BY <1>4 DEF Held, CltsHeld, ReadNext
  <1>6. QED
    BY <1>5 DEF Held, SesHeld, SesOK, QueueHeld, Moves, ReadNext

-------------------------------------------------------------------------------
(* What the threads find.                                                  *)

LEMMA RepliesTyped ==
  ASSUME PagesInv, NEW entry, NEW works
  PROVE  Performed(entry, works).reply \in Seq(Replies)
  <1>1. \A t \in Tables : rows[t] \subseteq AllRows
    BY DEF PagesInv
  <1>2. \A R, offset, limit : R \subseteq AllRows => Page(R, offset, limit) \subseteq AllRows
    BY DEF Page
  <1> DEFINE q == entry.pkg.request
  <1>3. /\ get_user_balance_history(q) \subseteq AllRows
        /\ get_user_order_finished(q) \subseteq AllRows
        /\ get_order_deal_details(q) \subseteq AllRows
        /\ get_market_user_deals(q) \subseteq AllRows
    <2>1. /\ rows["balance"] \subseteq AllRows /\ rows["order"] \subseteq AllRows
          /\ rows["deal"] \subseteq AllRows /\ rows["user_deal"] \subseteq AllRows
      BY <1>1 DEF Tables
    <2>2. get_user_balance_history(q) \subseteq AllRows
      BY <1>2, <2>1 DEF get_user_balance_history
    <2>3. get_user_order_finished(q) \subseteq AllRows
      BY <1>2, <2>1 DEF get_user_order_finished, finished_orders
    <2>4. get_order_deal_details(q) \subseteq AllRows
      BY <1>2, <2>1 DEF get_order_deal_details
    <2>5. get_market_user_deals(q) \subseteq AllRows
      BY <1>2, <2>1 DEF get_market_user_deals
    <2>6. QED
      BY <2>2, <2>3, <2>4, <2>5
  <1>4. get_finished_order_detail(q) \in (SUBSET AllRows) \cup {Null}
    BY <1>1 DEF get_finished_order_detail, Tables
  <1>5. InvalidArgument \in Replies /\ InternalError \in Replies
    BY DEF InvalidArgument, InternalError, Replies
  <1>6. \A S \in (SUBSET AllRows) \cup {Null} : Result(S, works) \in Replies
    BY <1>5 DEF Result, Replies
  <1>7. /\ on_cmd_balance_history(q, works) \in Replies
        /\ on_cmd_order_history(q, works) \in Replies
        /\ on_cmd_order_deals(q, works) \in Replies
        /\ on_cmd_order_detail_finished(q, works) \in Replies
        /\ on_cmd_market_deals(q, works) \in Replies
    BY <1>3, <1>4, <1>5, <1>6 DEF on_cmd_balance_history, on_cmd_order_history,
        on_cmd_order_deals, on_cmd_order_detail_finished, on_cmd_market_deals
  <1>8. PICK replies : replies = Performed(entry, works).reply
    OBVIOUS
  <1>9. replies = <<>> \/ \E r \in Replies : replies = <<r>>
    <2>1. CASE q.command = "balance_history"
      BY <1>7, <1>8, <2>1 DEF Performed
    <2>2. CASE q.command = "order_history"
      BY <1>7, <1>8, <2>2 DEF Performed
    <2>3. CASE q.command = "order_deals"
      BY <1>7, <1>8, <2>3 DEF Performed
    <2>4. CASE q.command = "order_detail"
      BY <1>7, <1>8, <2>4 DEF Performed
    <2>5. CASE q.command = "market_deals"
      BY <1>7, <1>8, <2>5 DEF Performed
    <2>6. CASE q.command \notin {"balance_history", "order_history", "order_deals",
                               "order_detail", "market_deals"}
      BY <1>8, <2>6 DEF Performed
    <2>7. QED
      BY <2>1, <2>2, <2>3, <2>4, <2>5, <2>6
  <1>10. replies \in Seq(Replies)
    <2>1. CASE replies = <<>>
      BY <2>1, EmptySeq
    <2>2. ASSUME NEW r \in Replies, replies = <<r>>
          PROVE  replies \in Seq(Replies)
      BY <2>2
    <2>3. QED
      BY <1>9, <2>1, <2>2
  <1>11. QED
    BY <1>8, <1>10

LEMMA PerformedFound ==
  ASSUME PagesInv, NEW works \in BOOLEAN, NEW entry \in Entry(Asked)
  PROVE  Performed(entry, works) \in Found(Asked, Answers) /\ Performed(entry, works).entry = entry
  <1> DEFINE f == Performed(entry, works)
             p == entry.pkg
             q == p.request
  <1>1. f.entry = entry /\ f = [entry |-> entry, reply |-> f.reply]
    BY DEF Performed
  <1>2. f.reply \in Seq(Replies)
    BY RepliesTyped
  <1>3. PICK c \in Clients : p \in Asked[c]
    BY DEF Entry
  <1>4. p.client = c
    BY <1>3, AskedIs
  <1>5. ASSUME c \in Pagers, f.reply # <<>>, f.reply[1].code = 0, q.offset = page[c].offset
        PROVE  Fills(c, f.reply[1].result)
    <2>1. PICK offset \in 0..page[c].offset : q = PageFrom(offset) /\ q.offset = offset
      BY <1>3, <1>4, <1>5, AskedIs
    <2>2. /\ q.command = "order_history" /\ q.owner = 1 /\ q.limit = PageSize
          /\ q.end_time = 0
      BY <2>1 DEF PageFrom
    <2>3. f.reply = <<on_cmd_order_history(q, works)>>
      BY <2>2 DEF Performed
    <2>4. f.reply[1] = on_cmd_order_history(q, works)
      BY <2>3
    <2>5. PageSize \in 1..QUERY_LIMIT /\ f.reply[1].result = get_user_order_finished(q)
      BY <1>5, <2>2, <2>4 DEF on_cmd_order_history, InvalidArgument, InternalError, Result, GoodLimit
    <2>6. finished_orders(q) = Table
      BY <2>1 DEF Table, finished_orders, PageFrom, Between
    <2>7. PICK S : S = Page(Table, offset, PageSize)
      OBVIOUS
    <2>8. f.reply[1].result = S
      BY <2>1, <2>2, <2>5, <2>6, <2>7 DEF get_user_order_finished
    <2>9. PageSize > 0 /\ offset \in Nat /\ offset = page[c].offset /\ page[c].offset \in Nat
      BY <1>5, <2>1, <2>5, ReaderAssumption DEF PagesInv
    <2>10. PICK R : R = Table
      OBVIOUS
    <2>11. R \subseteq AllRows
      BY <2>10, TableTyped
    <2>12. /\ S \subseteq R
           /\ \A r \in R : Cardinality(Above(R, r)) < offset + PageSize =>
                  Cardinality(Above(R, r)) < offset \/ r \in S
           /\ Cardinality(S) < PageSize =>
                  \A r \in R : Cardinality(Above(R, r)) < offset + PageSize
      BY <2>7, <2>9, <2>10, <2>11, PageIs
    <2>13. page[c].first \subseteq R
      BY <1>5, <2>10 DEF PagesInv
    <2>14. \A r \in page[c].first :
              Cardinality(Above(R, r)) < page[c].offset => r \in page[c].got
      BY <1>5, <2>10 DEF PagesInv
    <2>15. \A r \in page[c].first :
              Cardinality(Above(R, r)) < offset + PageSize => r \in page[c].got \cup S
      BY <2>9, <2>12, <2>13, <2>14
    <2>16. Cardinality(S) < PageSize => page[c].first \subseteq page[c].got \cup S
      BY <2>12, <2>13, <2>15
    <2>17. QED
      BY <2>8, <2>9, <2>10, <2>11, <2>12, <2>15, <2>16 DEF Fills
  <1>6. ASSUME f.reply # <<>>
        PROVE  AnswerTo(p, f.reply[1]) \in Answers[c]
    <2>1. f.reply[1] \in Replies
      BY <1>2, <1>6, EmptySeq, ElementOfSeq
    <2>2. p.sequence \in Nat
      BY <1>3, AskedIs
    <2>3. Honest(p, f.reply[1])
      BY <1>4, <1>5, <1>6 DEF Honest
    <2>4. QED
      BY <1>3, <2>1, <2>2, <2>3 DEF Answers, AnswerTo
  <1>7. QED
    BY <1>1, <1>2, <1>4, <1>6 DEF Found

-------------------------------------------------------------------------------
(* Every step.  Before it and after it what is held is stated of the       *)
(* requests and the answers there are after it.                            *)

Middle(P, A) ==
    /\ Held(P, A) /\ JobHeld(P, A) /\ Linked
    /\ \A c \in Clients : \A p \in P[c] : p.client = c

LEMMA Begins ==
  ASSUME NEW P, NEW A, P = Asked', A = Answers', ReaderInv, Grows
  PROVE  Middle(P, A)
  <1>1. PICK Q, B : Q = Asked /\ B = Answers
    OBVIOUS
  <1>2. Held(Q, B)
    <2>1. CltsHeld(Q, B)
      BY <1>1 DEF ReaderInv, Held, CltsHeld, CltSet
    <2>2. SesHeld(Q, B)
      BY <1>1 DEF ReaderInv, Held, SesHeld, SesOK, SesSet
    <2>3. QueueHeld(Q, B)
      BY <1>1 DEF ReaderInv, Held, QueueHeld, AnySes, SesSet
    <2>4. QED
      BY <2>1, <2>2, <2>3 DEF ReaderInv, Held
  <1>3. JobHeld(Q, B)
    <2>1. Entry(Q) = Entry(Asked)
      BY <1>1 DEF Entry
    <2>2. Found(Q, B) = Found(Asked, Answers)
      BY <1>1, <2>1 DEF Found
    <2>3. QED
      BY <2>1, <2>2 DEF ReaderInv, JobHeld
  <1>4. \A c \in Clients : Q[c] \subseteq P[c] /\ B[c] \subseteq A[c]
    BY <1>1 DEF Grows
  <1>5. \A c \in Clients : \A p \in P[c] : p.client = c
    BY DEF Asked
  <1>6. \A c \in Clients : \A p \in Q[c] : p.client = c
    BY <1>4, <1>5
  <1>7. Held(P, A)
    BY <1>2, <1>4, HeldGrows
  <1>8. JobHeld(P, A)
    BY <1>3, <1>4, <1>6, JobGrows
  <1>9. QED
    BY <1>5, <1>7, <1>8 DEF ReaderInv, Middle

LEMMA Ends ==
  ASSUME NEW P, NEW A, P = Asked', A = Answers', ContextsInv', PagesInv',
         Held(P, A)', JobHeld(P, A)', Linked'
  PROVE  ReaderInv'
  <1>1. Held(Asked, Answers)'
    <2>1. CltsHeld(Asked, Answers)'
      BY DEF Held, CltsHeld, CltSet
    <2>2. SesHeld(Asked, Answers)'
      BY DEF Held, SesHeld, SesOK, SesSet
    <2>3. QueueHeld(Asked, Answers)'
      BY DEF Held, QueueHeld, AnySes, SesSet
    <2>4. QED
      BY <2>1, <2>2, <2>3 DEF Held
  <1>2. JobHeld(Asked, Answers)'
    <2>1. Entry(P) = Entry(Asked)'
      BY DEF Entry
    <2>2. Found(P, A) = Found(Asked, Answers)'
      BY <2>1 DEF Found
    <2>3. QED
      BY <2>1, <2>2 DEF JobHeld
  <1>3. QED
    BY <1>1, <1>2 DEF ReaderInv

LEMMA HeldStays ==
  ASSUME NEW P, NEW A, Held(P, A), UNCHANGED sessions
  PROVE  Held(P, A)' /\ Moves
  BY DEF Held, CltsHeld, SesHeld, SesOK, QueueHeld, Moves, sessions

LEMMA JobStays ==
  ASSUME NEW P, NEW A, JobHeld(P, A), UNCHANGED job
  PROVE  JobHeld(P, A)' /\ InJob' = InJob
  BY DEF JobHeld, InJob, Pending, Running

LEMMA WakeKeeps ==
  ASSUME NEW P, NEW A, JobHeld(P, A), Wake \/ Emptied
  PROVE  JobHeld(P, A)' /\ InJob' = InJob
  <1>1. /\ job'.requests = job.requests /\ job'.running = job.running
        /\ job'.replies = job.replies
    BY DEF JobHeld, Wake, Emptied
  <1>2. InJob' = InJob
    BY <1>1 DEF InJob, Pending, Running
  <1>3. QED
    BY <1>2 DEF JobHeld, Wake, Emptied

(* The steps that leave the requests as they are.                          *)
LEMMA ServerStep ==
  ASSUME ReaderInv, FreshIds, UNCHANGED <<rows, state_context, asks, page>>,
         \/ Network \/ on_can_read \/ on_job_finish \/ replies_emptied \/ ReaderDies
         \/ \E t \in Thread : thread_takes(t) \/ \E works \in BOOLEAN : on_job(t, works)
         \/ \E s \in SesSlots : svr_on_recv_pkg(s)
  PROVE  ReaderInv'
  <1>1. /\ ContextsInv' /\ PagesInv' /\ Grows /\ Asked' = Asked /\ Answers' = Answers
    BY SameGrows DEF ReaderInv
  <1>2. PICK P, A : P = Asked' /\ A = Answers'
    OBVIOUS
  <1>3. Middle(P, A)
    BY <1>1, <1>2, Begins
  <1>4. /\ Held(P, A) /\ JobHeld(P, A) /\ Linked
        /\ \A c \in Clients : \A p \in P[c] : p.client = c
    BY <1>3 DEF Middle
  <1> DEFINE Kept == Held(P, A)' /\ JobHeld(P, A)' /\ Linked'
  <1>5. ASSUME Network PROVE Kept
    <2>1. Held(P, A)' /\ Moves
      BY <1>4, <1>5, SessionsKeep DEF Network
    <2>2. JobHeld(P, A)' /\ InJob' = InJob
      BY <1>4, <1>5, JobStays DEF Network
    <2>3. Linked'
      BY <1>4, <2>1, <2>2, LinkedKeeps
    <2>4. QED
      BY <2>1, <2>2, <2>3
  <1>6. ASSUME on_can_read \/ replies_emptied PROVE Kept
    <2>1. Held(P, A)' /\ Moves
      BY <1>4, <1>6, HeldStays DEF on_can_read, replies_emptied
    <2>2. JobHeld(P, A)' /\ InJob' = InJob
      BY <1>4, <1>6, WakeKeeps DEF on_can_read, replies_emptied
    <2>3. Linked'
      BY <1>4, <2>1, <2>2, LinkedKeeps
    <2>4. QED
      BY <2>1, <2>2, <2>3
  <1>7. ASSUME on_job_finish PROVE Kept
    BY <1>4, <1>7, FinishKeeps
  <1>8. ASSUME ReaderDies PROVE Kept
    <2>1. Held(P, A)' /\ Moves
      BY <1>4, <1>8, DeathKeeps DEF ReaderDies
    <2>2. JobHeld(P, A)' /\ InJob' = {}
      BY <1>8, EmptyJob DEF ReaderDies
    <2>3. Linked'
      BY <2>2 DEF Linked
    <2>4. QED
      BY <2>1, <2>2, <2>3
  <1>9. ASSUME NEW t \in Thread, thread_takes(t) PROVE Kept
    <2>1. Held(P, A)' /\ Moves
      BY <1>4, <1>9, HeldStays DEF thread_takes
    <2>2. JobHeld(P, A)' /\ InJob' \subseteq InJob
      BY <1>4, <1>9, TakeKeeps DEF thread_takes
    <2>3. Linked'
      BY <1>4, <2>1, <2>2, LinkedKeeps
    <2>4. QED
      BY <2>1, <2>2, <2>3
  <1>10. ASSUME NEW t \in Thread, NEW works \in BOOLEAN, on_job(t, works) PROVE Kept
    <2>1. Held(P, A)' /\ Moves
      BY <1>4, <1>10 DEF on_job, Held, CltsHeld, SesHeld, SesOK, QueueHeld, Moves
    <2>2. PICK entry : entry = job.running[t][1]
      OBVIOUS
    <2>3. t \in Running /\ Done(t, Performed(entry, works))
      BY <1>10, <2>2 DEF on_job
    <2>4. entry \in Entry(P)
      <3>1. entry \in InJob
        BY <2>2, <2>3 DEF InJob, Pending
      <3>2. QED
        BY <1>4, <3>1, InJobTyped
    <2>5. entry \in Entry(Asked)
      BY <1>1, <1>2, <2>4 DEF Entry
    <2>6. PICK f : f = Performed(entry, works)
      OBVIOUS
    <2>7. f \in Found(Asked, Answers) /\ f.entry = entry
      BY <2>5, <2>6, PerformedFound DEF ReaderInv
    <2>8. f \in Found(P, A)
      BY <1>1, <1>2, <2>7 DEF Found, Entry
    <2>9. JobHeld(P, A)' /\ InJob' \subseteq InJob
      BY <1>4, <2>2, <2>3, <2>6, <2>7, <2>8, DoneKeeps
    <2>10. Linked'
      BY <1>4, <2>1, <2>9, LinkedKeeps
    <2>11. QED
      BY <2>1, <2>9, <2>10
  <1>11. ASSUME NEW s \in SesSlots, svr_on_recv_pkg(s) PROVE Kept
    <2>1. ASSUME NEW c \in Clients, NEW p \in P[c]
          PROVE  AnswerTo(p, Unavailable) \in A[c]
      <3>1. p \in Asked[c] /\ p.client = c /\ p.sequence \in Nat
        BY <1>1, <1>2, <2>1, AskedIs
      <3>2. Unavailable \in Replies /\ Unavailable.code = 3
        BY DEF Unavailable, Replies
      <3>3. AnswerTo(p, Unavailable) \in Answers[c]
        BY <3>1, <3>2 DEF Answers, AnswerTo, Honest
      <3>4. QED
        BY <1>1, <1>2, <3>3
    <2>2. QED
      BY <1>4, <1>11, <2>1, RecvKeeps
  <1>12. Kept
    BY <1>5, <1>6, <1>7, <1>8, <1>9, <1>10, <1>11
  <1>13. QED
    BY <1>1, <1>2, <1>12, Ends

(* The steps of the clients and of the history writer.                     *)
LEMMA ClientStep ==
  ASSUME ReaderInv, FreshIds,
         \/ \E c \in Clients :
               \/ \E q \in Requests(c) : on_request(c, q)
               \/ clt_on_recv_pkg(c) \/ clt_on_timeout(c)
         \/ \E r \in LaterRows : Commit(r)
  PROVE  ReaderInv'
  <1> DEFINE Stands == ContextsInv' /\ PagesInv' /\ Grows
  <1>1. ASSUME NEW c \in Clients, NEW q \in Requests(c), on_request(c, q) PROVE ReaderInv'
    <2>1. Stands /\ \E pkg \in Asked'[c] : nw_ses_send(c, pkg)
      BY <1>1, AskStep DEF ReaderInv
    <2>2. PICK P, A : P = Asked' /\ A = Answers'
      OBVIOUS
    <2>3. Held(P, A) /\ JobHeld(P, A) /\ Linked
      BY <2>1, <2>2, Begins DEF Middle
    <2>4. PICK pkg \in P[c] : nw_ses_send(c, pkg)
      BY <2>1, <2>2
    <2>5. svr_id_start' = svr_id_start /\ job' = job
      BY <1>1 DEF on_request
    <2>6. CltsHeld(P, A)' /\ SesHeld(P, A)' /\ QueueHeld(P, A)' /\ Moves
      BY <2>3, <2>4, SendKeeps
    <2>7. Held(P, A)'
      BY <2>3, <2>5, <2>6 DEF Held
    <2>8. JobHeld(P, A)' /\ InJob' = InJob
      BY <2>3, <2>5, JobStays
    <2>9. Linked'
      BY <2>3, <2>6, <2>8, LinkedKeeps
    <2>10. QED
      BY <2>1, <2>2, <2>7, <2>8, <2>9, Ends
  <1>2. ASSUME NEW c \in Clients, clt_on_recv_pkg(c) PROVE ReaderInv'
    <2>1. Stands
      BY <1>2, ReadStep DEF ReaderInv, Held
    <2>2. PICK P, A : P = Asked' /\ A = Answers'
      OBVIOUS
    <2>3. Held(P, A) /\ JobHeld(P, A) /\ Linked
      BY <2>1, <2>2, Begins DEF Middle
    <2>4. Held(P, A)' /\ Moves
      BY <1>2, <2>3, ReadKeeps DEF clt_on_recv_pkg
    <2>5. JobHeld(P, A)' /\ InJob' = InJob
      BY <1>2, <2>3, JobStays DEF clt_on_recv_pkg
    <2>6. Linked'
      BY <2>3, <2>4, <2>5, LinkedKeeps
    <2>7. QED
      BY <2>1, <2>2, <2>4, <2>5, <2>6, Ends
  <1>3. ASSUME Stands, UNCHANGED <<sessions, job>> PROVE ReaderInv'
    <2>1. PICK P, A : P = Asked' /\ A = Answers'
      OBVIOUS
    <2>2. Held(P, A) /\ JobHeld(P, A) /\ Linked
      BY <1>3, <2>1, Begins DEF Middle
    <2>3. Held(P, A)' /\ Moves
      BY <1>3, <2>2, HeldStays
    <2>4. JobHeld(P, A)' /\ InJob' = InJob
      BY <1>3, <2>2, JobStays
    <2>5. Linked'
      BY <2>2, <2>3, <2>4, LinkedKeeps
    <2>6. QED
      BY <1>3, <2>1, <2>3, <2>4, <2>5, Ends
  <1>4. ASSUME NEW c \in Clients, clt_on_timeout(c) PROVE ReaderInv'
    <2>1. Stands
      BY <1>4, TimeoutStep DEF ReaderInv
    <2>2. QED
      BY <1>3, <1>4, <2>1 DEF clt_on_timeout
  <1>5. ASSUME NEW r \in LaterRows, Commit(r) PROVE ReaderInv'
    <2>1. Stands
      BY <1>5, CommitStep DEF ReaderInv
    <2>2. QED
      BY <1>3, <1>5, <2>1 DEF Commit
  <1>6. QED
    BY <1>1, <1>2, <1>4, <1>5

LEMMA NextInv ==
  ASSUME ReaderInv, FreshIds, [ReaderNext]_readerVars
  PROVE  ReaderInv'
  <1>1. CASE UNCHANGED readerVars
    <2>1. ContextsInv' /\ PagesInv' /\ Grows
      BY <1>1, SameGrows DEF readerVars, ReaderInv
    <2>2. PICK P, A : P = Asked' /\ A = Answers'
      OBVIOUS
    <2>3. Held(P, A) /\ JobHeld(P, A) /\ Linked
      BY <2>1, <2>2, Begins DEF Middle
    <2>4. Held(P, A)' /\ Moves
      BY <1>1, <2>3, HeldStays DEF readerVars
    <2>5. JobHeld(P, A)' /\ InJob' = InJob
      BY <1>1, <2>3, JobStays DEF readerVars
    <2>6. Linked'
      BY <2>3, <2>4, <2>5, LinkedKeeps
    <2>7. QED
      BY <2>1, <2>2, <2>4, <2>5, <2>6, Ends
  <1>2. CASE \/ Network \/ on_can_read \/ on_job_finish \/ replies_emptied \/ ReaderDies
             \/ \E t \in Thread : thread_takes(t) \/ \E works \in BOOLEAN : on_job(t, works)
             \/ \E s \in SesSlots : svr_on_recv_pkg(s)
    <2>1. UNCHANGED <<rows, state_context, asks, page>>
      BY <1>2 DEF Network, on_can_read, on_job_finish, replies_emptied, ReaderDies,
                  thread_takes, on_job, svr_on_recv_pkg
    <2>2. QED
      BY <1>2, <2>1, ServerStep
  <1>3. CASE \/ \E c \in Clients :
                   \/ \E q \in Requests(c) : on_request(c, q)
                   \/ clt_on_recv_pkg(c) \/ clt_on_timeout(c)
             \/ \E r \in LaterRows : Commit(r)
    BY <1>3, ClientStep
  <1>4. QED
    BY <1>1, <1>2, <1>3 DEF ReaderNext

LEMMA InitInv ==
  ASSUME ReaderInit
  PROVE  ReaderInv
  <1>1. ContextsInv
    <2>1. /\ asks = [c \in Clients |-> 0]
          /\ state_context = [c \in Clients |-> [id_start |-> UINT_MAX, entries |-> {}]]
      BY DEF ReaderInit, nw_state_create, InitSessions
    <2>2. \A c \in Clients : MaxAsks[c] \in 0..UINT_MAX /\ 0 \in 0..MaxAsks[c]
      BY ReaderAssumption
    <2>3. QED
      BY <2>1, <2>2 DEF ContextsInv
  <1>2. PagesInv
    <2>1. /\ rows \in [Tables -> SUBSET AllRows]
          /\ page = [c \in Clients |-> [offset |-> 0, got |-> {}, first |-> {}, done |-> FALSE]]
      BY DEF ReaderInit, AllRows
    <2>2. QED
      BY <2>1, ReaderAssumption DEF PagesInv
  <1>3. PICK P, A : P = Asked /\ A = Answers
    OBVIOUS
  <1>4. Held(P, A)
    <2>1. \A c \in Clients : Connecting \in CltSet(P, A, c)
      BY Fresh
    <2>2. CltsHeld(P, A)
      BY <2>1 DEF CltsHeld, ReaderInit, InitSessions
    <2>3. SesHeld(P, A)
      BY DEF SesHeld, SesOK, ReaderInit, InitSessions
    <2>4. QueueHeld(P, A)
      BY EmptySeq DEF QueueHeld, ReaderInit, InitSessions
    <2>5. svr_id_start \in Nat
      BY ReaderAssumption DEF ReaderInit, InitSessions
    <2>6. QED
      BY <2>2, <2>3, <2>4, <2>5 DEF Held
  <1>5. JobHeld(P, A) /\ InJob = {}
    BY EmptyJob DEF ReaderInit
  <1>6. Held(Asked, Answers)
    <2>1. CltsHeld(Asked, Answers)
      BY <1>3, <1>4 DEF Held, CltsHeld, CltSet
    <2>2. SesHeld(Asked, Answers)
      BY <1>3, <1>4 DEF Held, SesHeld, SesOK, SesSet
    <2>3. QueueHeld(Asked, Answers)
      BY <1>3, <1>4 DEF Held, QueueHeld, AnySes, SesSet
    <2>4. QED
      BY <1>3, <1>4, <2>1, <2>2, <2>3 DEF Held
  <1>7. JobHeld(Asked, Answers)
    <2>1. Entry(P) = Entry(Asked)
      BY <1>3 DEF Entry
    <2>2. Found(P, A) = Found(Asked, Answers)
      BY <1>3, <2>1 DEF Found
    <2>3. QED
      BY <1>5, <2>1, <2>2 DEF JobHeld
  <1>8. QED
    BY <1>1, <1>2, <1>5, <1>6, <1>7 DEF ReaderInv, Linked

-------------------------------------------------------------------------------
(* What is promised.                                                       *)

LEMMA InvAnswered ==
  ASSUME ReaderInv
  PROVE  AskerAnswered
  <1> SUFFICES ASSUME NEW c \in Clients,
                      NEW answer \in ToSet(clt[c].in)
                          \cup UNION {ToSet(svr_ses[s].out) : s \in SessionOf(c)}
               PROVE  /\ answer.to.client = c
                      /\ \A e \in state_context[c].entries :
                            e.id = answer.sequence => e.data = answer.to.request
    BY DEF AskerAnswered
  <1>1. PICK P, A : P = Asked /\ A = Answers
    OBVIOUS
  <1>2. CltsHeld(P, A) /\ SesHeld(P, A)
    <2>1. CltsHeld(P, A)
      BY <1>1 DEF ReaderInv, Held, CltsHeld, CltSet
    <2>2. SesHeld(P, A)
      BY <1>1 DEF ReaderInv, Held, SesHeld, SesOK, SesSet
    <2>3. QED
      BY <2>1, <2>2
  <1>3. ASSUME NEW s \in SessionOf(c), answer \in ToSet(svr_ses[s].out)
        PROVE  answer \in A[c]
    <2>1. s \in SesSlots /\ svr_ses[s].clt = <<c>>
      BY DEF SessionOf
    <2>2. svr_ses[s] # NoSes
      <3>1. NoSes.clt = <<>> /\ <<c>> # <<>>
        BY DEF NoSes
      <3>2. QED
        BY <2>1, <3>1
    <2>3. PICK d \in Clients : svr_ses[s] \in SesSet(P, A, d)
      BY <1>2, <2>1, <2>2 DEF SesHeld, SesOK
    <2>4. d = c /\ svr_ses[s].out \in Seq(A[c])
      BY <2>1, <2>3 DEF SesSet
    <2>5. QED
      BY <1>3, <2>4, ElementOfSeq, LenProperties DEF ToSet
  <1>4. answer \in Answers[c]
    <2>1. CASE answer \in ToSet(clt[c].in)
      <3>1. clt[c].in \in Seq(A[c])
        BY <1>2 DEF CltsHeld, CltSet
      <3>2. QED
        BY <1>1, <2>1, <3>1, ElementOfSeq, LenProperties DEF ToSet
    <2>2. QED
      BY <1>1, <1>3, <2>1
  <1>5. QED
    BY <1>4, AskedIs DEF Answers

LEMMA InvNothingSkipped ==
  ASSUME ReaderInv
  PROVE  NothingSkipped
  BY DEF ReaderInv, PagesInv, NothingSkipped

(* nw_ses.c, nw_job.c, nw_state.c, rh_server.c: whatever ends, is sent, is  *)
(* found or is committed, what a connection holds of a client is its own    *)
(* requests or answers to them, and what the threads hold knows the session *)
(* of who asked, as long as no id of a session comes round (2^32 - 1 of     *)
(* them) while a request that came with it is still with the threads.       *)
THEOREM ReaderInvariant ==
  ReaderSpec /\ [][FreshIds]_readerVars => []ReaderInv
  <1>1. ReaderInit => ReaderInv
    BY InitInv
  <1>2. ReaderInv /\ [ReaderNext]_readerVars /\ [FreshIds]_readerVars => ReaderInv'
    <2>1. [FreshIds]_readerVars => FreshIds
      BY DEF FreshIds, readerVars, sessions
    <2>2. QED
      BY <2>1, NextInv
  <1>3. QED
    BY <1>1, <1>2, PTL DEF ReaderSpec

(* rh_server.c:on_job_finish, nw_state.c:nw_state_get: an answer on its way *)
(* to a client is the answer to what this client asked under its id.        *)
THEOREM AskersAnswered ==
  ReaderSpec /\ [][FreshIds]_readerVars => []AskerAnswered
  <1>1. ReaderInv => AskerAnswered
    BY InvAnswered
  <1>2. QED
    BY <1>1, ReaderInvariant, PTL

(* rh_reader.c:get_user_order_finished: whoever has paged through a history *)
(* to its end has had every row there was when he first asked.              *)
THEOREM PagesComplete ==
  ReaderSpec /\ [][FreshIds]_readerVars => []NothingSkipped
  <1>1. ReaderInv => NothingSkipped
    BY InvNothingSkipped
  <1>2. QED
    BY <1>1, ReaderInvariant, PTL
================================================================================
