-------------------------- MODULE HttpGateway_proofs --------------------------
(***************************************************************************)
(* The HTTP gateway and its listener, for every number of connections,     *)
(* workers, links, slots and requests: a connection's descriptor is where  *)
(* it can be read or closed and nowhere else, a request that waits has its *)
(* timer, and a client is answered once, where it asked.                   *)
(***************************************************************************)
EXTENDS HttpGatewayProperties, FiniteSetTheorems, TLAPS

-------------------------------------------------------------------------------
(* The inductive invariant.                                                *)

(* The bounds of the model are numbers.                                    *)
Bounds == MaxLinks \in Nat /\ MaxRequests \in Nat
Links == 1..MaxLinks

Session == [id : Nat, conn : {<<>>} \cup {<<c>> : c \in Conns}, split : BOOLEAN]
Entry == [id : Nat, ses : Slots, ses_id : Nat \ {0}]
Piece == [part : {"all", "head", "body", "rest"}, kind : Kinds]

TypeOK ==
    /\ Bounds
    /\ backlog \subseteq Conns /\ accepted \subseteq Conns
    /\ links \in 0..MaxLinks
    /\ workers \subseteq 1..links
    /\ link \in [Workers -> 0..links]
    /\ pipe \in [Links -> Seq(Conns)]
    /\ copies \in [Conns -> Nat]
    /\ ses \in [Workers -> [Slots -> Session]]
    /\ svr_id \in [Workers -> Nat]
    /\ state \in [Workers -> SUBSET Entry]
    /\ stream \in [Conns -> Seq(Piece)]
    /\ served \in Seq(Conns)
    /\ asked \in Seq(Conns) /\ Len(asked) <= MaxRequests
    /\ answers \in [1..MaxRequests -> Seq(Conns)]

(* Where a connection's descriptor is.                                     *)
InPipe(l, i, c) == l \in Links /\ i \in DOMAIN pipe[l] /\ pipe[l][i] = c
InSession(w, s, c) == w \in Workers /\ s \in Slots /\ ses[w][s].conn = <<c>>
Somewhere(c) ==
    \/ \E l \in Links : c \in ToSet(pipe[l])
    \/ \E w \in Workers, s \in Slots : InSession(w, s, c)

(* It is in one place at most, which is what `copies` says; it was         *)
(* accepted before it was in a link, and in a link before it was served.   *)
PlacedInv ==
    /\ backlog \cap accepted = {}
    /\ \A l \in Links : ToSet(pipe[l]) \subseteq accepted \ ToSet(served)
    /\ ToSet(served) \subseteq accepted
    /\ \A c \in Conns, l, k \in Links, i, j \in Nat :
          InPipe(l, i, c) /\ InPipe(k, j, c) => l = k /\ i = j
    /\ \A c \in Conns, w, v \in Workers, s, t \in Slots :
          InSession(w, s, c) /\ InSession(v, t, c) => w = v /\ s = t
    /\ \A c \in Conns, w \in Workers, s \in Slots :
          InSession(w, s, c) => c \in ToSet(served)
    /\ \A c \in Conns : copies[c] = IF Somewhere(c) THEN 1 ELSE 0

(* A session has a connection and a number, and numbers grow.              *)
SessionsInv ==
    /\ \A w \in Workers, s \in Slots :
          /\ ses[w][s].id <= svr_id[w]
          /\ ses[w][s].id = 0 <=> ses[w][s].conn = <<>>
    /\ \A i, j \in DOMAIN served : served[i] = served[j] => i = j

(* A request is of a connection that was served; an entry is that of one   *)
(* request which waits, and if its session is there, it is the one that    *)
(* asked.                                                                  *)
EntriesInv ==
    /\ ToSet(asked) \subseteq ToSet(served)
    /\ \A r \in 1..MaxRequests : r > Len(asked) => answers[r] = <<>>
    /\ \A w \in Workers : \A e \in state[w] :
          /\ e.id \in 1..Len(asked) /\ e.ses_id <= svr_id[w]
          /\ answers[e.id] = <<>>
          /\ SameSession(w, e) => ses[w][e.ses].conn = <<asked[e.id]>>
    /\ \A w, v \in Workers : \A d \in state[w], e \in state[v] :
          d.id = e.id => w = v /\ d = e

HttpInv ==
    /\ TypeOK
    /\ PlacedInv
    /\ SessionsInv
    /\ EntriesInv
    /\ NoneUnanswered

-------------------------------------------------------------------------------
(* The places of the members of a finite set of numbers, in their order,   *)
(* are 1 to as many as there are.                                          *)

Upto(S, i) == {j \in S : j <= i}
Rank(S) == [i \in S |-> Cardinality(Upto(S, i))]

LEMMA Ranks ==
  ASSUME NEW S, IsFiniteSet(S), S \subseteq Nat
  PROVE  /\ Cardinality(S) \in Nat
         /\ \A i \in S : Rank(S)[i] \in 1..Cardinality(S)
         /\ \A i, j \in S : Rank(S)[i] = Rank(S)[j] => i = j
         /\ \A n \in 1..Cardinality(S) : \E i \in S : Rank(S)[i] = n
  <1> DEFINE N == Cardinality(S)
             f == Rank(S)
  <1>1. ASSUME NEW i \in S
        PROVE  /\ IsFiniteSet(Upto(S, i)) /\ Cardinality(Upto(S, i)) \in Nat
               /\ Cardinality(Upto(S, i)) <= N /\ Cardinality(Upto(S, i)) # 0
               /\ i \in Upto(S, i)
    <2>1. Upto(S, i) \in SUBSET S
      BY DEF Upto
    <2>2. IsFiniteSet(Upto(S, i)) /\ Cardinality(Upto(S, i)) <= N
      BY <2>1, FS_Subset
    <2>3. i \in Upto(S, i)
      BY DEF Upto
    <2>4. Cardinality(Upto(S, i)) # 0
      BY <2>2, <2>3, FS_EmptySet
    <2>5. QED
      BY <2>2, <2>3, <2>4, FS_CardinalityType
  <1>2. N \in Nat
    BY FS_CardinalityType
  <1>3. f \in [S -> 1..N]
    <2>1. \A i \in S : Cardinality(Upto(S, i)) \in 1..N
      BY <1>1, <1>2
    <2>2. QED
      BY <2>1 DEF Rank
  <1>4. ASSUME NEW i \in S, NEW j \in S, i < j
        PROVE  f[i] < f[j]
    <2>1. Upto(S, i) \in SUBSET Upto(S, j) /\ Upto(S, i) # Upto(S, j)
      <3>1. j \notin Upto(S, i)
        BY <1>4 DEF Upto
      <3>2. j \in Upto(S, j)
        BY DEF Upto
      <3>3. ASSUME NEW k \in Upto(S, i) PROVE k \in Upto(S, j)
        <4>1. k \in S /\ k <= i /\ k \in Nat /\ i \in Nat /\ j \in Nat
          BY DEF Upto
        <4>2. k <= j
          BY <1>4, <4>1
        <4>3. QED
          BY <4>1, <4>2 DEF Upto
      <3>4. QED
        BY <3>1, <3>2, <3>3
    <2>2. /\ Cardinality(Upto(S, i)) <= Cardinality(Upto(S, j))
          /\ Cardinality(Upto(S, i)) # Cardinality(Upto(S, j))
      BY <1>1, <2>1, FS_Subset
    <2>3. QED
      BY <1>1, <2>2 DEF Rank
  <1>5. \A i, j \in S : f[i] = f[j] => i = j
    <2> TAKE i, j \in S
    <2>1. i \in Nat /\ j \in Nat /\ f[i] \in Nat /\ f[j] \in Nat
      BY <1>3
    <2>2. CASE i < j
      BY <1>4, <2>1, <2>2
    <2>3. CASE j < i
      BY <1>4, <2>1, <2>3
    <2>4. QED
      BY <2>1, <2>2, <2>3
  <1>6. f \in Injection(S, 1..N)
    BY <1>3, <1>5 DEF Injection, IsInjective
  <1>7. IsFiniteSet(1..N) /\ Cardinality(1..N) = N
    <2>1. /\ IsFiniteSet(1..N)
          /\ Cardinality(1..N) = IF 1 > N THEN 0 ELSE N - 1 + 1
      BY <1>2, FS_Interval
    <2>2. QED
      BY <1>2, <2>1
  <1>8. f \in Surjection(S, 1..N)
    BY <1>6, <1>7, FS_Injection
  <1>9. \A n \in 1..N : \E i \in S : f[i] = n
    BY <1>8 DEF Surjection
  <1>10. QED
    BY <1>2, <1>3, <1>5, <1>9

-------------------------------------------------------------------------------
(* Sequences of connections.                                               *)

LEMMA Rows ==
  ASSUME NEW S, NEW q \in Seq(S)
  PROVE  /\ Len(q) \in Nat /\ DOMAIN q = 1..Len(q)
         /\ \A i \in DOMAIN q : q[i] \in S
         /\ ToSet(q) \subseteq S
         /\ \A c : c \in ToSet(q) <=> \E i \in DOMAIN q : q[i] = c
  BY DEF ToSet

LEMMA Appended ==
  ASSUME NEW S, NEW q \in Seq(S), NEW c \in S
  PROVE  /\ Append(q, c) \in Seq(S)
         /\ Len(Append(q, c)) = Len(q) + 1
         /\ DOMAIN Append(q, c) = 1..Len(q) + 1
         /\ \A i \in 1..Len(q) : Append(q, c)[i] = q[i]
         /\ Append(q, c)[Len(q) + 1] = c
         /\ ToSet(Append(q, c)) = ToSet(q) \cup {c}
  <1>1. /\ Append(q, c) \in Seq(S)
        /\ Len(Append(q, c)) = Len(q) + 1
        /\ DOMAIN Append(q, c) = 1..Len(q) + 1
        /\ \A i \in 1..Len(q) : Append(q, c)[i] = q[i]
        /\ Append(q, c)[Len(q) + 1] = c
        /\ Len(q) \in Nat /\ DOMAIN q = 1..Len(q)
    OBVIOUS
  <1>2. \A d : d \in ToSet(Append(q, c)) <=> d \in ToSet(q) \cup {c}
    <2> TAKE d
    <2>1. ASSUME NEW i \in 1..Len(q) + 1
          PROVE  i \in 1..Len(q) \/ i = Len(q) + 1
      BY <1>1
    <2>2. \A i \in 1..Len(q) : i \in 1..Len(q) + 1
      BY <1>1
    <2>3. Len(q) + 1 \in 1..Len(q) + 1
      BY <1>1
    <2> DEFINE a == Append(q, c)
    <2>4. /\ DOMAIN a = 1..Len(q) + 1 /\ \A i \in 1..Len(q) : a[i] = q[i]
          /\ a[Len(q) + 1] = c
      BY <1>1
    <2> HIDE DEF a
    <2>5. d \in ToSet(a) <=> \E i \in 1..Len(q) + 1 : a[i] = d
      BY <2>4 DEF ToSet
    <2>6. d \in ToSet(q) <=> \E i \in 1..Len(q) : q[i] = d
      BY <1>1 DEF ToSet
    <2>7. d \in ToSet(a) <=> d \in ToSet(q) \cup {c}
      BY <2>1, <2>2, <2>3, <2>4, <2>5, <2>6
    <2>8. QED
      BY <2>7 DEF a
  <1>3. QED
    BY <1>1, <1>2

LEMMA TailRows ==
  ASSUME NEW S, NEW q \in Seq(S), q # <<>>
  PROVE  /\ Head(q) = q[1] /\ Head(q) \in S /\ 1 \in DOMAIN q
         /\ Tail(q) \in Seq(S)
         /\ \A i \in DOMAIN Tail(q) : /\ i + 1 \in DOMAIN q
                                      /\ Tail(q)[i] = q[i + 1]
         /\ \A i \in DOMAIN q : i # 1 => /\ i - 1 \in DOMAIN Tail(q)
                                         /\ q[i] = Tail(q)[i - 1]
  <1>1. Len(q) \in Nat \ {0} /\ DOMAIN q = 1..Len(q)
    OBVIOUS
  <1>2. /\ Tail(q) \in Seq(S) /\ DOMAIN Tail(q) = 1..Len(q) - 1
        /\ \A i \in 1..Len(q) - 1 : Tail(q)[i] = q[i + 1]
    OBVIOUS
  <1>3. Head(q) = q[1] /\ Head(q) \in S
    OBVIOUS
  <1>4. QED
    BY <1>1, <1>2, <1>3

-------------------------------------------------------------------------------
(* Connections in their places.                                            *)

(* What closes connections takes each from the one place it is in.         *)
LEMMA ReleasedKeeps ==
  ASSUME TypeOK, PlacedInv, NEW L,
         \A l \in Links : pipe'[l] \in {pipe[l], <<>>},
         \A w \in Workers, s \in Slots :
            ses'[w][s].conn \in {ses[w][s].conn, <<>>},
         copies' = Close(copies, L),
         \A c \in L : Somewhere(c) /\ ~Somewhere(c)',
         \A c \in Conns \ L : Somewhere(c) => Somewhere(c)',
         UNCHANGED <<backlog, accepted, served>>
  PROVE  PlacedInv'
  <1>1. \A l \in Links, i \in Nat, c \in Conns : InPipe(l, i, c)' => InPipe(l, i, c)
    BY DEF InPipe
  <1>2. \A w \in Workers, s \in Slots, c \in Conns :
           InSession(w, s, c)' => InSession(w, s, c)
    BY DEF InSession
  <1>3. ToSet(<<>>) = {}
    BY DEF ToSet
  <1>4. \A l \in Links : ToSet(pipe'[l]) \subseteq ToSet(pipe[l])
    BY <1>3
  <1>5. \A c \in Conns : Somewhere(c)' => Somewhere(c)
    BY <1>2, <1>4 DEF Somewhere, InSession
  <1>6. \A c \in Conns : copies'[c] = IF Somewhere(c)' THEN 1 ELSE 0
    <2> TAKE c \in Conns
    <2>1. copies'[c] = IF c \in L THEN copies[c] - 1 ELSE copies[c]
      BY DEF Close
    <2>2. copies[c] = IF Somewhere(c) THEN 1 ELSE 0
      BY DEF PlacedInv
    <2>3. CASE c \in L
      BY <2>1, <2>2, <2>3
    <2>4. CASE c \notin L
      <3>1. Somewhere(c) <=> Somewhere(c)'
        BY <1>5, <2>4
      <3>2. QED
        BY <2>1, <2>2, <2>4, <3>1
    <2>5. QED
      BY <2>3, <2>4
  <1>7. /\ \A c \in Conns, l, k \in Links, i, j \in Nat :
              InPipe(l, i, c)' /\ InPipe(k, j, c)' => l = k /\ i = j
        /\ \A c \in Conns, w, v \in Workers, s, t \in Slots :
              InSession(w, s, c)' /\ InSession(v, t, c)' => w = v /\ s = t
        /\ \A c \in Conns, w \in Workers, s \in Slots :
              InSession(w, s, c)' => c \in ToSet(served)
    <2>1. /\ \A c \in Conns, l, k \in Links, i, j \in Nat :
                InPipe(l, i, c) /\ InPipe(k, j, c) => l = k /\ i = j
          /\ \A c \in Conns, w, v \in Workers, s, t \in Slots :
                InSession(w, s, c) /\ InSession(v, t, c) => w = v /\ s = t
          /\ \A c \in Conns, w \in Workers, s \in Slots :
                InSession(w, s, c) => c \in ToSet(served)
      BY DEF PlacedInv
    <2>2. QED
      BY <1>1, <1>2, <2>1
  <1>8. /\ backlog' \cap accepted' = {}
        /\ \A l \in Links : ToSet(pipe'[l]) \subseteq accepted' \ ToSet(served')
        /\ ToSet(served') \subseteq accepted'
    BY <1>4 DEF PlacedInv
  <1>9. QED
    BY <1>6, <1>7, <1>8 DEF PlacedInv

(* A connection is not in a link and a session.                            *)
LEMMA OnePlace ==
  ASSUME PlacedInv, NEW c \in Conns
  PROVE  /\ \A l \in Links, w \in Workers, s \in Slots :
               ~(c \in ToSet(pipe[l]) /\ InSession(w, s, c))
         /\ TypeOK => \A l, k \in Links :
               c \in ToSet(pipe[l]) /\ c \in ToSet(pipe[k]) => l = k
  <1>1. \A l \in Links, w \in Workers, s \in Slots :
           ~(c \in ToSet(pipe[l]) /\ InSession(w, s, c))
    BY DEF PlacedInv
  <1>2. ASSUME TypeOK, NEW l \in Links, NEW k \in Links,
               c \in ToSet(pipe[l]), c \in ToSet(pipe[k])
        PROVE  l = k
    <2>1. pipe[l] \in Seq(Conns) /\ pipe[k] \in Seq(Conns)
      BY <1>2 DEF TypeOK
    <2>2. PICK i \in DOMAIN pipe[l] : pipe[l][i] = c
      BY <1>2, <2>1, Rows
    <2>3. PICK j \in DOMAIN pipe[k] : pipe[k][j] = c
      BY <1>2, <2>1, Rows
    <2>4. i \in Nat /\ j \in Nat
      BY <2>1
    <2>5. InPipe(l, i, c) /\ InPipe(k, j, c)
      BY <2>2, <2>3 DEF InPipe
    <2>6. QED
      BY <2>4, <2>5 DEF PlacedInv
  <1>3. QED
    BY <1>1, <1>2

(* A session that is closed gives up its connection.                       *)
LEMMA ClosedKeeps ==
  ASSUME TypeOK, PlacedInv, NEW w \in Workers, NEW s \in Slots,
         nw_svr_close_clt(w, s), UNCHANGED <<backlog, accepted, pipe, served>>
  PROVE  PlacedInv'
  <1> DEFINE L == ToSet(ses[w][s].conn)
  <1>1. /\ ses[w][s] \in Session /\ ses \in [Workers -> [Slots -> Session]]
        /\ ses' = [ses EXCEPT ![w][s] = NoSession] /\ copies' = Close(copies, L)
    BY DEF TypeOK, nw_svr_close_clt
  <1>2. \A v \in Workers, t \in Slots :
           ses'[v][t] = IF v = w /\ t = s THEN NoSession ELSE ses[v][t]
    BY <1>1
  <1>3. \A c \in Conns : c \in L <=> InSession(w, s, c)
    <2>1. CASE ses[w][s].conn = <<>>
      BY <2>1 DEF ToSet, InSession
    <2>2. CASE \E d \in Conns : ses[w][s].conn = <<d>>
      BY <2>2 DEF ToSet, InSession
    <2>3. QED
      BY <1>1, <2>1, <2>2 DEF Session
  <1>4. L \subseteq Conns
    <2>1. CASE ses[w][s].conn = <<>>
      BY <2>1 DEF ToSet
    <2>2. CASE \E d \in Conns : ses[w][s].conn = <<d>>
      BY <2>2 DEF ToSet
    <2>3. QED
      BY <1>1, <2>1, <2>2 DEF Session
  <1> HIDE DEF L
  <1>5. \A c \in Conns, v \in Workers, t \in Slots :
           InSession(v, t, c)' <=> InSession(v, t, c) /\ ~(v = w /\ t = s)
    BY <1>2 DEF InSession, NoSession
  <1>6. ASSUME NEW c \in L
        PROVE  Somewhere(c) /\ ~Somewhere(c)'
    <2>1. c \in Conns /\ InSession(w, s, c)
      BY <1>3, <1>4
    <2>2. \A l \in Links : c \notin ToSet(pipe'[l])
      BY <2>1, OnePlace
    <2>3. \A v \in Workers, t \in Slots : ~InSession(v, t, c)'
      BY <1>5, <2>1 DEF PlacedInv
    <2>4. QED
      BY <2>1, <2>2, <2>3 DEF Somewhere
  <1>7. ASSUME NEW c \in Conns \ L, Somewhere(c)
        PROVE  Somewhere(c)'
    BY <1>3, <1>5, <1>7 DEF Somewhere
  <1>8. \A v \in Workers, t \in Slots : ses'[v][t].conn \in {ses[v][t].conn, <<>>}
    BY <1>2 DEF NoSession
  <1>9. QED
    BY <1>1, <1>6, <1>7, <1>8, ReleasedKeeps

(* A link that is closed loses what is in it; a worker that dies also what *)
(* its sessions have.                                                      *)
Emptied(w, H) ==
    \/ H = {} /\ ses' = ses
    \/ H = Held(w) /\ ses' = [ses EXCEPT ![w] = [s \in Slots |-> NoSession]]

LEMMA UnlinkedKeeps ==
  ASSUME TypeOK, PlacedInv, NEW w \in Workers, NEW H, Emptied(w, H),
         Unlinked(w, Close(copies, H)), UNCHANGED <<backlog, accepted, served>>
  PROVE  /\ PlacedInv'
         /\ pipe' \in [Links -> Seq(Conns)] /\ link' \in [Workers -> 0..links]
         /\ \E L : copies' = Close(copies, L)
  <1> DEFINE Q == IF link[w] = 0 THEN {} ELSE ToSet(pipe[link[w]])
             L == H \cup Q
  <1>1. /\ links \in 0..MaxLinks /\ link \in [Workers -> 0..links]
        /\ pipe \in [Links -> Seq(Conns)] /\ ses \in [Workers -> [Slots -> Session]]
        /\ MaxLinks \in Nat
    BY DEF TypeOK, Bounds
  <1>2. link[w] # 0 => link[w] \in Links
    BY <1>1 DEF Links
  <1>3. \A c \in Conns : c \in H => \E s \in Slots : InSession(w, s, c)
    BY DEF Emptied, Held, InSession
  <1>4. H \subseteq Conns
    BY DEF Emptied, Held
  <1>5. Q \subseteq Conns
    BY <1>1, <1>2, Rows
  <1>6. \A c \in Conns : c \in Q => c \notin H
    BY <1>2, <1>3, OnePlace
  <1>7. copies' = Close(copies, L)
    <2>1. CASE link[w] = 0
      BY <2>1 DEF Unlinked
    <2>2. CASE link[w] # 0
      <3>1. copies' = Close(Close(copies, H), Q)
        BY <2>2 DEF Unlinked
      <3> HIDE DEF Q
      <3>2. \A c \in Conns :
              (IF c \in Q THEN Close(copies, H)[c] - 1 ELSE Close(copies, H)[c])
                = IF c \in L THEN copies[c] - 1 ELSE copies[c]
        BY <1>6 DEF Close
      <3>3. QED
        BY <3>1, <3>2 DEF Close
    <2>3. QED
      BY <2>1, <2>2
  <1>8. /\ pipe' \in [Links -> Seq(Conns)] /\ link' \in [Workers -> 0..links]
        /\ \A l \in Links : pipe'[l] = IF l = link[w] THEN <<>> ELSE pipe[l]
    <2>1. CASE link[w] = 0
      BY <1>1, <2>1 DEF Unlinked, Links
    <2>2. CASE link[w] # 0
      <3>1. 0 \in 0..links
        BY <1>1
      <3>2. <<>> \in Seq(Conns)
        OBVIOUS
      <3>3. /\ link' = [link EXCEPT ![w] = 0]
            /\ pipe' = [pipe EXCEPT ![link[w]] = <<>>]
        BY <2>2 DEF Unlinked
      <3>4. QED
        BY <1>1, <1>2, <2>2, <3>1, <3>2, <3>3
    <2>3. QED
      BY <2>1, <2>2
  <1>9. \A v \in Workers, s \in Slots :
           ses'[v][s].conn = IF v = w /\ H # {} THEN <<>> ELSE ses[v][s].conn
    <2>1. CASE H = {} /\ ses' = ses
      BY <2>1
    <2>2. CASE H = Held(w) /\ ses' = [ses EXCEPT ![w] = [s \in Slots |-> NoSession]]
      <3>1. \A v \in Workers, s \in Slots :
               ses'[v][s].conn = IF v = w THEN <<>> ELSE ses[v][s].conn
        BY <1>1, <2>2 DEF NoSession
      <3>2. ASSUME H = {}, NEW s \in Slots PROVE ses[w][s].conn = <<>>
        <4>1. ses[w][s].conn = <<>> \/ \E c \in Conns : ses[w][s].conn = <<c>>
          BY <1>1 DEF Session
        <4>2. QED
          BY <2>2, <3>2, <4>1 DEF Held
      <3>3. QED
        BY <3>1, <3>2
    <2>3. QED
      BY <2>1, <2>2 DEF Emptied
  <1> HIDE DEF Q
  <1>10. ASSUME NEW c \in L
         PROVE  Somewhere(c) /\ ~Somewhere(c)'
    <2>1. CASE c \in H
      <3>1. PICK s \in Slots : c \in Conns /\ InSession(w, s, c)
        BY <1>3, <1>4, <2>1
      <3>2. \A l \in Links : c \notin ToSet(pipe[l])
        BY <3>1, OnePlace
      <3>3. \A l \in Links : c \notin ToSet(pipe'[l])
        BY <1>8, <3>2 DEF ToSet
      <3>4. \A v \in Workers, t \in Slots : ~InSession(v, t, c)'
        BY <1>9, <2>1, <3>1 DEF InSession, PlacedInv
      <3>5. QED
        BY <3>1, <3>3, <3>4 DEF Somewhere
    <2>2. CASE c \in Q
      <3>1. c \in Conns /\ link[w] \in Links /\ c \in ToSet(pipe[link[w]])
        BY <1>2, <1>5, <2>2 DEF Q
      <3>2. /\ \A l \in Links : l # link[w] => c \notin ToSet(pipe[l])
            /\ \A v \in Workers, t \in Slots : ~InSession(v, t, c)
        BY <3>1, OnePlace
      <3>3. \A l \in Links : c \notin ToSet(pipe'[l])
        BY <1>8, <3>2 DEF ToSet
      <3>4. \A v \in Workers, t \in Slots : ~InSession(v, t, c)'
        BY <1>9, <3>2 DEF InSession
      <3>5. QED
        BY <3>1, <3>3, <3>4 DEF Somewhere
    <2>3. QED
      BY <2>1, <2>2
  <1>11. ASSUME NEW c \in Conns \ L, Somewhere(c)
         PROVE  Somewhere(c)'
    <2>1. CASE \E l \in Links : c \in ToSet(pipe[l])
      <3>1. PICK l \in Links : c \in ToSet(pipe[l])
        BY <2>1
      <3>2. l # link[w]
        BY <3>1 DEF Q, Links
      <3>3. QED
        BY <1>8, <3>1, <3>2 DEF Somewhere
    <2>2. CASE \E v \in Workers, s \in Slots : InSession(v, s, c)
      <3>1. PICK v \in Workers, s \in Slots : InSession(v, s, c)
        BY <2>2
      <3>2. ~(v = w /\ H # {})
        BY <3>1 DEF InSession, Emptied, Held
      <3>3. InSession(v, s, c)'
        BY <1>9, <3>1, <3>2 DEF InSession
      <3>4. QED
        BY <3>3 DEF Somewhere
    <2>3. QED
      BY <1>11, <2>1, <2>2 DEF Somewhere
  <1>12. PlacedInv'
    <2>1. \A l \in Links : pipe'[l] \in {pipe[l], <<>>}
      BY <1>8
    <2>2. \A v \in Workers, s \in Slots : ses'[v][s].conn \in {ses[v][s].conn, <<>>}
      BY <1>9
    <2> HIDE DEF L
    <2>3. QED
      BY <1>7, <1>10, <1>11, <2>1, <2>2, ReleasedKeeps
  <1>13. QED
    BY <1>7, <1>8, <1>12

(* A connection that is accepted goes into a link or is closed.            *)
LEMMA AcceptedKeeps ==
  ASSUME TypeOK, PlacedInv, NEW c \in Conns, Accept(c), UNCHANGED <<ses, served>>
  PROVE  /\ PlacedInv'
         /\ pipe' \in [Links -> Seq(Conns)]
         /\ backlog' \subseteq Conns /\ accepted' \subseteq Conns
         /\ DOMAIN copies' = Conns /\ copies' = [d \in Conns |-> copies'[d]]
         /\ UNCHANGED <<workers, link, links>>
  <1>1. /\ backlog \subseteq Conns /\ accepted \subseteq Conns
        /\ links \in 0..MaxLinks /\ workers \subseteq 1..links
        /\ pipe \in [Links -> Seq(Conns)] /\ copies \in [Conns -> Nat]
        /\ MaxLinks \in Nat
    BY DEF TypeOK, Bounds
  <1>2. /\ c \in backlog /\ backlog' = backlog \ {c} /\ accepted' = accepted \cup {c}
        /\ UNCHANGED <<workers, link, links>>
    BY DEF Accept, listener_on_accept
  <1>3. /\ c \notin accepted
        /\ \A w \in Workers, s \in Slots : ~InSession(w, s, c)
        /\ \A l \in Links : c \notin ToSet(pipe[l])
        /\ c \notin ToSet(served) /\ copies[c] = 0
    BY <1>2 DEF PlacedInv, Somewhere
  <1>4. CASE UNCHANGED <<pipe, copies>>
    <2>1. \A d \in Conns : Somewhere(d)' <=> Somewhere(d)
      BY <1>4 DEF Somewhere, InSession
    <2>2. /\ \A d \in Conns, l \in Links, i \in Nat : InPipe(l, i, d)' <=> InPipe(l, i, d)
          /\ \A d \in Conns, w \in Workers, s \in Slots :
                InSession(w, s, d)' <=> InSession(w, s, d)
      BY <1>4 DEF InPipe, InSession
    <2>3. PlacedInv'
      <3>1. /\ backlog' \cap accepted' = {}
            /\ \A l \in Links : ToSet(pipe'[l]) \subseteq accepted' \ ToSet(served')
            /\ ToSet(served') \subseteq accepted'
        BY <1>2, <1>4 DEF PlacedInv
      <3>2. /\ \A d \in Conns, l, k \in Links, i, j \in Nat :
                  InPipe(l, i, d)' /\ InPipe(k, j, d)' => l = k /\ i = j
            /\ \A d \in Conns, w, v \in Workers, s, t \in Slots :
                  InSession(w, s, d)' /\ InSession(v, t, d)' => w = v /\ s = t
            /\ \A d \in Conns, w \in Workers, s \in Slots :
                  InSession(w, s, d)' => d \in ToSet(served')
        BY <2>2 DEF PlacedInv
      <3>3. \A d \in Conns : copies'[d] = IF Somewhere(d)' THEN 1 ELSE 0
        BY <1>4, <2>1 DEF PlacedInv
      <3>4. QED
        BY <3>1, <3>2, <3>3 DEF PlacedInv
    <2>4. QED
      BY <1>1, <1>2, <1>4, <2>3
  <1>5. ASSUME NEW m \in workers, pipe' = [pipe EXCEPT ![m] = Append(@, c)],
               copies' = [copies EXCEPT ![c] = 1]
        PROVE  PlacedInv' /\ pipe' \in [Links -> Seq(Conns)]
    <2>1. m \in Links /\ pipe[m] \in Seq(Conns)
      BY <1>1 DEF Links
    <2> DEFINE n == Len(pipe[m]) + 1
    <2>2. /\ pipe' \in [Links -> Seq(Conns)]
          /\ pipe'[m] = Append(pipe[m], c)
          /\ \A l \in Links : l # m => pipe'[l] = pipe[l]
      BY <1>1, <1>5, <2>1
    <2>3. /\ DOMAIN pipe'[m] = 1..n /\ DOMAIN pipe[m] = 1..n - 1 /\ n \in Nat
          /\ \A i \in 1..n - 1 : pipe'[m][i] = pipe[m][i]
          /\ pipe'[m][n] = c
          /\ ToSet(pipe'[m]) = ToSet(pipe[m]) \cup {c}
      BY <2>1, <2>2, Appended
    <2> HIDE DEF n
    <2>4. ASSUME NEW d \in Conns, NEW l \in Links, NEW i \in Nat, InPipe(l, i, d)'
          PROVE  InPipe(l, i, d) \/ (d = c /\ l = m /\ i = n)
      <3>1. CASE l # m
        BY <2>2, <2>4, <3>1 DEF InPipe
      <3>2. CASE l = m
        <4>1. i \in 1..n /\ pipe'[m][i] = d
          BY <2>3, <2>4, <3>2 DEF InPipe
        <4>2. CASE i = n
          BY <2>3, <3>2, <4>1, <4>2
        <4>3. CASE i # n
          <5>1. i \in 1..n - 1
            BY <2>3, <4>1, <4>3
          <5>2. QED
            BY <2>3, <3>2, <4>1, <5>1 DEF InPipe
        <4>4. QED
          BY <4>2, <4>3
      <3>3. QED
        BY <3>1, <3>2
    <2>5. \A l \in Links, i \in Nat : ~InPipe(l, i, c)
      <3>1. \A l \in Links : pipe[l] \in Seq(Conns)
        BY <1>1
      <3>2. QED
        BY <1>3, <3>1, Rows DEF InPipe
    <2>6. \A d \in Conns, w \in Workers, s \in Slots :
             InSession(w, s, d)' <=> InSession(w, s, d)
      BY DEF InSession
    <2>7. /\ backlog' \cap accepted' = {}
          /\ \A l \in Links : ToSet(pipe'[l]) \subseteq accepted' \ ToSet(served')
          /\ ToSet(served') \subseteq accepted'
      <3>1. \A l \in Links : ToSet(pipe'[l]) \subseteq ToSet(pipe[l]) \cup {c}
        BY <2>2, <2>3
      <3>2. QED
        BY <1>2, <1>3, <3>1 DEF PlacedInv
    <2>8. \A d \in Conns, l, k \in Links, i, j \in Nat :
             InPipe(l, i, d)' /\ InPipe(k, j, d)' => l = k /\ i = j
      <3> TAKE d \in Conns, l, k \in Links, i, j \in Nat
      <3> HAVE InPipe(l, i, d)' /\ InPipe(k, j, d)'
      <3>1. InPipe(l, i, d) \/ (d = c /\ l = m /\ i = n)
        BY <2>4
      <3>2. InPipe(k, j, d) \/ (d = c /\ k = m /\ j = n)
        BY <2>4
      <3>3. QED
        BY <2>5, <3>1, <3>2 DEF PlacedInv
    <2>9. /\ \A d \in Conns, w, v \in Workers, s, t \in Slots :
                InSession(w, s, d)' /\ InSession(v, t, d)' => w = v /\ s = t
          /\ \A d \in Conns, w \in Workers, s \in Slots :
                InSession(w, s, d)' => d \in ToSet(served')
      BY <2>6 DEF PlacedInv
    <2>10. \A d \in Conns : copies'[d] = IF Somewhere(d)' THEN 1 ELSE 0
      <3> TAKE d \in Conns
      <3>1. copies'[d] = IF d = c THEN 1 ELSE copies[d]
        BY <1>1, <1>5
      <3>2. copies[d] = IF Somewhere(d) THEN 1 ELSE 0
        BY DEF PlacedInv
      <3>3. d # c => (Somewhere(d)' <=> Somewhere(d))
        BY <2>2, <2>3, <2>6 DEF Somewhere
      <3>4. Somewhere(c)'
        BY <2>1, <2>3 DEF Somewhere
      <3>5. QED
        BY <3>1, <3>2, <3>3, <3>4
    <2>11. PlacedInv'
      BY <2>7, <2>8, <2>9, <2>10 DEF PlacedInv
    <2>12. QED
      BY <2>2, <2>11
  <1>6. \/ UNCHANGED <<pipe, copies>>
        \/ \E m \in workers : /\ pipe' = [pipe EXCEPT ![m] = Append(@, c)]
                              /\ copies' = [copies EXCEPT ![c] = 1]
    BY DEF Accept, listener_on_accept
  <1>7. PlacedInv' /\ pipe' \in [Links -> Seq(Conns)]
    BY <1>1, <1>4, <1>5, <1>6
  <1>8. QED
    BY <1>1, <1>2, <1>6, <1>7

(* A descriptor that is taken from a link was in it alone.                 *)
LEMMA TakenFromLink ==
  ASSUME TypeOK, PlacedInv, NEW w \in Workers, on_recv_fd(w),
         NEW c, c = Head(pipe[link[w]])
  PROVE  /\ c \in Conns /\ Somewhere(c) /\ c \in accepted \ ToSet(served)
         /\ pipe' \in [Links -> Seq(Conns)]
         /\ \A l \in Links : c \notin ToSet(pipe'[l])
         /\ \A l \in Links : ToSet(pipe'[l]) \subseteq ToSet(pipe[l])
         /\ \A l \in Links : \A d \in ToSet(pipe[l]) : d # c => d \in ToSet(pipe'[l])
         /\ \A d \in Conns, l, k \in Links, i, j \in Nat :
               InPipe(l, i, d)' /\ InPipe(k, j, d)' => l = k /\ i = j
  <1> DEFINE m == link[w]
             q == pipe[m]
  <1>1. /\ links \in 0..MaxLinks /\ link \in [Workers -> 0..links]
        /\ pipe \in [Links -> Seq(Conns)] /\ MaxLinks \in Nat
    BY DEF TypeOK, Bounds
  <1>2. /\ m \in Links /\ q \in Seq(Conns) /\ q # <<>>
        /\ pipe' = [pipe EXCEPT ![m] = Tail(q)]
    BY <1>1 DEF Links, on_recv_fd
  <1> HIDE DEF q
  <1>3. /\ c = q[1] /\ c \in Conns /\ 1 \in DOMAIN q
        /\ Tail(q) \in Seq(Conns)
        /\ \A i \in DOMAIN Tail(q) : i + 1 \in DOMAIN q /\ Tail(q)[i] = q[i + 1]
        /\ \A i \in DOMAIN q :
              i # 1 => i - 1 \in DOMAIN Tail(q) /\ q[i] = Tail(q)[i - 1]
    <2>1. c = Head(q)
      BY DEF q
    <2>2. QED
      BY <1>2, <2>1, TailRows
  <1>4. /\ pipe' \in [Links -> Seq(Conns)] /\ pipe'[m] = Tail(q)
        /\ \A l \in Links : l # m => pipe'[l] = pipe[l]
    BY <1>1, <1>2, <1>3
  <1>5. q = pipe[m]
    BY DEF q
  <1> HIDE DEF m
  <1>6. InPipe(m, 1, c)
    BY <1>2, <1>3, <1>5 DEF InPipe
  <1>7. DOMAIN Tail(q) \subseteq Nat \ {0}
    BY <1>3
  <1>8. ASSUME NEW d \in Conns, NEW l \in Links, NEW i \in Nat, InPipe(l, i, d)'
        PROVE  /\ l # m => InPipe(l, i, d)
               /\ l = m => i # 0 /\ InPipe(l, i + 1, d)
    BY <1>3, <1>4, <1>5, <1>7, <1>8 DEF InPipe
  <1>9. \A d \in Conns, l, k \in Links, i, j \in Nat :
           InPipe(l, i, d) /\ InPipe(k, j, d) => l = k /\ i = j
    BY DEF PlacedInv
  <1>10. \A l \in Links, i \in Nat : ~InPipe(l, i, c)'
    <2> SUFFICES ASSUME NEW l \in Links, NEW i \in Nat, InPipe(l, i, c)' PROVE FALSE
      OBVIOUS
    <2>1. CASE l # m
      BY <1>2, <1>3, <1>6, <1>8, <1>9, <2>1
    <2>2. CASE l = m
      <3>1. i # 0 /\ InPipe(m, i + 1, c)
        BY <1>3, <1>8, <2>2
      <3>2. i + 1 = 1
        BY <1>2, <1>3, <1>6, <1>9, <3>1
      <3>3. QED
        BY <3>1, <3>2
    <2>3. QED
      BY <2>1, <2>2
  <1>11. \A l \in Links : c \notin ToSet(pipe'[l])
    <2> TAKE l \in Links
    <2>1. pipe'[l] \in Seq(Conns)
      BY <1>4
    <2>2. c \in ToSet(pipe'[l]) => \E i \in DOMAIN pipe'[l] : pipe'[l][i] = c
      BY <2>1, Rows
    <2>3. DOMAIN pipe'[l] \subseteq Nat
      BY <2>1
    <2>4. QED
      BY <1>10, <2>2, <2>3 DEF InPipe
  <1>12. \A l \in Links : ToSet(pipe'[l]) \subseteq ToSet(pipe[l])
    <2>1. ToSet(Tail(q)) \subseteq ToSet(q)
      BY <1>3 DEF ToSet
    <2>2. QED
      BY <1>4, <1>5, <2>1
  <1>13. \A l \in Links : \A d \in ToSet(pipe[l]) : d # c => d \in ToSet(pipe'[l])
    <2>1. ASSUME NEW d \in ToSet(q), d # c PROVE d \in ToSet(Tail(q))
      <3>1. PICK i \in DOMAIN q : q[i] = d
        BY DEF ToSet
      <3>2. i - 1 \in DOMAIN Tail(q) /\ d = Tail(q)[i - 1]
        BY <1>3, <2>1, <3>1
      <3>3. QED
        BY <3>2 DEF ToSet
    <2>2. QED
      BY <1>4, <1>5, <2>1
  <1>14. ASSUME NEW d \in Conns, NEW l \in Links, NEW k \in Links,
                NEW i \in Nat, NEW j \in Nat, InPipe(l, i, d)', InPipe(k, j, d)'
         PROVE  l = k /\ i = j
    <2>1. CASE l = m /\ k = m
      <3>1. InPipe(m, i + 1, d) /\ InPipe(m, j + 1, d)
        BY <1>8, <1>14, <2>1
      <3>2. i + 1 = j + 1
        BY <1>2, <1>9, <3>1
      <3>3. QED
        BY <2>1, <3>2
    <2>2. CASE l # m /\ k # m
      BY <1>8, <1>9, <1>14, <2>2
    <2>3. CASE l = m /\ k # m
      <3>1. InPipe(m, i + 1, d) /\ InPipe(k, j, d)
        BY <1>8, <1>14, <2>3
      <3>2. QED
        BY <1>2, <1>9, <2>3, <3>1
    <2>4. CASE l # m /\ k = m
      <3>1. InPipe(l, i, d) /\ InPipe(m, j + 1, d)
        BY <1>8, <1>14, <2>4
      <3>2. QED
        BY <1>2, <1>9, <2>4, <3>1
    <2>5. QED
      BY <2>1, <2>2, <2>3, <2>4
  <1>15. c \in ToSet(pipe[m])
    BY <1>3, <1>5 DEF ToSet
  <1>16. Somewhere(c) /\ c \in accepted \ ToSet(served)
    BY <1>2, <1>15 DEF Somewhere, PlacedInv
  <1>17. QED
    BY <1>3, <1>4, <1>11, <1>12, <1>13, <1>14, <1>16

(* It is closed, or has a session from then on.                            *)
LEMMA ReceivedKeeps ==
  ASSUME TypeOK, PlacedInv, SessionsInv, NEW w \in Workers, NEW s \in Slots,
         NEW good \in BOOLEAN, on_listener_recv_fd(w, s, good)
  PROVE  /\ PlacedInv'
         /\ pipe' \in [Links -> Seq(Conns)]
         /\ DOMAIN copies' = Conns /\ copies' = [d \in Conns |-> copies'[d]]
         /\ served' \in Seq(Conns)
  <1>0. PICK c : c = Head(pipe[link[w]])
    OBVIOUS
  <1>1. on_recv_fd(w) /\ ses[w][s].id = 0
    BY DEF on_listener_recv_fd
  <1>2. /\ good => /\ svr_id' = [svr_id EXCEPT ![w] = @ + 1]
                   /\ ses' = [ses EXCEPT ![w][s] =
                         [id |-> svr_id'[w], conn |-> <<c>>, split |-> FALSE]]
                   /\ served' = Append(served, c) /\ copies' = copies
        /\ ~good => /\ copies' = Close(copies, {c})
                    /\ ses' = ses /\ served' = served
        /\ backlog' = backlog /\ accepted' = accepted
    BY <1>0 DEF on_listener_recv_fd, on_recv_fd
  <1>3. /\ c \in Conns /\ Somewhere(c) /\ c \in accepted \ ToSet(served)
        /\ pipe' \in [Links -> Seq(Conns)]
        /\ \A l \in Links : c \notin ToSet(pipe'[l])
        /\ \A l \in Links : ToSet(pipe'[l]) \subseteq ToSet(pipe[l])
        /\ \A l \in Links : \A d \in ToSet(pipe[l]) : d # c => d \in ToSet(pipe'[l])
        /\ \A d \in Conns, l, k \in Links, i, j \in Nat :
              InPipe(l, i, d)' /\ InPipe(k, j, d)' => l = k /\ i = j
    BY <1>0, <1>1, TakenFromLink
  <1>4. /\ ses \in [Workers -> [Slots -> Session]] /\ copies \in [Conns -> Nat]
        /\ served \in Seq(Conns)
    BY DEF TypeOK
  <1>5. \A v \in Workers, t \in Slots, d \in Conns :
           InSession(v, t, d)' <=> InSession(v, t, d) \/ (good /\ v = w /\ t = s /\ d = c)
    <2>1. CASE ~good
      BY <1>2, <2>1 DEF InSession
    <2>2. CASE good
      <3>1. ses[w][s].conn = <<>>
        BY <1>1 DEF SessionsInv
      <3>2. \A v \in Workers, t \in Slots :
               ses'[v][t].conn = IF v = w /\ t = s THEN <<c>> ELSE ses[v][t].conn
        BY <1>2, <1>4, <2>2
      <3>3. QED
        BY <2>2, <3>1, <3>2 DEF InSession
    <2>3. QED
      BY <2>1, <2>2
  <1>6. \A v \in Workers, t \in Slots : ~InSession(v, t, c)
    BY <1>3 DEF PlacedInv
  <1>7. /\ served' \in Seq(Conns)
        /\ ToSet(served') = IF good THEN ToSet(served) \cup {c} ELSE ToSet(served)
    <2>1. CASE ~good
      BY <1>2, <1>4, <2>1
    <2>2. CASE good
      <3>1. /\ Append(served, c) \in Seq(Conns)
            /\ ToSet(Append(served, c)) = ToSet(served) \cup {c}
        BY <1>3, <1>4, Appended
      <3>2. QED
        BY <1>2, <2>2, <3>1
    <2>3. QED
      BY <2>1, <2>2
  <1>8. /\ backlog' \cap accepted' = {}
        /\ \A l \in Links : ToSet(pipe'[l]) \subseteq accepted' \ ToSet(served')
        /\ ToSet(served') \subseteq accepted'
    BY <1>2, <1>3, <1>7 DEF PlacedInv
  <1>9. /\ \A d \in Conns, u, v \in Workers, r, t \in Slots :
              InSession(u, r, d)' /\ InSession(v, t, d)' => u = v /\ r = t
        /\ \A d \in Conns, v \in Workers, t \in Slots :
              InSession(v, t, d)' => d \in ToSet(served')
    <2>1. /\ \A d \in Conns, u, v \in Workers, r, t \in Slots :
                InSession(u, r, d) /\ InSession(v, t, d) => u = v /\ r = t
          /\ \A d \in Conns, v \in Workers, t \in Slots :
                InSession(v, t, d) => d \in ToSet(served)
      BY DEF PlacedInv
    <2>2. \A d \in Conns, u, v \in Workers, r, t \in Slots :
              InSession(u, r, d)' /\ InSession(v, t, d)' => u = v /\ r = t
      <3> TAKE d \in Conns, u, v \in Workers, r, t \in Slots
      <3> HAVE InSession(u, r, d)' /\ InSession(v, t, d)'
      <3>1. CASE d = c
        BY <1>5, <1>6, <3>1
      <3>2. CASE d # c
        BY <1>5, <2>1, <3>2
      <3>3. QED
        BY <3>1, <3>2
    <2>3. QED
      BY <1>5, <1>7, <2>1, <2>2
  <1>10. \A d \in Conns : copies'[d] = IF Somewhere(d)' THEN 1 ELSE 0
    <2> TAKE d \in Conns
    <2>1. copies[d] = IF Somewhere(d) THEN 1 ELSE 0
      BY DEF PlacedInv
    <2>2. copies'[d] = IF d = c /\ ~good THEN copies[d] - 1 ELSE copies[d]
      BY <1>2 DEF Close
    <2>3. CASE d # c
      <3>1. \A v \in Workers, t \in Slots : InSession(v, t, d)' <=> InSession(v, t, d)
        BY <1>5, <2>3
      <3>2. \A l \in Links : d \in ToSet(pipe'[l]) <=> d \in ToSet(pipe[l])
        BY <1>3, <2>3
      <3>3. Somewhere(d)' <=> Somewhere(d)
        BY <3>1, <3>2 DEF Somewhere
      <3>4. QED
        BY <2>1, <2>2, <2>3, <3>3
    <2>4. CASE d = c /\ good
      <3>1. InSession(w, s, c)'
        BY <1>3, <1>5, <2>4
      <3>2. Somewhere(d)'
        BY <2>4, <3>1 DEF Somewhere
      <3>3. QED
        BY <1>3, <2>1, <2>2, <2>4, <3>2
    <2>5. CASE d = c /\ ~good
      <3>1. ~Somewhere(d)'
        BY <1>3, <1>5, <1>6, <2>5 DEF Somewhere
      <3>2. QED
        BY <1>3, <2>1, <2>2, <2>5, <3>1
    <2>6. QED
      BY <2>3, <2>4, <2>5
  <1>11. PlacedInv'
    BY <1>3, <1>8, <1>9, <1>10 DEF PlacedInv
  <1>12. DOMAIN copies' = Conns /\ copies' = [d \in Conns |-> copies'[d]]
    BY <1>2, <1>4 DEF Close
  <1>13. QED
    BY <1>3, <1>7, <1>11, <1>12

(* Nothing moves.                                                          *)
LEMMA PlacedStays ==
  ASSUME TypeOK, PlacedInv, UNCHANGED <<backlog, accepted, served, pipe, copies>>,
         \A w \in Workers, s \in Slots : ses'[w][s].conn = ses[w][s].conn
  PROVE  PlacedInv'
  <1>1. copies = Close(copies, {})
    BY DEF TypeOK, Close
  <1>2. \A c \in Conns : Somewhere(c)' <=> Somewhere(c)
    BY DEF Somewhere, InSession
  <1>3. QED
    BY <1>1, <1>2, ReleasedKeeps

-------------------------------------------------------------------------------
(* Sessions and the requests that wait.                                    *)

LEMMA NoSessionTyped == NoSession \in Session
  BY DEF NoSession, Session

LEMMA ClosedTyped ==
  ASSUME TypeOK, NEW w \in Workers, NEW s \in Slots, nw_svr_close_clt(w, s)
  PROVE  /\ ses' \in [Workers -> [Slots -> Session]]
         /\ DOMAIN copies' = Conns /\ copies' = [c \in Conns |-> copies'[c]]
         /\ \A v \in Workers, t \in Slots :
               ses'[v][t] = IF v = w /\ t = s THEN NoSession ELSE ses[v][t]
  <1>1. ses \in [Workers -> [Slots -> Session]]
    BY DEF TypeOK
  <1>2. ses' = [ses EXCEPT ![w][s] = NoSession]
    BY DEF nw_svr_close_clt
  <1>3. /\ ses' \in [Workers -> [Slots -> Session]]
        /\ \A v \in Workers, t \in Slots :
               ses'[v][t] = IF v = w /\ t = s THEN NoSession ELSE ses[v][t]
    BY <1>1, <1>2, NoSessionTyped
  <1>4. QED
    BY <1>3 DEF nw_svr_close_clt, Close

(* Sessions may close under requests that wait, and workers die with them. *)
LEMMA EntriesKept ==
  ASSUME TypeOK, SessionsInv, EntriesInv, NoneUnanswered,
         \A v \in Workers, t \in Slots :
            \/ ses'[v][t].id = ses[v][t].id /\ ses'[v][t].conn = ses[v][t].conn
            \/ ses'[v][t].id = 0 /\ ses'[v][t].conn = <<>>,
         \A v \in Workers :
            \/ state'[v] = state[v]
            \/ state'[v] = {} /\ \A t \in Slots : ses'[v][t].conn = <<>>,
         UNCHANGED <<svr_id, served, asked, answers>>
  PROVE  SessionsInv' /\ EntriesInv' /\ NoneUnanswered'
  <1>1. /\ ses \in [Workers -> [Slots -> Session]] /\ svr_id \in [Workers -> Nat]
        /\ state \in [Workers -> SUBSET Entry]
    BY DEF TypeOK
  <1>2. SessionsInv'
    BY <1>1 DEF SessionsInv
  <1>3. \A v \in Workers : \A e \in state'[v] :
           /\ e \in state[v] /\ e \in Entry
           /\ SameSession(v, e)' => SameSession(v, e) /\
                                    ses'[v][e.ses].conn = ses[v][e.ses].conn
    BY <1>1 DEF Entry, SameSession
  <1>4. EntriesInv'
    <2>1. \A v \in Workers : \A e \in state'[v] :
             /\ e.id \in 1..Len(asked) /\ e.ses_id <= svr_id[v]
             /\ answers[e.id] = <<>>
             /\ SameSession(v, e)' => ses'[v][e.ses].conn = <<asked[e.id]>>
      BY <1>3 DEF EntriesInv
    <2>2. \A v, u \in Workers : \A d \in state'[v], e \in state'[u] :
             d.id = e.id => v = u /\ d = e
      BY <1>3 DEF EntriesInv
    <2>3. /\ ToSet(asked) \subseteq ToSet(served)
          /\ \A r \in 1..MaxRequests : r > Len(asked) => answers[r] = <<>>
      BY DEF EntriesInv
    <2>4. QED
      BY <2>1, <2>2, <2>3 DEF EntriesInv
  <1>5. NoneUnanswered'
    <2> SUFFICES ASSUME NEW r \in DOMAIN asked, NEW v \in Workers, NEW t \in Slots,
                        answers[r] = <<>>, Opened(r, v, t)'
                 PROVE  \E e \in state'[v] :
                           e.id = r /\ e.ses = t /\ e.ses_id = ses'[v][t].id
      BY DEF NoneUnanswered
    <2>1. ses'[v][t].conn # <<>>
      BY DEF Opened
    <2>2. Opened(r, v, t) /\ state'[v] = state[v] /\ ses'[v][t].id = ses[v][t].id
      BY <2>1 DEF Opened
    <2>3. QED
      BY <2>2 DEF NoneUnanswered
  <1>6. QED
    BY <1>2, <1>4, <1>5

(* An entry is gone when its request is answered, or its session.          *)
LEMMA AnsweredKeeps ==
  ASSUME TypeOK, PlacedInv, SessionsInv, EntriesInv, NoneUnanswered,
         NEW w \in Workers, NEW e \in state[w], NEW ok \in BOOLEAN,
         Answer(w, e.ses, IF SameSession(w, e) THEN {e.id} ELSE {}, ok),
         state' = [state EXCEPT ![w] = @ \ {e}],
         UNCHANGED <<backlog, accepted, pipe, served, asked, svr_id>>
  PROVE  /\ PlacedInv' /\ SessionsInv' /\ EntriesInv' /\ NoneUnanswered'
         /\ ses' \in [Workers -> [Slots -> Session]]
         /\ answers' \in [1..MaxRequests -> Seq(Conns)]
         /\ DOMAIN copies' = Conns /\ copies' = [c \in Conns |-> copies'[c]]
  <1> DEFINE s == e.ses
             rs == IF SameSession(w, e) THEN {e.id} ELSE {}
  <1>1. /\ ses \in [Workers -> [Slots -> Session]] /\ svr_id \in [Workers -> Nat]
        /\ state \in [Workers -> SUBSET Entry] /\ asked \in Seq(Conns)
        /\ copies \in [Conns -> Nat] /\ MaxRequests \in Nat
        /\ answers \in [1..MaxRequests -> Seq(Conns)] /\ Len(asked) <= MaxRequests
    BY DEF TypeOK, Bounds
  <1>2. /\ e \in Entry /\ s \in Slots /\ e.ses_id # 0 /\ e.id \in DOMAIN asked
        /\ e.id \in 1..MaxRequests /\ answers[e.id] = <<>>
        /\ SameSession(w, e) => ses[w][s].conn = <<asked[e.id]>>
    <2>1. e \in Entry /\ e.id \in 1..Len(asked)
      BY <1>1 DEF EntriesInv
    <2>2. e.ses \in Slots /\ e.ses_id # 0
      BY <2>1 DEF Entry
    <2>3. e.id \in DOMAIN asked /\ e.id \in 1..MaxRequests
      BY <1>1, <2>1
    <2>4. answers[e.id] = <<>>
      BY DEF EntriesInv
    <2>5. SameSession(w, e) => ses[w][e.ses].conn = <<asked[e.id]>>
      BY DEF EntriesInv
    <2>6. QED
      BY <2>1, <2>2, <2>3, <2>4, <2>5
  <1>3. \A v \in Workers :
           state'[v] = IF v = w THEN state[w] \ {e} ELSE state[v]
    BY <1>1
  <1>4. \A v \in Workers : \A d \in state'[v] : d \in state[v] /\ d.id # e.id
    BY <1>3 DEF EntriesInv
  <1>5. CASE /\ UNCHANGED <<ses, copies>>
             /\ answers' = [r \in DOMAIN answers |->
                   IF r \in rs THEN Append(answers[r], ses[w][s].conn[1]) ELSE answers[r]]
    <2>1. PlacedInv'
      BY <1>5, PlacedStays
    <2>2. SessionsInv'
      BY <1>5 DEF SessionsInv
    <2>3. answers' \in [1..MaxRequests -> Seq(Conns)]
      <3>1. SameSession(w, e) => ses[w][s].conn[1] = asked[e.id] /\ asked[e.id] \in Conns
        <4>1. asked[e.id] \in Conns
          <5>1. \A q \in Seq(Conns) : \A i \in DOMAIN q : q[i] \in Conns
            OBVIOUS
          <5>2. QED
            BY <1>1, <1>2, <5>1
        <4>2. SameSession(w, e) => ses[w][s].conn = <<asked[e.id]>>
          BY <1>2
        <4>3. QED
          BY <4>1, <4>2
      <3>2. ASSUME NEW r \in 1..MaxRequests
            PROVE  answers'[r] \in Seq(Conns)
        <4>1. CASE r \in rs
          <5>1. SameSession(w, e)
            BY <4>1
          <5>2. answers'[r] = Append(answers[r], asked[e.id])
            BY <1>1, <1>5, <3>1, <4>1, <5>1
          <5>3. QED
            BY <1>1, <3>1, <5>1, <5>2
        <4>2. CASE r \notin rs
          BY <1>1, <1>5, <4>2
        <4>3. QED
          BY <4>1, <4>2
      <3>3. QED
        BY <1>1, <1>5, <3>2
    <2>4. \A r \in 1..MaxRequests : r # e.id => answers'[r] = answers[r]
      BY <1>1, <1>5
    <2>5. EntriesInv'
      <3>1. \A v \in Workers : \A d \in state'[v] :
               /\ d.id \in 1..Len(asked) /\ d.ses_id <= svr_id[v]
               /\ answers'[d.id] = <<>>
               /\ SameSession(v, d)' => ses'[v][d.ses].conn = <<asked[d.id]>>
        <4> TAKE v \in Workers
        <4> TAKE d \in state'[v]
        <4>1. d \in state[v] /\ d.id # e.id
          BY <1>4
        <4>2. d.id \in 1..Len(asked) /\ answers[d.id] = <<>> /\ d.ses_id <= svr_id[v]
              /\ (SameSession(v, d) => ses[v][d.ses].conn = <<asked[d.id]>>)
          BY <4>1 DEF EntriesInv
        <4>3. d.id \in 1..MaxRequests
          BY <1>1, <4>2
        <4>4. QED
          BY <1>5, <2>4, <4>1, <4>2, <4>3 DEF SameSession
      <3>2. \A v, u \in Workers : \A d \in state'[v], f \in state'[u] :
               d.id = f.id => v = u /\ d = f
        BY <1>4 DEF EntriesInv
      <3>3. \A r \in 1..MaxRequests : r > Len(asked) => answers'[r] = <<>>
        <4>1. \A r \in 1..MaxRequests : r > Len(asked) => r # e.id
          BY <1>1, <1>2
        <4>2. QED
          BY <2>4, <4>1 DEF EntriesInv
      <3>4. ToSet(asked') \subseteq ToSet(served')
        BY DEF EntriesInv
      <3>5. \A v \in Workers : \A d \in state'[v] :
               /\ d.id \in 1..Len(asked') /\ d.ses_id <= svr_id'[v]
               /\ answers'[d.id] = <<>>
               /\ SameSession(v, d)' => ses'[v][d.ses].conn = <<asked'[d.id]>>
        BY <3>1
      <3>6. \A r \in 1..MaxRequests : r > Len(asked') => answers'[r] = <<>>
        BY <3>3
      <3>7. QED
        BY <3>2, <3>4, <3>5, <3>6 DEF EntriesInv
    <2>6. NoneUnanswered'
      <3> SUFFICES ASSUME NEW r \in DOMAIN asked, NEW v \in Workers, NEW t \in Slots,
                          answers'[r] = <<>>, Opened(r, v, t)
                   PROVE  \E d \in state'[v] :
                             d.id = r /\ d.ses = t /\ d.ses_id = ses[v][t].id
        BY <1>5 DEF NoneUnanswered, Opened
      <3>1. r \in 1..MaxRequests
        BY <1>1
      <3>2. answers[r] = <<>>
        BY <1>2, <2>4, <3>1
      <3>3. PICK d \in state[v] : d.id = r /\ d.ses = t /\ d.ses_id = ses[v][t].id
        BY <3>2 DEF NoneUnanswered
      <3>4. CASE d = e /\ v = w
        <4>1. SameSession(w, e)
          BY <3>3, <3>4 DEF SameSession
        <4>2. e.id \in rs
          BY <4>1
        <4>3. answers'[r] = Append(<<>>, ses[w][s].conn[1])
          BY <1>1, <1>2, <1>5, <3>3, <3>4, <4>2
        <4>4. QED
          BY <4>3
      <3>5. CASE ~(d = e /\ v = w)
        BY <1>3, <3>3, <3>5
      <3>6. QED
        BY <3>4, <3>5
    <2>7. QED
      BY <1>1, <1>5, <2>1, <2>2, <2>3, <2>5, <2>6
  <1>6. CASE SameSession(w, e) /\ nw_svr_close_clt(w, s) /\ UNCHANGED answers
    <2>1. PlacedInv'
      BY <1>2, <1>6, ClosedKeeps
    <2>2. /\ ses' \in [Workers -> [Slots -> Session]]
          /\ DOMAIN copies' = Conns /\ copies' = [c \in Conns |-> copies'[c]]
          /\ \A v \in Workers, t \in Slots :
                ses'[v][t] = IF v = w /\ t = s THEN NoSession ELSE ses[v][t]
      BY <1>2, <1>6, ClosedTyped
    <2>3. SessionsInv'
      <3>1. \A v \in Workers, t \in Slots :
               /\ ses'[v][t].id <= svr_id[v]
               /\ ses'[v][t].id = 0 <=> ses'[v][t].conn = <<>>
        <4> TAKE v \in Workers, t \in Slots
        <4>1. CASE v = w /\ t = s
          <5>1. ses'[v][t].id = 0 /\ ses'[v][t].conn = <<>>
            BY <2>2, <4>1 DEF NoSession
          <5>2. QED
            BY <1>1, <5>1
        <4>2. CASE ~(v = w /\ t = s)
          BY <2>2, <4>2 DEF SessionsInv
        <4>3. QED
          BY <4>1, <4>2
      <3>2. QED
        BY <3>1 DEF SessionsInv
    <2>4. \A v \in Workers : \A d \in state'[v] :
             SameSession(v, d)' => SameSession(v, d) /\ ses'[v][d.ses] = ses[v][d.ses]
      <3> TAKE v \in Workers
      <3> TAKE d \in state'[v]
      <3>1. d \in Entry
        BY <1>1, <1>4
      <3>2. d.ses \in Slots /\ d.ses_id # 0
        BY <3>1 DEF Entry
      <3>3. QED
        BY <2>2, <3>2 DEF SameSession, NoSession
    <2>5. EntriesInv'
      <3>1. \A v \in Workers : \A d \in state'[v] :
               /\ d.id \in 1..Len(asked) /\ d.ses_id <= svr_id[v]
               /\ answers[d.id] = <<>>
               /\ SameSession(v, d)' => ses'[v][d.ses].conn = <<asked[d.id]>>
        <4> TAKE v \in Workers
        <4> TAKE d \in state'[v]
        <4>1. d \in state[v]
          BY <1>4
        <4>2. /\ d.id \in 1..Len(asked) /\ d.ses_id <= svr_id[v]
              /\ answers[d.id] = <<>>
          BY <4>1 DEF EntriesInv
        <4>3. SameSession(v, d) => ses[v][d.ses].conn = <<asked[d.id]>>
          BY <4>1 DEF EntriesInv
        <4>4. QED
          BY <2>4, <4>2, <4>3
      <3>2. \A v, u \in Workers : \A d \in state'[v], f \in state'[u] :
               d.id = f.id => v = u /\ d = f
        BY <1>4 DEF EntriesInv
      <3>3. QED
        BY <1>6, <3>1, <3>2 DEF EntriesInv
    <2>6. NoneUnanswered'
      <3> SUFFICES ASSUME NEW r \in DOMAIN asked, NEW v \in Workers, NEW t \in Slots,
                          answers[r] = <<>>, Opened(r, v, t)'
                   PROVE  \E d \in state'[v] :
                             d.id = r /\ d.ses = t /\ d.ses_id = ses'[v][t].id
        BY <1>6 DEF NoneUnanswered
      <3>1. ~(v = w /\ t = s) /\ ses'[v][t] = ses[v][t]
        <4>1. ses'[v][t].conn # <<>>
          BY DEF Opened
        <4>2. QED
          BY <2>2, <4>1 DEF NoSession
      <3>2. Opened(r, v, t)
        BY <3>1 DEF Opened
      <3>3. PICK d \in state[v] : d.id = r /\ d.ses = t /\ d.ses_id = ses[v][t].id
        BY <3>2 DEF NoneUnanswered
      <3>4. ~(d = e /\ v = w)
        BY <3>1, <3>3
      <3>5. QED
        BY <1>3, <3>1, <3>3, <3>4
    <2>7. QED
      BY <1>1, <1>6, <2>1, <2>2, <2>3, <2>5, <2>6
  <1>7. QED
    BY <1>5, <1>6 DEF Answer

(* A new session has a number that no entry knows.                         *)
LEMMA ReceivedEntries ==
  ASSUME TypeOK, PlacedInv, SessionsInv, EntriesInv, NoneUnanswered,
         NEW w \in Workers, NEW s \in Slots, NEW good \in BOOLEAN,
         on_listener_recv_fd(w, s, good)
  PROVE  /\ SessionsInv' /\ EntriesInv' /\ NoneUnanswered'
         /\ ses' \in [Workers -> [Slots -> Session]]
         /\ svr_id' \in [Workers -> Nat]
  <1>0. PICK c : c = Head(pipe[link[w]])
    OBVIOUS
  <1>1. /\ on_recv_fd(w) /\ ses[w][s].id = 0
        /\ UNCHANGED <<state, asked, answers>>
    BY DEF on_listener_recv_fd
  <1>2. /\ good => /\ svr_id' = [svr_id EXCEPT ![w] = @ + 1]
                   /\ ses' = [ses EXCEPT ![w][s] =
                         [id |-> svr_id'[w], conn |-> <<c>>, split |-> FALSE]]
                   /\ served' = Append(served, c)
        /\ ~good => UNCHANGED <<svr_id, ses, served>>
    BY <1>0 DEF on_listener_recv_fd
  <1>3. c \in Conns /\ c \notin ToSet(served)
    BY <1>0, <1>1, TakenFromLink
  <1>4. /\ ses \in [Workers -> [Slots -> Session]] /\ svr_id \in [Workers -> Nat]
        /\ served \in Seq(Conns) /\ state \in [Workers -> SUBSET Entry]
        /\ asked \in Seq(Conns)
    BY DEF TypeOK
  <1>5. CASE ~good
    <2>1. UNCHANGED <<svr_id, ses, served, state, asked, answers>>
      BY <1>1, <1>2, <1>5
    <2>2. SessionsInv' /\ EntriesInv' /\ NoneUnanswered'
      BY <2>1, EntriesKept
    <2>3. QED
      BY <1>4, <2>1, <2>2
  <1>6. CASE good
    <2> DEFINE n == svr_id[w] + 1
    <2>1. /\ svr_id' \in [Workers -> Nat] /\ svr_id'[w] = n /\ n \in Nat \ {0}
          /\ \A v \in Workers : svr_id[v] <= svr_id'[v]
          /\ svr_id[w] < n
      <3>1. svr_id' = [svr_id EXCEPT ![w] = n] /\ svr_id[w] \in Nat
        BY <1>2, <1>4, <1>6
      <3>2. n \in Nat \ {0} /\ svr_id[w] < n
        BY <3>1
      <3> HIDE DEF n
      <3>3. \A v \in Workers : svr_id'[v] = IF v = w THEN n ELSE svr_id[v]
        BY <1>4, <3>1
      <3>4. svr_id' \in [Workers -> Nat]
        BY <1>4, <3>1, <3>2
      <3>5. \A v \in Workers : svr_id[v] \in Nat
        BY <1>4
      <3>6. QED
        BY <3>1, <3>2, <3>3, <3>4, <3>5
    <2>2. /\ [id |-> n, conn |-> <<c>>, split |-> FALSE] \in Session
          /\ ses' = [ses EXCEPT ![w][s] = [id |-> n, conn |-> <<c>>, split |-> FALSE]]
      BY <1>2, <1>3, <1>6, <2>1 DEF Session
    <2> HIDE DEF n
    <2>3. /\ ses' \in [Workers -> [Slots -> Session]]
          /\ ses'[w][s].id = n /\ ses'[w][s].conn = <<c>>
          /\ \A v \in Workers, t \in Slots :
                ~(v = w /\ t = s) => ses'[v][t] = ses[v][t]
      BY <1>4, <2>2
    <2>4. /\ DOMAIN served' = 1..Len(served) + 1
          /\ \A i \in 1..Len(served) : served'[i] = served[i]
          /\ served'[Len(served) + 1] = c
          /\ ToSet(served') = ToSet(served) \cup {c}
      <3> DEFINE q == Append(served, c)
      <3>1. /\ DOMAIN q = 1..Len(served) + 1
            /\ \A i \in 1..Len(served) : q[i] = served[i]
            /\ q[Len(served) + 1] = c
            /\ ToSet(q) = ToSet(served) \cup {c}
        BY <1>3, <1>4, Appended
      <3>2. served' = q
        BY <1>2, <1>6
      <3> HIDE DEF q
      <3>3. QED
        BY <3>1, <3>2
    <2>5. SessionsInv'
      <3>1. ASSUME NEW v \in Workers, NEW t \in Slots
            PROVE  /\ ses'[v][t].id <= svr_id'[v]
                   /\ ses'[v][t].id = 0 <=> ses'[v][t].conn = <<>>
        <4>1. CASE v = w /\ t = s
          <5>0. <<c>> # <<>>
            OBVIOUS
          <5>1. ses'[v][t].id = n /\ ses'[v][t].conn # <<>>
            BY <2>3, <4>1, <5>0
          <5>2. QED
            BY <2>1, <4>1, <5>1
        <4>2. CASE ~(v = w /\ t = s)
          <5>1. /\ ses'[v][t] = ses[v][t] /\ ses[v][t].id <= svr_id[v]
                /\ ses[v][t].id = 0 <=> ses[v][t].conn = <<>>
            BY <2>3, <4>2 DEF SessionsInv
          <5>2. /\ ses[v][t].id \in Nat /\ svr_id[v] \in Nat /\ svr_id'[v] \in Nat
                /\ svr_id[v] <= svr_id'[v]
            BY <1>4, <2>1 DEF Session
          <5>3. QED
            BY <5>1, <5>2
        <4>3. QED
          BY <4>1, <4>2
      <3>2. ASSUME NEW i \in DOMAIN served', NEW j \in DOMAIN served',
                   served'[i] = served'[j]
            PROVE  i = j
        <4>1. DOMAIN served = 1..Len(served) /\ Len(served) \in Nat
          BY <1>4
        <4>2. \A k \in 1..Len(served) : served[k] # c
          BY <1>3, <4>1 DEF ToSet
        <4>3. \A k \in DOMAIN served' : k \in 1..Len(served) \/ k = Len(served) + 1
          BY <2>4, <4>1
        <4>4. CASE i \in 1..Len(served) /\ j \in 1..Len(served)
          BY <2>4, <3>2, <4>1, <4>4 DEF SessionsInv
        <4>5. CASE ~(i \in 1..Len(served) /\ j \in 1..Len(served))
          BY <2>4, <3>2, <4>2, <4>3, <4>5
        <4>6. QED
          BY <4>4, <4>5
      <3>3. QED
        BY <3>1, <3>2 DEF SessionsInv
    <2>6. EntriesInv'
      <3>1. ASSUME NEW v \in Workers, NEW e \in state[v]
            PROVE  /\ e.id \in 1..Len(asked) /\ e.ses_id <= svr_id'[v]
                   /\ answers[e.id] = <<>>
                   /\ SameSession(v, e)' => ses'[v][e.ses].conn = <<asked[e.id]>>
        <4>1. /\ e.id \in 1..Len(asked) /\ e.ses_id <= svr_id[v]
              /\ answers[e.id] = <<>>
              /\ SameSession(v, e) => ses[v][e.ses].conn = <<asked[e.id]>>
          BY DEF EntriesInv
        <4>2. e \in Entry
          BY <1>4
        <4>3. e.ses \in Slots /\ e.ses_id \in Nat
          BY <4>2 DEF Entry
        <4>4. svr_id[v] \in Nat /\ svr_id'[v] \in Nat /\ svr_id[v] <= svr_id'[v]
          BY <1>4, <2>1
        <4>5. CASE v = w /\ e.ses = s
          <5>1. e.ses_id # n
            BY <2>1, <4>1, <4>3, <4>4, <4>5
          <5>2. ~SameSession(v, e)'
            BY <2>3, <4>5, <5>1 DEF SameSession
          <5>3. QED
            BY <4>1, <4>3, <4>4, <5>2
        <4>6. CASE ~(v = w /\ e.ses = s)
          <5>1. ses'[v][e.ses] = ses[v][e.ses]
            BY <2>3, <4>3, <4>6
          <5>2. SameSession(v, e)' <=> SameSession(v, e)
            BY <5>1 DEF SameSession
          <5>3. QED
            BY <4>1, <4>3, <4>4, <5>1, <5>2
        <4>7. QED
          BY <4>5, <4>6
      <3>2. ToSet(asked) \subseteq ToSet(served')
        BY <2>4 DEF EntriesInv
      <3>3. /\ \A r \in 1..MaxRequests : r > Len(asked) => answers[r] = <<>>
            /\ \A v, u \in Workers : \A d \in state[v], e \in state[u] :
                  d.id = e.id => v = u /\ d = e
        BY DEF EntriesInv
      <3>4. QED
        BY <1>1, <3>1, <3>2, <3>3 DEF EntriesInv
    <2>7. NoneUnanswered'
      <3> SUFFICES ASSUME NEW r \in DOMAIN asked, NEW v \in Workers, NEW t \in Slots,
                          answers[r] = <<>>, Opened(r, v, t)'
                   PROVE  \E d \in state[v] :
                             d.id = r /\ d.ses = t /\ d.ses_id = ses'[v][t].id
        BY <1>1 DEF NoneUnanswered
      <3>1. asked[r] \in ToSet(served)
        BY DEF EntriesInv, ToSet
      <3>2. ses'[v][t].conn = <<asked[r]>>
        BY <1>1 DEF Opened
      <3>3. ~(v = w /\ t = s)
        BY <1>3, <2>3, <3>1, <3>2
      <3>4. ses'[v][t] = ses[v][t]
        BY <2>3, <3>3
      <3>5. Opened(r, v, t)
        BY <3>2, <3>4 DEF Opened
      <3>6. QED
        BY <3>4, <3>5 DEF NoneUnanswered
    <2>8. QED
      BY <2>1, <2>3, <2>5, <2>6, <2>7
  <1>7. QED
    BY <1>5, <1>6

-------------------------------------------------------------------------------
(* Requests.                                                               *)

(* What a read does: there are k more requests, of which F are forwarded   *)
(* and `now` answered.  The others fail with the session.                  *)
Asks(w, s, c, k, F, now) ==
    /\ ses[w][s].id # 0 /\ ses[w][s].conn = <<c>> /\ c \in Conns
    /\ k \in Nat /\ Len(asked) + k <= MaxRequests
    /\ F \subseteq Len(asked) + 1..Len(asked) + k
    /\ now \subseteq Len(asked) + 1..Len(asked) + k
    /\ F \cap now = {}
    /\ asked' = asked \o [i \in 1..k |-> c]
    /\ answers' = [r \in DOMAIN answers |-> IF r \in now THEN <<c>> ELSE answers[r]]
    /\ state' = [state EXCEPT ![w] = @ \cup
          {[id |-> r, ses |-> s, ses_id |-> ses[w][s].id] : r \in F}]
    /\ \/ nw_svr_close_clt(w, s)
       \/ /\ F \cup now = Len(asked) + 1..Len(asked) + k
          /\ \E b \in BOOLEAN : ses' = [ses EXCEPT ![w][s].split = b]
          /\ UNCHANGED copies
    /\ UNCHANGED <<backlog, accepted, workers, link, links, pipe, svr_id, served>>

LEMMA ReadAsks ==
  ASSUME TypeOK, SessionsInv, NEW w \in Workers, NEW s \in Slots,
         NEW n \in 1..3 * MaxRequests, NEW ok \in BOOLEAN, on_recv_pkg(w, s, n, ok)
  PROVE  \E c, k, F, now : Asks(w, s, c, k, F, now)
  <1> DEFINE c == ses[w][s].conn[1]
             P == SubSeq(stream[c], 1, n)
             verdict(i) == VerdictAt(P, ses[w][s].split, i)
             completed == Completed(P, ses[w][s].split)
             requests == {i \in completed : verdict(i) # "end"}
             atOnce == {i \in requests : ~(verdict(i) = "forward" /\ w \in connected)}
             failed == ~ok /\ atOnce # {}
             new == IF failed THEN {i \in requests : \A j \in atOnce : i <= j}
                    ELSE requests
             number(i) == Len(asked) + Cardinality({j \in new : j <= i})
             forwarded == {number(i) : i \in new \ atOnce}
             answered == {number(i) : i \in atOnce}
             K == Cardinality(new)
             N == Len(asked)
             now == IF ok THEN answered ELSE {}
  <1>1. /\ ses[w][s].id # 0
        /\ n \in 1..Len(stream[c])
        /\ N + K <= MaxRequests
        /\ asked' = asked \o [i \in 1..K |-> c]
        /\ answers' = [r \in DOMAIN answers |->
              IF ok /\ r \in answered THEN <<c>> ELSE answers[r]]
        /\ state' = [state EXCEPT ![w] = @ \cup
              {[id |-> r, ses |-> s, ses_id |-> ses[w][s].id] : r \in forwarded}]
        /\ IF failed \/ \E i \in completed : Ends(P, ses[w][s].split, i)
           THEN nw_svr_close_clt(w, s)
           ELSE /\ ses' = [ses EXCEPT ![w][s].split = P[n].part = "body"]
                /\ UNCHANGED copies
        /\ UNCHANGED <<backlog, accepted, workers, link, links, pipe, svr_id, served>>
    BY DEF on_recv_pkg
  <1>2. /\ requests \subseteq completed /\ atOnce \subseteq requests
        /\ new \subseteq requests /\ (~failed => new = requests)
        /\ failed \in BOOLEAN /\ (ok => ~failed) /\ (~failed /\ ~ok => atOnce = {})
    OBVIOUS
  <1>3. completed \subseteq DOMAIN P
    BY DEF Completed
  <1>4. /\ \A i : number(i) = N + Cardinality({j \in new : j <= i})
        /\ \A x : x \in forwarded <=> \E i \in new \ atOnce : x = number(i)
        /\ \A x : x \in answered <=> \E i \in atOnce : x = number(i)
    OBVIOUS
  <1> HIDE DEF verdict, completed, requests, atOnce, failed, new, number, forwarded, answered
  <1>5. c \in Conns /\ ses[w][s].conn = <<c>>
    <2>1. ses[w][s].conn # <<>> /\ ses[w][s] \in Session
      BY <1>1 DEF TypeOK, SessionsInv
    <2>2. PICK d \in Conns : ses[w][s].conn = <<d>>
      BY <2>1 DEF Session
    <2>3. QED
      BY <2>2
  <1>6. DOMAIN P = 1..n /\ n \in Nat
    <2>1. stream[c] \in Seq(Piece)
      BY <1>5 DEF TypeOK
    <2> HIDE DEF c
    <2>2. QED
      BY <1>1, <2>1
  <1> HIDE DEF c, P
  <1>7. IsFiniteSet(new) /\ new \subseteq Nat
    <2>1. IsFiniteSet(1..n)
      BY <1>6, FS_Interval
    <2>2. new \in SUBSET (1..n)
      BY <1>2, <1>3, <1>6
    <2>3. IsFiniteSet(new)
      BY <2>1, <2>2, FS_Subset
    <2>4. \A i \in 1..n : i \in Nat
      BY <1>6
    <2>5. QED
      BY <2>2, <2>3, <2>4
  <1>8. /\ K \in Nat
        /\ \A i \in new : Rank(new)[i] \in 1..K
        /\ \A i, j \in new : Rank(new)[i] = Rank(new)[j] => i = j
        /\ \A m \in 1..K : \E i \in new : Rank(new)[i] = m
    BY <1>7, Ranks
  <1>9. \A i \in new : number(i) = N + Rank(new)[i]
    BY <1>4 DEF Rank, Upto
  <1>10. N \in Nat
    BY DEF TypeOK
  <1> HIDE DEF K, N
  <1>11. /\ \A i \in new : number(i) \in N + 1..N + K
         /\ \A i, j \in new : number(i) = number(j) => i = j
         /\ \A r \in N + 1..N + K : \E i \in new : number(i) = r
    <2>1. \A i \in new : number(i) \in N + 1..N + K
      BY <1>8, <1>9, <1>10
    <2>2. \A i, j \in new : number(i) = number(j) => i = j
      <3> TAKE i, j \in new
      <3>1. Rank(new)[i] \in 1..K /\ Rank(new)[j] \in 1..K
        BY <1>8
      <3>2. number(i) = N + Rank(new)[i] /\ number(j) = N + Rank(new)[j]
        BY <1>9
      <3>3. number(i) = number(j) => Rank(new)[i] = Rank(new)[j]
        BY <1>8, <1>10, <3>1, <3>2
      <3>4. QED
        BY <1>8, <3>3
    <2>3. ASSUME NEW r \in N + 1..N + K PROVE \E i \in new : number(i) = r
      <3>1. r - N \in 1..K
        BY <1>8, <1>10
      <3>2. PICK i \in new : Rank(new)[i] = r - N
        BY <1>8, <3>1
      <3>3. number(i) = r
        BY <1>8, <1>9, <1>10, <3>2
      <3>4. QED
        BY <3>3
    <2>4. QED
      BY <2>1, <2>2, <2>3
  <1>12. ok => atOnce \subseteq new
    BY <1>2
  <1>13. forwarded \subseteq N + 1..N + K
    BY <1>4, <1>11
  <1>14. now \subseteq N + 1..N + K
    BY <1>4, <1>11, <1>12
  <1>15. forwarded \cap now = {}
    <2> SUFFICES ASSUME NEW x \in forwarded, x \in now PROVE FALSE
      OBVIOUS
    <2>1. ok /\ x \in answered
      OBVIOUS
    <2>2. PICK i \in new \ atOnce : x = number(i)
      BY <1>4
    <2>3. PICK j \in atOnce : x = number(j)
      BY <1>4, <2>1
    <2>4. j \in new
      BY <1>12, <2>1
    <2>5. i = j
      BY <1>11, <2>2, <2>3, <2>4
    <2>6. QED
      BY <2>2, <2>3, <2>5
  <1>16. ~failed => forwarded \cup now = N + 1..N + K
    <2> SUFFICES ASSUME ~failed, NEW r \in N + 1..N + K PROVE r \in forwarded \cup now
      BY <1>13, <1>14
    <2>1. PICK i \in new : number(i) = r
      BY <1>11
    <2>2. CASE i \in atOnce
      <3>1. ok
        BY <1>2, <2>2
      <3>2. r \in answered
        BY <1>4, <2>1, <2>2
      <3>3. QED
        BY <3>1, <3>2
    <2>3. CASE i \notin atOnce
      BY <1>4, <2>1, <2>3
    <2>4. QED
      BY <2>2, <2>3
  <1>17. answers' = [r \in DOMAIN answers |-> IF r \in now THEN <<c>> ELSE answers[r]]
    BY <1>1
  <1> HIDE DEF now
  <1>18. \/ nw_svr_close_clt(w, s)
         \/ /\ forwarded \cup now = N + 1..N + K
            /\ \E b \in BOOLEAN : ses' = [ses EXCEPT ![w][s].split = b]
            /\ UNCHANGED copies
    <2>1. CASE failed \/ \E i \in completed : Ends(P, ses[w][s].split, i)
      BY <1>1, <2>1
    <2>2. CASE ~(failed \/ \E i \in completed : Ends(P, ses[w][s].split, i))
      <3> DEFINE b == P[n].part = "body"
      <3>1. ses' = [ses EXCEPT ![w][s].split = b] /\ UNCHANGED copies
        BY <1>1, <2>2
      <3>2. b \in BOOLEAN
        OBVIOUS
      <3> HIDE DEF b
      <3>3. QED
        BY <1>16, <2>2, <3>1, <3>2
    <2>3. QED
      BY <2>1, <2>2
  <1>19. Asks(w, s, c, K, forwarded, now)
    BY <1>1, <1>5, <1>8, <1>13, <1>14, <1>15, <1>17, <1>18 DEF Asks, N
  <1>20. QED
    BY <1>19

(* The requests are numbered on, and each that waits has an entry.         *)
More(q, c, k) == q \o [i \in 1..k |-> c]

Continues(S, q, c, k, a) ==
    /\ a \in Seq(S) /\ Len(a) = Len(q) + k /\ DOMAIN a = 1..Len(q) + k
    /\ \A r \in 1..Len(q) + k : a[r] = IF r <= Len(q) THEN q[r] ELSE c
    /\ ToSet(a) \subseteq ToSet(q) \cup {c}

LEMMA AskedSeq ==
  ASSUME NEW S, NEW q \in Seq(S), NEW c \in S, NEW k \in Nat
  PROVE  Continues(S, q, c, k, More(q, c, k))
  <1> DEFINE p == [i \in 1..k |-> c]
             a == More(q, c, k)
  <1>1. p \in Seq(S) /\ Len(p) = k /\ \A i \in 1..k : p[i] = c
    OBVIOUS
  <1> HIDE DEF p
  <1>2. a = q \o p
    BY DEF p, More
  <1>3. /\ a \in Seq(S) /\ Len(a) = Len(q) + k /\ DOMAIN a = 1..Len(q) + k
        /\ \A r \in 1..Len(q) + k : a[r] = IF r <= Len(q) THEN q[r] ELSE p[r - Len(q)]
    <2> DEFINE b == q \o p
    <2>1. /\ b \in Seq(S) /\ Len(b) = Len(q) + k /\ DOMAIN b = 1..Len(q) + k
          /\ \A r \in 1..Len(q) + k : b[r] = IF r <= Len(q) THEN q[r] ELSE p[r - Len(q)]
      BY <1>1
    <2>2. a = b
      BY <1>2
    <2> HIDE DEF b, a
    <2>3. QED
      BY <2>1, <2>2
  <1> HIDE DEF a
  <1>4. Len(q) \in Nat /\ DOMAIN q = 1..Len(q)
    OBVIOUS
  <1>5. \A r \in 1..Len(q) + k : a[r] = IF r <= Len(q) THEN q[r] ELSE c
    <2> TAKE r \in 1..Len(q) + k
    <2>1. r > Len(q) => r - Len(q) \in 1..k
      BY <1>4
    <2>2. QED
      BY <1>1, <1>3, <1>4, <2>1
  <1>6. \A x \in ToSet(a) : x \in ToSet(q) \cup {c}
    <2> TAKE x \in ToSet(a)
    <2>1. PICK r \in 1..Len(q) + k : a[r] = x
      BY <1>3 DEF ToSet
    <2>2. r <= Len(q) => r \in DOMAIN q
      BY <1>4
    <2>3. QED
      BY <1>5, <2>1, <2>2 DEF ToSet
  <1>7. QED
    BY <1>3, <1>5, <1>6 DEF a, Continues

LEMMA AsksKeep ==
  ASSUME TypeOK, PlacedInv, SessionsInv, EntriesInv, NoneUnanswered,
         NEW w \in Workers, NEW s \in Slots, NEW c, NEW k, NEW F, NEW now,
         Asks(w, s, c, k, F, now)
  PROVE  /\ PlacedInv' /\ SessionsInv' /\ EntriesInv' /\ NoneUnanswered'
         /\ ses' \in [Workers -> [Slots -> Session]]
         /\ state' \in [Workers -> SUBSET Entry]
         /\ asked' \in Seq(Conns) /\ Len(asked') <= MaxRequests
         /\ answers' \in [1..MaxRequests -> Seq(Conns)]
         /\ DOMAIN copies' = Conns /\ copies' = [d \in Conns |-> copies'[d]]
  <1> DEFINE N == Len(asked)
             entry(r) == [id |-> r, ses |-> s, ses_id |-> ses[w][s].id]
             kept(v, t) == /\ ses'[v][t].id = ses[v][t].id
                           /\ ses'[v][t].conn = ses[v][t].conn
  <1>1. /\ ses \in [Workers -> [Slots -> Session]] /\ svr_id \in [Workers -> Nat]
        /\ state \in [Workers -> SUBSET Entry] /\ asked \in Seq(Conns)
        /\ copies \in [Conns -> Nat] /\ MaxRequests \in Nat
        /\ answers \in [1..MaxRequests -> Seq(Conns)] /\ N <= MaxRequests /\ N \in Nat
    BY DEF TypeOK, Bounds
  <1>2. /\ ses[w][s].id # 0 /\ ses[w][s].conn = <<c>> /\ c \in Conns
        /\ k \in Nat /\ N + k <= MaxRequests
        /\ F \subseteq N + 1..N + k /\ now \subseteq N + 1..N + k
        /\ F \cap now = {}
        /\ asked' = asked \o [i \in 1..k |-> c]
        /\ answers' = [r \in DOMAIN answers |-> IF r \in now THEN <<c>> ELSE answers[r]]
        /\ state' = [state EXCEPT ![w] = @ \cup {entry(r) : r \in F}]
        /\ UNCHANGED <<backlog, accepted, workers, link, links, pipe, svr_id, served>>
    BY DEF Asks
  <1>3. \/ nw_svr_close_clt(w, s)
        \/ /\ F \cup now = N + 1..N + k
           /\ \E b \in BOOLEAN : ses' = [ses EXCEPT ![w][s].split = b]
           /\ UNCHANGED copies
    BY DEF Asks
  <1>4. /\ asked' \in Seq(Conns) /\ Len(asked') = N + k /\ DOMAIN asked' = 1..N + k
        /\ \A r \in 1..N + k : asked'[r] = IF r <= N THEN asked[r] ELSE c
        /\ ToSet(asked') \subseteq ToSet(asked) \cup {c}
    <2>1. asked \in Seq(Conns) /\ c \in Conns /\ k \in Nat
      BY <1>1, <1>2
    <2>2. Continues(Conns, asked, c, k, More(asked, c, k))
      BY <2>1, AskedSeq
    <2>3. asked' = More(asked, c, k)
      BY <1>2 DEF More
    <2>4. Continues(Conns, asked, c, k, asked')
      BY <2>2, <2>3
    <2>5. QED
      BY <2>4 DEF Continues
  <1> HIDE DEF N
  <1>5. /\ ses' \in [Workers -> [Slots -> Session]]
        /\ DOMAIN copies' = Conns /\ copies' = [d \in Conns |-> copies'[d]]
        /\ PlacedInv'
        /\ \A v \in Workers, t \in Slots :
              \/ kept(v, t)
              \/ ses'[v][t].id = 0 /\ ses'[v][t].conn = <<>> /\ v = w /\ t = s
        /\ kept(w, s) => F \cup now = N + 1..N + k
    <2>1. CASE nw_svr_close_clt(w, s)
      <3>1. /\ ses' \in [Workers -> [Slots -> Session]]
            /\ DOMAIN copies' = Conns /\ copies' = [d \in Conns |-> copies'[d]]
            /\ \A v \in Workers, t \in Slots :
                  ses'[v][t] = IF v = w /\ t = s THEN NoSession ELSE ses[v][t]
        BY <2>1, ClosedTyped
      <3>2. PlacedInv'
        BY <1>2, <2>1, ClosedKeeps
      <3>3. NoSession.id = 0 /\ NoSession.conn = <<>>
        BY DEF NoSession
      <3>4. QED
        BY <1>2, <3>1, <3>2, <3>3
    <2>2. CASE /\ F \cup now = N + 1..N + k
               /\ \E b \in BOOLEAN : ses' = [ses EXCEPT ![w][s].split = b]
               /\ UNCHANGED copies
      <3>1. PICK b \in BOOLEAN : ses' = [ses EXCEPT ![w][s].split = b]
        BY <2>2
      <3>2. ses[w][s] \in Session
        BY <1>1
      <3>3. [ses[w][s] EXCEPT !.split = b] \in Session
        BY <3>2 DEF Session
      <3>4. ses' = [ses EXCEPT ![w][s] = [ses[w][s] EXCEPT !.split = b]]
        BY <3>1
      <3>5. ses' \in [Workers -> [Slots -> Session]]
        BY <1>1, <3>3, <3>4
      <3>6. \A v \in Workers, t \in Slots : kept(v, t)
        BY <1>1, <3>2, <3>4 DEF Session
      <3>7. PlacedInv'
        BY <1>2, <2>2, <3>6, PlacedStays
      <3>8. QED
        BY <1>1, <2>2, <3>5, <3>6, <3>7
    <2>3. QED
      BY <1>3, <2>1, <2>2 DEF N
  <1>6. SessionsInv'
    <2>1. \A v \in Workers, t \in Slots :
             /\ ses'[v][t].id <= svr_id[v]
             /\ ses'[v][t].id = 0 <=> ses'[v][t].conn = <<>>
      <3> TAKE v \in Workers, t \in Slots
      <3>1. svr_id[v] \in Nat
        BY <1>1
      <3>2. QED
        BY <1>5, <3>1 DEF SessionsInv
    <2>2. QED
      BY <1>2, <2>1 DEF SessionsInv
  <1>7. /\ \A v \in Workers : v # w => state'[v] = state[v]
        /\ state'[w] = state[w] \cup {entry(r) : r \in F}
        /\ state' \in [Workers -> SUBSET Entry]
    <2>1. \A r \in F : entry(r) \in Entry
      <3>1. ses[w][s].id \in Nat \ {0}
        BY <1>1, <1>2 DEF Session
      <3>2. \A r \in F : r \in Nat
        BY <1>1, <1>2
      <3>3. QED
        BY <3>1, <3>2 DEF Entry
    <2> HIDE DEF entry
    <2>2. state[w] \cup {entry(r) : r \in F} \in SUBSET Entry
      BY <1>1, <2>1
    <2>3. QED
      BY <1>1, <1>2, <2>2
  <1>8. /\ answers' \in [1..MaxRequests -> Seq(Conns)]
        /\ \A r \in 1..MaxRequests : answers'[r] = IF r \in now THEN <<c>> ELSE answers[r]
    <2>1. <<c>> \in Seq(Conns)
      BY <1>2
    <2>2. QED
      BY <1>1, <1>2, <2>1
  <1>9. \A v \in Workers : \A e \in state'[v] :
           \/ e \in state[v] /\ e.id \in 1..N
           \/ v = w /\ \E r \in F : e = entry(r)
    BY <1>7 DEF EntriesInv, N
  <1>10. \A r \in F : /\ r \in 1..MaxRequests /\ r \notin 1..N /\ r \in 1..N + k
                      /\ answers[r] = <<>> /\ r \notin now
    <2> TAKE r \in F
    <2>1. r \in 1..MaxRequests /\ r \notin 1..N /\ r \in 1..N + k /\ r > N
      BY <1>1, <1>2
    <2>2. QED
      BY <1>2, <2>1 DEF EntriesInv, N
  <1>11. c \in ToSet(served)
    BY <1>2 DEF PlacedInv, InSession
  <1>12. EntriesInv'
    <2>1. ToSet(asked') \subseteq ToSet(served')
      BY <1>2, <1>4, <1>11 DEF EntriesInv
    <2>2. \A r \in 1..MaxRequests : r > Len(asked') => answers'[r] = <<>>
      <3> SUFFICES ASSUME NEW r \in 1..MaxRequests, r > N + k
                   PROVE  answers'[r] = <<>>
        BY <1>4
      <3>1. r > N /\ r \notin now
        BY <1>1, <1>2
      <3>2. QED
        BY <1>8, <3>1 DEF EntriesInv, N
    <2>3. ASSUME NEW v \in Workers, NEW e \in state'[v]
          PROVE  /\ e.id \in 1..Len(asked') /\ e.ses_id <= svr_id'[v]
                 /\ answers'[e.id] = <<>>
                 /\ SameSession(v, e)' => ses'[v][e.ses].conn = <<asked'[e.id]>>
      <3>1. CASE e \in state[v] /\ e.id \in 1..N
        <4>1. /\ answers[e.id] = <<>> /\ e.ses_id <= svr_id[v]
              /\ SameSession(v, e) => ses[v][e.ses].conn = <<asked[e.id]>>
          BY <3>1 DEF EntriesInv
        <4>2. e.ses \in Slots /\ e.ses_id # 0
          <5>1. e \in Entry
            BY <1>1, <3>1
          <5>2. QED
            BY <5>1 DEF Entry
        <4>3. e.id \in 1..N + k /\ e.id \in 1..MaxRequests /\ e.id \notin now /\ e.id <= N
          BY <1>1, <1>2, <3>1
        <4>4. SameSession(v, e)' => SameSession(v, e) /\
                                    ses'[v][e.ses].conn = ses[v][e.ses].conn
          BY <1>5, <4>2 DEF SameSession
        <4>5. asked'[e.id] = asked[e.id] /\ answers'[e.id] = <<>>
          BY <1>4, <1>8, <4>1, <4>3
        <4>6. QED
          BY <1>2, <1>4, <4>1, <4>3, <4>4, <4>5
      <3>2. CASE v = w /\ \E r \in F : e = entry(r)
        <4>1. PICK r \in F : e = entry(r)
          BY <3>2
        <4>2. e.id = r /\ e.ses = s /\ e.ses_id = ses[w][s].id
          BY <4>1
        <4>3. /\ r \in 1..MaxRequests /\ r \in 1..N + k /\ answers'[r] = <<>>
              /\ asked'[r] = c
          BY <1>1, <1>4, <1>8, <1>10
        <4>4. e.ses_id <= svr_id[w]
          BY <4>2 DEF SessionsInv
        <4>5. SameSession(w, e)' => ses'[w][s].conn = <<c>>
          BY <1>2, <1>5, <4>2 DEF SameSession
        <4>6. QED
          BY <1>2, <1>4, <3>2, <4>2, <4>3, <4>4, <4>5
      <3>3. QED
        BY <1>9, <3>1, <3>2
    <2>4. ASSUME NEW v \in Workers, NEW u \in Workers,
                 NEW d \in state'[v], NEW e \in state'[u], d.id = e.id
          PROVE  v = u /\ d = e
      <3>1. CASE d \in state[v] /\ e \in state[u]
        BY <2>4, <3>1 DEF EntriesInv
      <3>2. CASE /\ v = w /\ \E r \in F : d = entry(r)
                 /\ u = w /\ \E r \in F : e = entry(r)
        BY <2>4, <3>2
      <3>3. CASE /\ d.id \in 1..N /\ \E r \in F : e = entry(r)
        BY <1>10, <2>4, <3>3
      <3>4. CASE /\ e.id \in 1..N /\ \E r \in F : d = entry(r)
        BY <1>10, <2>4, <3>4
      <3>5. QED
        BY <1>9, <3>1, <3>2, <3>3, <3>4
    <2>5. QED
      BY <2>1, <2>2, <2>3, <2>4 DEF EntriesInv
  <1>13. NoneUnanswered'
    <2> SUFFICES ASSUME NEW r \in 1..N + k, NEW v \in Workers, NEW t \in Slots,
                        answers'[r] = <<>>, ses'[v][t].conn = <<asked'[r]>>
                 PROVE  \E e \in state'[v] :
                           e.id = r /\ e.ses = t /\ e.ses_id = ses'[v][t].id
      BY <1>4 DEF NoneUnanswered, Opened
    <2>1. kept(v, t)
      <3>1. ses'[v][t].conn # <<>>
        OBVIOUS
      <3>2. QED
        BY <1>5, <3>1
    <2>2. r \in 1..MaxRequests
      BY <1>1, <1>2
    <2>3. CASE r <= N
      <3>1. r \in DOMAIN asked /\ asked'[r] = asked[r]
        BY <1>1, <1>4, <2>3 DEF N
      <3>2. r \notin now
        BY <1>1, <1>2, <2>3
      <3>3. answers[r] = <<>>
        BY <1>8, <2>2, <3>2
      <3>4. Opened(r, v, t)
        BY <2>1, <3>1 DEF Opened
      <3>5. PICK e \in state[v] : e.id = r /\ e.ses = t /\ e.ses_id = ses[v][t].id
        BY <3>1, <3>3, <3>4 DEF NoneUnanswered
      <3>6. e \in state'[v]
        BY <1>7, <3>5
      <3>7. QED
        BY <2>1, <3>5, <3>6
    <2>4. CASE r > N
      <3>1. r \in N + 1..N + k /\ asked'[r] = c
        BY <1>1, <1>2, <1>4, <2>4
      <3>2. ses[v][t].conn = <<c>>
        BY <2>1, <3>1
      <3>3. v = w /\ t = s
        BY <1>2, <3>2 DEF PlacedInv, InSession
      <3>4. r \notin now
        <4>1. <<c>> # <<>>
          OBVIOUS
        <4>2. QED
          BY <1>8, <2>2, <4>1
      <3>5. r \in F
        BY <1>5, <2>1, <3>1, <3>3, <3>4
      <3>6. entry(r) \in state'[v]
        BY <1>7, <3>3, <3>5
      <3>7. QED
        BY <2>1, <3>3, <3>6
    <2>5. QED
      BY <1>1, <1>2, <2>3, <2>4
  <1>14. QED
    BY <1>2, <1>4, <1>5, <1>6, <1>7, <1>8, <1>12, <1>13

-------------------------------------------------------------------------------
(* The invariant.                                                          *)

LEMMA CopiesTyped ==
  ASSUME PlacedInv', DOMAIN copies' = Conns, copies' = [c \in Conns |-> copies'[c]]
  PROVE  copies' \in [Conns -> Nat]
  <1>1. \A c \in Conns : copies'[c] \in Nat
    BY DEF PlacedInv
  <1>2. QED
    BY <1>1

(* A step that leaves sessions and requests alone.                         *)
LEMMA EntriesSame ==
  ASSUME TypeOK, SessionsInv, EntriesInv, NoneUnanswered,
         UNCHANGED <<ses, state, svr_id, served, asked, answers>>
  PROVE  SessionsInv' /\ EntriesInv' /\ NoneUnanswered'
  BY EntriesKept

LEMMA InitInv ==
  ASSUME Bounds
  PROVE  Init => HttpInv
  <1> SUFFICES ASSUME Init PROVE HttpInv
    OBVIOUS
  <1>1. /\ backlog = {} /\ accepted = {} /\ copies = [c \in Conns |-> 0]
        /\ workers = {} /\ link = [w \in Workers |-> 0] /\ links = 0
        /\ pipe = [l \in Links |-> <<>>]
        /\ ses = [w \in Workers |-> [s \in Slots |-> NoSession]]
        /\ svr_id = [w \in Workers |-> 0] /\ state = [w \in Workers |-> {}]
        /\ stream = [c \in Conns |-> <<>>] /\ served = <<>> /\ asked = <<>>
        /\ answers = [r \in 1..MaxRequests |-> <<>>]
    BY DEF Init, InitListener, Links
  <1>2. TypeOK
    <2>1. \A S : <<>> \in Seq(S)
      OBVIOUS
    <2>2. /\ 0 \in Nat /\ 0 \in 0..MaxLinks /\ 0 \in 0..0
          /\ Len(asked) = 0 /\ 0 <= MaxRequests
      BY <1>1 DEF Bounds
    <2>3. /\ link \in [Workers -> 0..links] /\ pipe \in [Links -> Seq(Conns)]
          /\ copies \in [Conns -> Nat] /\ svr_id \in [Workers -> Nat]
          /\ state \in [Workers -> SUBSET Entry] /\ stream \in [Conns -> Seq(Piece)]
          /\ answers \in [1..MaxRequests -> Seq(Conns)]
      BY <1>1, <2>1, <2>2
    <2>4. ses \in [Workers -> [Slots -> Session]]
      BY <1>1, NoSessionTyped
    <2>5. QED
      BY <1>1, <2>1, <2>2, <2>3, <2>4 DEF TypeOK
  <1>3. ToSet(<<>>) = {}
    BY DEF ToSet
  <1>4. \A c \in Conns, w \in Workers, s \in Slots : ~InSession(w, s, c)
    BY <1>1 DEF InSession, NoSession
  <1>5. \A c \in Conns, l \in Links, i \in Nat : ~InPipe(l, i, c)
    BY <1>1 DEF InPipe
  <1>6. PlacedInv
    <2>1. \A c \in Conns : ~Somewhere(c)
      BY <1>1, <1>3, <1>4 DEF Somewhere
    <2>2. QED
      BY <1>1, <1>3, <1>4, <1>5, <2>1 DEF PlacedInv
  <1>7. SessionsInv
    BY <1>1 DEF SessionsInv, NoSession
  <1>8. EntriesInv
    BY <1>1, <1>3 DEF EntriesInv
  <1>9. NoneUnanswered
    BY <1>1 DEF NoneUnanswered
  <1>10. QED
    BY <1>2, <1>6, <1>7, <1>8, <1>9 DEF HttpInv

LEMMA ListenerInv ==
  ASSUME HttpInv, OfListener, UNCHANGED <<http, record>>
  PROVE  HttpInv'
  <1>1. /\ TypeOK /\ PlacedInv /\ SessionsInv /\ EntriesInv /\ NoneUnanswered
        /\ UNCHANGED <<ses, svr_id, state, stream, served, asked, answers>>
    BY DEF HttpInv, http, record
  <1>2. SessionsInv' /\ EntriesInv' /\ NoneUnanswered'
    BY <1>1, EntriesSame
  <1>3. SUFFICES TypeOK' /\ PlacedInv'
    BY <1>2 DEF HttpInv
  <1>4. /\ links \in 0..MaxLinks /\ workers \subseteq 1..links /\ MaxLinks \in Nat
        /\ link \in [Workers -> 0..links] /\ copies \in [Conns -> Nat]
        /\ backlog \subseteq Conns /\ accepted \subseteq Conns
    BY <1>1 DEF TypeOK, Bounds
  <1>5. ASSUME UNCHANGED <<pipe, copies>>, backlog' \cap accepted' = {},
               accepted \subseteq accepted'
        PROVE  PlacedInv'
    <2>1. /\ \A c \in Conns : Somewhere(c)' <=> Somewhere(c)
          /\ \A c \in Conns, l \in Links, i \in Nat : InPipe(l, i, c)' <=> InPipe(l, i, c)
          /\ \A c \in Conns, w \in Workers, s \in Slots :
                InSession(w, s, c)' <=> InSession(w, s, c)
      BY <1>1, <1>5 DEF Somewhere, InPipe, InSession
    <2>2. /\ \A c \in Conns, l, k \in Links, i, j \in Nat :
                InPipe(l, i, c)' /\ InPipe(k, j, c)' => l = k /\ i = j
          /\ \A c \in Conns, w, v \in Workers, s, t \in Slots :
                InSession(w, s, c)' /\ InSession(v, t, c)' => w = v /\ s = t
          /\ \A c \in Conns, w \in Workers, s \in Slots :
                InSession(w, s, c)' => c \in ToSet(served)
      BY <1>1, <2>1 DEF PlacedInv
    <2>3. /\ \A l \in Links : ToSet(pipe[l]) \subseteq accepted' \ ToSet(served)
          /\ ToSet(served) \subseteq accepted'
      BY <1>1, <1>5 DEF PlacedInv
    <2>4. \A c \in Conns : copies[c] = IF Somewhere(c)' THEN 1 ELSE 0
      BY <1>1, <2>1 DEF PlacedInv
    <2>5. QED
      BY <1>1, <1>5, <2>2, <2>3, <2>4 DEF PlacedInv
  <1>6. ASSUME NEW c \in Conns, Connect(c)
        PROVE  TypeOK' /\ PlacedInv'
    <2>1. PlacedInv'
      <3>1. backlog' \cap accepted' = {}
        BY <1>1, <1>6 DEF Connect, PlacedInv
      <3>2. QED
        BY <1>5, <1>6, <3>1 DEF Connect
    <2>2. TypeOK'
      BY <1>1, <1>6 DEF Connect, TypeOK
    <2>3. QED
      BY <2>1, <2>2
  <1>7. ASSUME NEW c \in Conns, ClientCloses(c)
        PROVE  TypeOK' /\ PlacedInv'
    <2>1. PlacedInv'
      BY <1>1, <1>5, <1>7 DEF ClientCloses, PlacedInv
    <2>2. TypeOK'
      BY <1>1, <1>7 DEF ClientCloses, TypeOK
    <2>3. QED
      BY <2>1, <2>2
  <1>8. ASSUME NEW c \in Conns, Accept(c)
        PROVE  TypeOK' /\ PlacedInv'
    <2>1. /\ PlacedInv'
          /\ pipe' \in [Links -> Seq(Conns)]
          /\ backlog' \subseteq Conns /\ accepted' \subseteq Conns
          /\ DOMAIN copies' = Conns /\ copies' = [d \in Conns |-> copies'[d]]
          /\ UNCHANGED <<workers, link, links>>
      BY <1>1, <1>8, AcceptedKeeps
    <2>2. copies' \in [Conns -> Nat]
      BY <2>1, CopiesTyped
    <2>3. QED
      BY <1>1, <2>1, <2>2 DEF TypeOK
  <1>9. ASSUME NEW w \in Workers, worker_on_new_connection(w)
        PROVE  TypeOK' /\ PlacedInv'
    <2>1. PlacedInv'
      BY <1>1, <1>5, <1>9 DEF worker_on_new_connection, PlacedInv
    <2>2. /\ links' = links + 1 /\ links < MaxLinks
          /\ link' = [link EXCEPT ![w] = links + 1]
          /\ workers' = workers \cup {links + 1}
      BY <1>9 DEF worker_on_new_connection
    <2>3. /\ links' \in 0..MaxLinks /\ 0..links \subseteq 0..links'
          /\ 1..links \subseteq 1..links' /\ links' \in 1..links'
      BY <1>4, <2>2
    <2>4. workers' \subseteq 1..links' /\ link' \in [Workers -> 0..links']
      <3>1. links' \in 0..links'
        BY <2>3
      <3>2. \A v \in Workers : link[v] \in 0..links'
        BY <1>4, <2>3
      <3>3. workers' \subseteq 1..links'
        BY <1>4, <2>2, <2>3
      <3>4. QED
        BY <1>4, <2>2, <3>1, <3>2, <3>3
    <2>5. QED
      BY <1>1, <1>9, <2>1, <2>3, <2>4 DEF worker_on_new_connection, TypeOK
  <1>10. ASSUME NEW w \in Workers, WorkerUnlinks(w)
         PROVE  TypeOK' /\ PlacedInv'
    <2>1. copies = Close(copies, {})
      BY <1>4 DEF Close
    <2>2. /\ Unlinked(w, Close(copies, {})) /\ Emptied(w, {})
          /\ UNCHANGED <<backlog, accepted, workers, links>>
      BY <1>1, <1>10, <2>1 DEF WorkerUnlinks, Emptied
    <2>3. /\ PlacedInv'
          /\ pipe' \in [Links -> Seq(Conns)] /\ link' \in [Workers -> 0..links]
          /\ \E L : copies' = Close(copies, L)
      BY <1>1, <2>2, UnlinkedKeeps
    <2>4. DOMAIN copies' = Conns /\ copies' = [c \in Conns |-> copies'[c]]
      BY <2>3 DEF Close
    <2>5. copies' \in [Conns -> Nat]
      BY <2>3, <2>4, CopiesTyped
    <2>6. QED
      BY <1>1, <2>2, <2>3, <2>5 DEF TypeOK
  <1>11. ASSUME NEW l \in Links, worker_on_connection_close(l)
         PROVE  TypeOK' /\ PlacedInv'
    <2>1. PlacedInv'
      BY <1>1, <1>5, <1>11 DEF worker_on_connection_close, PlacedInv
    <2>2. TypeOK'
      BY <1>1, <1>11 DEF worker_on_connection_close, TypeOK
    <2>3. QED
      BY <2>1, <2>2
  <1>12. ASSUME ListenerDies
         PROVE  TypeOK' /\ PlacedInv'
    <2>1. PlacedInv'
      BY <1>5, <1>12 DEF ListenerDies
    <2>2. TypeOK'
      BY <1>1, <1>12 DEF ListenerDies, TypeOK
    <2>3. QED
      BY <2>1, <2>2
  <1>13. QED
    BY <1>6, <1>7, <1>8, <1>9, <1>10, <1>11, <1>12 DEF OfListener, Links

LEMMA WriteInv ==
  ASSUME HttpInv, NEW c \in Conns, NEW kind \in Kinds, Write(c, kind)
  PROVE  HttpInv'
  <1>1. /\ TypeOK /\ PlacedInv /\ SessionsInv /\ EntriesInv /\ NoneUnanswered
        /\ UNCHANGED <<backlog, accepted, copies, workers, link, links, pipe, ses, svr_id,
                       state, served, asked, answers>>
        /\ stream' = [stream EXCEPT ![c] = @ \o Pieces(kind)]
    BY DEF HttpInv, Write, listener
  <1>2. stream' \in [Conns -> Seq(Piece)]
    <2>1. Pieces(kind) \in Seq(Piece)
      <3> DEFINE piece(part) == [part |-> part, kind |-> kind]
      <3>1. /\ piece("all") \in Piece /\ piece("head") \in Piece
            /\ piece("body") \in Piece /\ piece("rest") \in Piece
        BY DEF Piece
      <3>2. Pieces(kind) = IF kind = "not http" THEN <<piece("all")>>
                           ELSE <<piece("head"), piece("body"), piece("rest")>>
        BY DEF Pieces
      <3> HIDE DEF piece
      <3>3. \A a, b, d \in Piece : <<a>> \in Seq(Piece) /\ <<a, b, d>> \in Seq(Piece)
        OBVIOUS
      <3>4. QED
        BY <3>1, <3>2, <3>3
    <2>2. stream \in [Conns -> Seq(Piece)]
      BY <1>1 DEF TypeOK
    <2>3. stream[c] \o Pieces(kind) \in Seq(Piece)
      BY <2>1, <2>2
    <2>4. QED
      BY <1>1, <2>2, <2>3
  <1>3. TypeOK'
    BY <1>1, <1>2 DEF TypeOK
  <1>4. PlacedInv'
    BY <1>1, PlacedStays
  <1>5. SessionsInv' /\ EntriesInv' /\ NoneUnanswered'
    BY <1>1, EntriesSame
  <1>6. QED
    BY <1>3, <1>4, <1>5 DEF HttpInv

LEMMA ReadInv ==
  ASSUME HttpInv, NEW w \in Workers, NEW s \in Slots, NEW n \in 1..3 * MaxRequests,
         NEW ok \in BOOLEAN, on_recv_pkg(w, s, n, ok)
  PROVE  HttpInv'
  <1>1. TypeOK /\ PlacedInv /\ SessionsInv /\ EntriesInv /\ NoneUnanswered
    BY DEF HttpInv
  <1>2. PICK c, k, F, now : Asks(w, s, c, k, F, now)
    BY <1>1, ReadAsks
  <1>3. /\ PlacedInv' /\ SessionsInv' /\ EntriesInv' /\ NoneUnanswered'
        /\ ses' \in [Workers -> [Slots -> Session]]
        /\ state' \in [Workers -> SUBSET Entry]
        /\ asked' \in Seq(Conns) /\ Len(asked') <= MaxRequests
        /\ answers' \in [1..MaxRequests -> Seq(Conns)]
        /\ DOMAIN copies' = Conns /\ copies' = [d \in Conns |-> copies'[d]]
    BY <1>1, <1>2, AsksKeep
  <1>4. copies' \in [Conns -> Nat]
    BY <1>3, CopiesTyped
  <1>5. stream' \in [Conns -> Seq(Piece)]
    <2>1. PICK d : d = ses[w][s].conn[1]
      OBVIOUS
    <2>2. stream' = [stream EXCEPT ![d] = SubSeq(@, n + 1, Len(@))]
      BY <2>1 DEF on_recv_pkg
    <2>3. d = c /\ c \in Conns
      BY <1>2, <2>1 DEF Asks
    <2>4. stream \in [Conns -> Seq(Piece)] /\ stream[d] \in Seq(Piece)
      BY <1>1, <2>3 DEF TypeOK
    <2>5. SubSeq(stream[d], n + 1, Len(stream[d])) \in Seq(Piece)
      BY <2>4
    <2>6. QED
      BY <2>2, <2>3, <2>4, <2>5
  <1>6. UNCHANGED <<backlog, accepted, workers, link, links, pipe, svr_id, served>>
    BY <1>2 DEF Asks
  <1>7. TypeOK'
    BY <1>1, <1>3, <1>4, <1>5, <1>6 DEF TypeOK
  <1>8. QED
    BY <1>3, <1>7 DEF HttpInv

LEMMA OnTimerInv ==
  ASSUME HttpInv, NEW w \in Workers, NEW s \in Slots, on_timer(w, s)
  PROVE  HttpInv'
  <1>1. /\ TypeOK /\ PlacedInv /\ SessionsInv /\ EntriesInv /\ NoneUnanswered
        /\ nw_svr_close_clt(w, s)
        /\ UNCHANGED <<backlog, accepted, workers, link, links, pipe, svr_id,
                       state, stream, served, asked, answers>>
    BY DEF HttpInv, on_timer, record
  <1>2. /\ ses' \in [Workers -> [Slots -> Session]]
        /\ DOMAIN copies' = Conns /\ copies' = [c \in Conns |-> copies'[c]]
        /\ \A v \in Workers, t \in Slots :
              ses'[v][t] = IF v = w /\ t = s THEN NoSession ELSE ses[v][t]
    BY <1>1, ClosedTyped
  <1>3. PlacedInv'
    BY <1>1, ClosedKeeps
  <1>4. SessionsInv' /\ EntriesInv' /\ NoneUnanswered'
    <2>1. NoSession.id = 0 /\ NoSession.conn = <<>>
      BY DEF NoSession
    <2>2. \A v \in Workers, t \in Slots :
             \/ ses'[v][t].id = ses[v][t].id /\ ses'[v][t].conn = ses[v][t].conn
             \/ ses'[v][t].id = 0 /\ ses'[v][t].conn = <<>>
      BY <1>2, <2>1
    <2>3. QED
      BY <1>1, <2>2, EntriesKept
  <1>5. copies' \in [Conns -> Nat]
    BY <1>2, <1>3, CopiesTyped
  <1>6. TypeOK'
    BY <1>1, <1>2, <1>5 DEF TypeOK
  <1>7. QED
    BY <1>3, <1>4, <1>6 DEF HttpInv

LEMMA ReceiveInv ==
  ASSUME HttpInv, NEW w \in Workers, NEW s \in Slots, NEW good \in BOOLEAN,
         on_listener_recv_fd(w, s, good)
  PROVE  HttpInv'
  <1>1. TypeOK /\ PlacedInv /\ SessionsInv /\ EntriesInv /\ NoneUnanswered
    BY DEF HttpInv
  <1>2. /\ PlacedInv'
        /\ pipe' \in [Links -> Seq(Conns)]
        /\ DOMAIN copies' = Conns /\ copies' = [d \in Conns |-> copies'[d]]
        /\ served' \in Seq(Conns)
    BY <1>1, ReceivedKeeps
  <1>3. /\ SessionsInv' /\ EntriesInv' /\ NoneUnanswered'
        /\ ses' \in [Workers -> [Slots -> Session]]
        /\ svr_id' \in [Workers -> Nat]
    BY <1>1, ReceivedEntries
  <1>4. copies' \in [Conns -> Nat]
    BY <1>2, CopiesTyped
  <1>5. UNCHANGED <<backlog, accepted, workers, link, links, state, stream, asked, answers>>
    BY DEF on_listener_recv_fd, on_recv_fd
  <1>6. TypeOK'
    BY <1>1, <1>2, <1>3, <1>4, <1>5 DEF TypeOK
  <1>7. QED
    BY <1>2, <1>3, <1>6 DEF HttpInv

LEMMA RestartsInv ==
  ASSUME HttpInv, NEW w \in Workers, WorkerRestarts(w)
  PROVE  HttpInv'
  <1>1. /\ TypeOK /\ PlacedInv /\ SessionsInv /\ EntriesInv /\ NoneUnanswered
        /\ Unlinked(w, Close(copies, Held(w)))
        /\ ses' = [ses EXCEPT ![w] = [s \in Slots |-> NoSession]]
        /\ state' = [state EXCEPT ![w] = {}]
        /\ UNCHANGED <<backlog, accepted, workers, links, svr_id, stream, served, asked,
                       answers>>
    BY DEF HttpInv, WorkerRestarts, WorkerDies, record
  <1>2. Emptied(w, Held(w))
    BY <1>1 DEF Emptied
  <1>3. PICK H : H = Held(w)
    OBVIOUS
  <1>4. /\ PlacedInv'
        /\ pipe' \in [Links -> Seq(Conns)] /\ link' \in [Workers -> 0..links]
        /\ \E L : copies' = Close(copies, L)
    <2>1. Emptied(w, H) /\ Unlinked(w, Close(copies, H))
      BY <1>1, <1>2, <1>3
    <2>2. QED
      BY <1>1, <2>1, UnlinkedKeeps
  <1>5. DOMAIN copies' = Conns /\ copies' = [d \in Conns |-> copies'[d]]
    BY <1>4 DEF Close
  <1>6. copies' \in [Conns -> Nat]
    BY <1>4, <1>5, CopiesTyped
  <1>7. /\ ses' \in [Workers -> [Slots -> Session]]
        /\ state' \in [Workers -> SUBSET Entry]
    <2>1. ses \in [Workers -> [Slots -> Session]] /\ state \in [Workers -> SUBSET Entry]
      BY <1>1 DEF TypeOK
    <2>2. [s \in Slots |-> NoSession] \in [Slots -> Session]
      BY NoSessionTyped
    <2>3. QED
      BY <1>1, <2>1, <2>2
  <1>8. SessionsInv' /\ EntriesInv' /\ NoneUnanswered'
    <2>1. ses \in [Workers -> [Slots -> Session]] /\ state \in [Workers -> SUBSET Entry]
      BY <1>1 DEF TypeOK
    <2>2. NoSession.id = 0 /\ NoSession.conn = <<>>
      BY DEF NoSession
    <2>3. \A v \in Workers, t \in Slots :
             ses'[v][t] = IF v = w THEN NoSession ELSE ses[v][t]
      BY <1>1, <2>1
    <2>4. \A v \in Workers, t \in Slots :
             \/ ses'[v][t].id = ses[v][t].id /\ ses'[v][t].conn = ses[v][t].conn
             \/ ses'[v][t].id = 0 /\ ses'[v][t].conn = <<>>
      BY <2>2, <2>3
    <2>5. \A v \in Workers :
             \/ state'[v] = state[v]
             \/ state'[v] = {} /\ \A t \in Slots : ses'[v][t].conn = <<>>
      BY <1>1, <2>1, <2>2, <2>3
    <2>6. QED
      BY <1>1, <2>4, <2>5, EntriesKept
  <1>9. TypeOK'
    BY <1>1, <1>4, <1>6, <1>7 DEF TypeOK
  <1>10. QED
    BY <1>4, <1>8, <1>9 DEF HttpInv

(* An answer, from a backend or for want of one.                           *)
Answered(w, e, ok) ==
    /\ state' = [state EXCEPT ![w] = @ \ {e}]
    /\ Answer(w, e.ses, IF SameSession(w, e) THEN {e.id} ELSE {}, ok)
    /\ UNCHANGED <<backlog, accepted, workers, link, links, pipe, left, stops, svr_id,
                   connected, stream, served, written, asked>>

LEMMA TimeoutAnswers ==
  ASSUME NEW w \in Workers, NEW e \in state[w], NEW ok \in BOOLEAN,
         on_state_timeout(w, e, ok)
  PROVE  Answered(w, e, ok)
  BY DEF on_state_timeout, Answered

LEMMA ReplyAnswers ==
  ASSUME HttpInv, NEW w \in Workers, NEW r, NEW ok \in BOOLEAN,
         on_backend_recv_pkg(w, r, ok)
  PROVE  \/ \E e \in state[w] : Answered(w, e, ok)
         \/ UNCHANGED <<backlog, accepted, copies, workers, link, links, pipe, ses,
                        svr_id, state, stream, served, asked, answers>>
  <1> DEFINE waiting == {e \in state[w] : e.id = r}
  <1>1. /\ state' = [state EXCEPT ![w] = @ \ waiting]
        /\ IF waiting = {} THEN UNCHANGED <<ses, copies, answers>>
           ELSE \E e \in waiting :
                  Answer(w, e.ses, IF SameSession(w, e) THEN {r} ELSE {}, ok)
        /\ UNCHANGED <<backlog, accepted, workers, link, links, pipe, left, stops, svr_id,
                       connected, stream, served, written, asked>>
    BY DEF on_backend_recv_pkg
  <1>2. \A e \in waiting : e \in state[w] /\ e.id = r
    OBVIOUS
  <1>3. \A e \in waiting : waiting = {e}
    BY DEF HttpInv, EntriesInv
  <1>4. state \in [Workers -> SUBSET Entry]
    BY DEF HttpInv, TypeOK
  <1> HIDE DEF waiting
  <1>5. CASE waiting = {}
    BY <1>1, <1>4, <1>5
  <1>6. CASE waiting # {}
    <2>1. PICK e \in waiting : Answer(w, e.ses, IF SameSession(w, e) THEN {r} ELSE {}, ok)
      BY <1>1, <1>6
    <2>2. waiting = {e} /\ e \in state[w] /\ e.id = r
      BY <1>2, <1>3
    <2>3. Answer(w, e.ses, IF SameSession(w, e) THEN {e.id} ELSE {}, ok)
      BY <2>1, <2>2
    <2>4. state' = [state EXCEPT ![w] = @ \ {e}]
      BY <1>1, <2>2
    <2>5. Answered(w, e, ok)
      BY <1>1, <2>3, <2>4 DEF Answered
    <2>6. QED
      BY <2>2, <2>5
  <1>7. QED
    BY <1>5, <1>6

LEMMA AnsweredInv ==
  ASSUME HttpInv, NEW w \in Workers, NEW e \in state[w], NEW ok \in BOOLEAN,
         Answered(w, e, ok)
  PROVE  HttpInv'
  <1>1. /\ TypeOK /\ PlacedInv /\ SessionsInv /\ EntriesInv /\ NoneUnanswered
        /\ state' = [state EXCEPT ![w] = @ \ {e}]
        /\ Answer(w, e.ses, IF SameSession(w, e) THEN {e.id} ELSE {}, ok)
        /\ UNCHANGED <<backlog, accepted, workers, link, links, pipe, svr_id, stream,
                       served, asked>>
    BY DEF HttpInv, Answered
  <1>2. /\ PlacedInv' /\ SessionsInv' /\ EntriesInv' /\ NoneUnanswered'
        /\ ses' \in [Workers -> [Slots -> Session]]
        /\ answers' \in [1..MaxRequests -> Seq(Conns)]
        /\ DOMAIN copies' = Conns /\ copies' = [c \in Conns |-> copies'[c]]
    BY <1>1, AnsweredKeeps
  <1>3. copies' \in [Conns -> Nat]
    BY <1>2, CopiesTyped
  <1>4. state' \in [Workers -> SUBSET Entry]
    <2>1. state \in [Workers -> SUBSET Entry]
      BY <1>1 DEF TypeOK
    <2>2. QED
      BY <1>1, <2>1
  <1>5. TypeOK'
    BY <1>1, <1>2, <1>3, <1>4 DEF TypeOK
  <1>6. QED
    BY <1>2, <1>5 DEF HttpInv

LEMMA SameInv ==
  ASSUME HttpInv,
         UNCHANGED <<backlog, accepted, copies, workers, link, links, pipe, ses,
                     svr_id, state, stream, served, asked, answers>>
  PROVE  HttpInv'
  <1>1. TypeOK /\ PlacedInv /\ SessionsInv /\ EntriesInv /\ NoneUnanswered
    BY DEF HttpInv
  <1>2. PlacedInv'
    BY <1>1, PlacedStays
  <1>3. SessionsInv' /\ EntriesInv' /\ NoneUnanswered'
    BY <1>1, EntriesSame
  <1>4. TypeOK'
    BY <1>1 DEF TypeOK
  <1>5. QED
    BY <1>2, <1>3, <1>4 DEF HttpInv

LEMMA NextInv == HttpInv /\ [Next]_vars => HttpInv'
  <1> SUFFICES ASSUME HttpInv, [Next]_vars PROVE HttpInv'
    OBVIOUS
  <1>1. CASE OfListener /\ UNCHANGED <<http, record>>
    BY <1>1, ListenerInv
  <1>2. CASE \E c \in Conns, kind \in Kinds : Write(c, kind)
    BY <1>2, WriteInv
  <1>3. CASE \E w \in Workers, s \in Slots : Read(w, s) \/ on_timer(w, s)
    BY <1>3, ReadInv, OnTimerInv DEF Read
  <1>4. ASSUME NEW w \in Workers, Receive(w) \/ on_backend_connect(w) \/ WorkerRestarts(w)
        PROVE  HttpInv'
    <2>1. CASE Receive(w)
      BY <2>1, ReceiveInv DEF Receive
    <2>2. CASE on_backend_connect(w)
      BY <2>2, SameInv DEF on_backend_connect, listener, record
    <2>3. CASE WorkerRestarts(w)
      BY <2>3, RestartsInv
    <2>4. QED
      BY <1>4, <2>1, <2>2, <2>3
  <1>5. CASE \E w \in Workers, r \in 1..MaxRequests : Timer(w, r)
    <2>1. PICK w \in Workers : \E e \in state[w], ok \in BOOLEAN :
                on_state_timeout(w, e, ok)
      BY <1>5 DEF Timer
    <2>2. PICK e \in state[w], ok \in BOOLEAN : on_state_timeout(w, e, ok)
      BY <2>1
    <2>3. QED
      BY <2>2, TimeoutAnswers, AnsweredInv
  <1>6. CASE \E w \in Workers, r \in 1..MaxRequests, ok \in BOOLEAN :
                on_backend_recv_pkg(w, r, ok)
    <2>1. PICK w \in Workers, r \in 1..MaxRequests, ok \in BOOLEAN :
                on_backend_recv_pkg(w, r, ok)
      BY <1>6
    <2>2. \/ \E e \in state[w] : Answered(w, e, ok)
          \/ UNCHANGED <<backlog, accepted, copies, workers, link, links, pipe, ses,
                         svr_id, state, stream, served, asked, answers>>
      BY <2>1, ReplyAnswers
    <2>3. QED
      BY <2>2, AnsweredInv, SameInv
  <1>7. CASE UNCHANGED vars
    BY <1>7, SameInv DEF vars, listener, http, record
  <1>8. QED
    BY <1>1, <1>2, <1>3, <1>4, <1>5, <1>6, <1>7 DEF Next

-------------------------------------------------------------------------------
(* What follows.                                                           *)

\* HttpGateway.tla, Listener.tla: the parts of HttpInv say of every reachable
\* state where each connection is and who waits for what.
THEOREM HttpInvariant == ASSUME Bounds PROVE Spec => []HttpInv
  <1>1. Init => HttpInv
    BY InitInv
  <1>2. QED
    BY <1>1, NextInv, PTL DEF Spec

\* ah_server.c, ut_http_svr.c: a request that was read and not answered, and
\* whose connection is open, has its timer, whatever happened to backends,
\* sessions and workers.
THEOREM NeverUnanswered == ASSUME Bounds PROVE Spec => []NoneUnanswered
  <1>1. HttpInv => NoneUnanswered
    BY DEF HttpInv
  <1>2. QED
    BY <1>1, HttpInvariant, PTL

\* ah_listener.c, ah_server.c: every descriptor of a connection is that of a
\* session or in a link, and there is one at most: whichever process dies or
\* gives up its link, and when, a connection nobody will read is closed.
THEOREM NoneIsForgotten == ASSUME Bounds PROVE Spec => []NoneForgotten
  <1>1. ASSUME HttpInv, NEW c \in Conns
        PROVE  copies[c] = Cardinality({w \in Workers : c \in Held(w)})
                           + Cardinality({l \in 1..MaxLinks : c \in ToSet(pipe[l])})
    <2> DEFINE A == {w \in Workers : c \in Held(w)}
               B == {l \in Links : c \in ToSet(pipe[l])}
    <2>1. TypeOK /\ PlacedInv
      BY <1>1 DEF HttpInv
    <2>2. \A w \in Workers : c \in Held(w) <=> \E s \in Slots : InSession(w, s, c)
      BY DEF Held, InSession
    <2>3. copies[c] = IF Somewhere(c) THEN 1 ELSE 0
      BY <2>1 DEF PlacedInv
    <2>4. CASE \E l \in Links : c \in ToSet(pipe[l])
      <3>1. PICK l \in Links : c \in ToSet(pipe[l])
        BY <2>4
      <3>2. A = {}
        BY <2>1, <2>2, <3>1, OnePlace
      <3>3. B = {l}
        BY <2>1, <3>1, OnePlace
      <3>4. Cardinality(A) = 0 /\ Cardinality(B) = 1
        BY <3>2, <3>3, FS_EmptySet, FS_Singleton
      <3>5. Somewhere(c)
        BY <3>1 DEF Somewhere
      <3>6. QED
        BY <2>3, <3>4, <3>5 DEF Links
    <2>5. CASE \E w \in Workers, s \in Slots : InSession(w, s, c)
      <3>1. PICK w \in Workers, s \in Slots : InSession(w, s, c)
        BY <2>5
      <3>2. A = {w}
        BY <2>1, <2>2, <3>1 DEF PlacedInv
      <3>3. B = {}
        BY <2>1, <3>1, OnePlace
      <3>4. Cardinality(A) = 1 /\ Cardinality(B) = 0
        BY <3>2, <3>3, FS_EmptySet, FS_Singleton
      <3>5. Somewhere(c)
        BY <3>1 DEF Somewhere
      <3>6. QED
        BY <2>3, <3>4, <3>5 DEF Links
    <2>6. CASE ~Somewhere(c)
      <3>1. A = {} /\ B = {}
        BY <2>2, <2>6 DEF Somewhere
      <3>2. Cardinality(A) = 0 /\ Cardinality(B) = 0
        BY <3>1, FS_EmptySet
      <3>3. QED
        BY <2>3, <2>6, <3>2 DEF Links
    <2>7. QED
      BY <2>4, <2>5, <2>6 DEF Somewhere
  <1>2. HttpInv => NoneForgotten
    BY <1>1 DEF NoneForgotten
  <1>3. QED
    BY <1>2, HttpInvariant, PTL

-------------------------------------------------------------------------------
(* The refinement.  A step lets sessions go, gives a connection a session, *)
(* takes requests or hands an answer over.                                 *)

SessionsGo ==
    /\ \A w \in Workers, s \in Slots : ses'[w][s].conn \in {ses[w][s].conn, <<>>}
    /\ UNCHANGED <<served, asked, answers>>

Comes(w, s, c) ==
    /\ c \in Conns /\ c \notin ToSet(served)
    /\ ses[w][s].conn = <<>>
    /\ \A v \in Workers, t \in Slots :
          ses'[v][t].conn = IF v = w /\ t = s THEN <<c>> ELSE ses[v][t].conn
    /\ served' = Append(served, c)
    /\ UNCHANGED <<asked, answers>>

IsTold(w, e) ==
    /\ e \in state[w] /\ SameSession(w, e)
    /\ answers' = [answers EXCEPT ![e.id] = <<asked[e.id]>>]
    /\ UNCHANGED <<ses, served, asked>>

SomeStep ==
    \/ SessionsGo
    \/ \E w \in Workers, s \in Slots, c \in Conns : Comes(w, s, c)
    \/ \E w \in Workers, s \in Slots : \E c, k, F, now : Asks(w, s, c, k, F, now)
    \/ \E w \in Workers : \E e \in state[w] : IsTold(w, e)

LEMMA ClosedGoes ==
  ASSUME TypeOK, NEW w \in Workers, NEW s \in Slots, nw_svr_close_clt(w, s),
         UNCHANGED <<served, asked, answers>>
  PROVE  SessionsGo
  <1>1. \A v \in Workers, t \in Slots :
           ses'[v][t] = IF v = w /\ t = s THEN NoSession ELSE ses[v][t]
    BY ClosedTyped
  <1>2. NoSession.conn = <<>>
    BY DEF NoSession
  <1>3. QED
    BY <1>1, <1>2 DEF SessionsGo

LEMMA ReceiveComes ==
  ASSUME HttpInv, NEW w \in Workers, NEW s \in Slots, NEW good \in BOOLEAN,
         on_listener_recv_fd(w, s, good)
  PROVE  SessionsGo \/ \E c \in Conns : Comes(w, s, c)
  <1>0. PICK c : c = Head(pipe[link[w]])
    OBVIOUS
  <1>1. /\ TypeOK /\ PlacedInv /\ SessionsInv
        /\ on_recv_fd(w) /\ ses[w][s].id = 0 /\ UNCHANGED <<asked, answers>>
        /\ good => /\ ses' = [ses EXCEPT ![w][s] =
                         [id |-> svr_id'[w], conn |-> <<c>>, split |-> FALSE]]
                   /\ served' = Append(served, c)
        /\ ~good => UNCHANGED <<ses, served>>
    BY <1>0 DEF on_listener_recv_fd, HttpInv
  <1>2. c \in Conns /\ c \notin ToSet(served)
    BY <1>0, <1>1, TakenFromLink
  <1>3. CASE ~good
    BY <1>1, <1>3 DEF SessionsGo
  <1>4. CASE good
    <2>1. ses[w][s].conn = <<>>
      BY <1>1 DEF SessionsInv
    <2>2. ses \in [Workers -> [Slots -> Session]]
      BY <1>1 DEF TypeOK
    <2>3. \A v \in Workers, t \in Slots :
             ses'[v][t].conn = IF v = w /\ t = s THEN <<c>> ELSE ses[v][t].conn
      BY <1>1, <1>4, <2>2
    <2>4. Comes(w, s, c)
      BY <1>1, <1>2, <1>4, <2>1, <2>3 DEF Comes
    <2>5. QED
      BY <1>2, <2>4
  <1>5. QED
    BY <1>3, <1>4

LEMMA AnsweredTells ==
  ASSUME HttpInv, NEW w \in Workers, NEW e \in state[w], NEW ok \in BOOLEAN,
         Answered(w, e, ok)
  PROVE  SessionsGo \/ IsTold(w, e)
  <1> DEFINE s == e.ses
             rs == IF SameSession(w, e) THEN {e.id} ELSE {}
  <1>1. /\ TypeOK /\ EntriesInv /\ UNCHANGED <<served, asked>>
        /\ Answer(w, s, rs, ok)
    BY DEF HttpInv, Answered
  <1>2. /\ state \in [Workers -> SUBSET Entry] /\ MaxRequests \in Nat
        /\ answers \in [1..MaxRequests -> Seq(Conns)] /\ Len(asked) \in Nat
        /\ Len(asked) <= MaxRequests
    BY <1>1 DEF TypeOK, Bounds
  <1>3. /\ s \in Slots /\ e.id \in 1..MaxRequests /\ answers[e.id] = <<>>
        /\ SameSession(w, e) => ses[w][s].conn = <<asked[e.id]>>
    <2>1. e \in Entry /\ e.id \in 1..Len(asked)
      BY <1>1, <1>2 DEF EntriesInv
    <2>2. QED
      BY <1>1, <1>2, <2>1 DEF EntriesInv, Entry
  <1>4. CASE /\ answers' = [r \in DOMAIN answers |->
                   IF r \in rs THEN Append(answers[r], ses[w][s].conn[1]) ELSE answers[r]]
             /\ UNCHANGED <<ses, copies>>
    <2>1. CASE SameSession(w, e)
      <3>1. ses[w][s].conn[1] = asked[e.id]
        BY <1>3, <2>1
      <3>2. Append(answers[e.id], asked[e.id]) = <<asked[e.id]>>
        BY <1>3
      <3>3. \A r \in 1..MaxRequests :
               answers'[r] = IF r = e.id THEN <<asked[e.id]>> ELSE answers[r]
        BY <1>2, <1>4, <2>1, <3>1, <3>2
      <3>4. answers' = [answers EXCEPT ![e.id] = <<asked[e.id]>>]
        BY <1>2, <1>4, <3>3
      <3>5. QED
        BY <1>1, <1>4, <2>1, <3>4 DEF IsTold
    <2>2. CASE ~SameSession(w, e)
      <3>1. \A r \in 1..MaxRequests : answers'[r] = answers[r]
        BY <1>2, <1>4, <2>2
      <3>2. answers' = answers
        BY <1>2, <1>4, <3>1
      <3>3. QED
        BY <1>1, <1>4, <3>2 DEF SessionsGo
    <2>3. QED
      BY <2>1, <2>2
  <1>5. CASE nw_svr_close_clt(w, s) /\ UNCHANGED answers
    BY <1>1, <1>3, <1>5, ClosedGoes
  <1>6. QED
    BY <1>1, <1>4, <1>5 DEF Answer

LEMMA StepKinds == HttpInv /\ [Next]_vars => SomeStep
  <1> SUFFICES ASSUME HttpInv, [Next]_vars PROVE SomeStep
    OBVIOUS
  <1>1. TypeOK /\ SessionsInv
    BY DEF HttpInv
  <1>2. ASSUME UNCHANGED <<ses, served, asked, answers>> PROVE SomeStep
    BY <1>2 DEF SomeStep, SessionsGo
  <1>3. CASE OfListener /\ UNCHANGED <<http, record>>
    BY <1>2, <1>3 DEF http, record
  <1>4. CASE \E c \in Conns, kind \in Kinds : Write(c, kind)
    BY <1>2, <1>4 DEF Write
  <1>5. ASSUME NEW w \in Workers, NEW s \in Slots, Read(w, s) \/ on_timer(w, s)
        PROVE  SomeStep
    <2>1. CASE Read(w, s)
      BY <1>1, <2>1, ReadAsks DEF Read, SomeStep
    <2>2. CASE on_timer(w, s)
      BY <1>1, <2>2, ClosedGoes DEF on_timer, record, SomeStep
    <2>3. QED
      BY <1>5, <2>1, <2>2
  <1>6. ASSUME NEW w \in Workers, Receive(w) \/ on_backend_connect(w) \/ WorkerRestarts(w)
        PROVE  SomeStep
    <2>1. CASE Receive(w)
      BY <2>1, ReceiveComes DEF Receive, SomeStep
    <2>2. CASE on_backend_connect(w)
      BY <1>2, <2>2 DEF on_backend_connect, record
    <2>3. CASE WorkerRestarts(w)
      <3>1. /\ ses' = [ses EXCEPT ![w] = [s \in Slots |-> NoSession]]
            /\ UNCHANGED <<served, asked, answers>>
        BY <2>3 DEF WorkerRestarts, record
      <3>2. ses \in [Workers -> [Slots -> Session]]
        BY <1>1 DEF TypeOK
      <3>3. \A v \in Workers, s \in Slots :
               ses'[v][s].conn \in {ses[v][s].conn, <<>>}
        BY <3>1, <3>2 DEF NoSession
      <3>4. QED
        BY <3>1, <3>3 DEF SomeStep, SessionsGo
    <2>4. QED
      BY <1>6, <2>1, <2>2, <2>3
  <1>7. CASE \E w \in Workers, r \in 1..MaxRequests : Timer(w, r)
    <2>1. PICK w \in Workers : \E e \in state[w], ok \in BOOLEAN :
                on_state_timeout(w, e, ok)
      BY <1>7 DEF Timer
    <2>2. PICK e \in state[w], ok \in BOOLEAN : on_state_timeout(w, e, ok)
      BY <2>1
    <2>3. SessionsGo \/ IsTold(w, e)
      BY <2>2, TimeoutAnswers, AnsweredTells
    <2>4. QED
      BY <2>3 DEF SomeStep
  <1>8. CASE \E w \in Workers, r \in 1..MaxRequests, ok \in BOOLEAN :
                on_backend_recv_pkg(w, r, ok)
    <2>1. PICK w \in Workers, r \in 1..MaxRequests, ok \in BOOLEAN :
                on_backend_recv_pkg(w, r, ok)
      BY <1>8
    <2>2. \/ \E e \in state[w] : Answered(w, e, ok)
          \/ UNCHANGED <<backlog, accepted, copies, workers, link, links, pipe, ses,
                         svr_id, state, stream, served, asked, answers>>
      BY <2>1, ReplyAnswers
    <2>3. QED
      BY <1>2, <2>2, AnsweredTells DEF SomeStep
  <1>9. CASE UNCHANGED vars
    BY <1>2, <1>9 DEF vars, http, record
  <1>10. QED
    BY <1>3, <1>4, <1>5, <1>6, <1>7, <1>8, <1>9 DEF Next

(* A request is answered once at most, to the connection it came on.       *)
AnswersInv ==
    \A r \in 1..MaxRequests :
        \/ answers[r] = <<>>
        \/ r \in DOMAIN asked /\ answers[r] = <<asked[r]>>

LEMMA AskedFacts ==
  ASSUME TypeOK, NEW w \in Workers, NEW s \in Slots, NEW c, NEW k, NEW F, NEW now,
         Asks(w, s, c, k, F, now)
  PROVE  /\ k \in Nat /\ Len(asked) \in Nat /\ DOMAIN asked = 1..Len(asked)
         /\ MaxRequests \in Nat /\ Len(asked) + k <= MaxRequests
         /\ now \subseteq Len(asked) + 1..Len(asked) + k
         /\ DOMAIN asked' = 1..Len(asked) + k
         /\ \A r \in 1..Len(asked) + k :
               asked'[r] = IF r <= Len(asked) THEN asked[r] ELSE c
         /\ DOMAIN answers = 1..MaxRequests /\ DOMAIN answers' = 1..MaxRequests
         /\ \A r \in 1..MaxRequests :
               answers'[r] = IF r \in now THEN <<c>> ELSE answers[r]
  <1>1. /\ c \in Conns /\ k \in Nat /\ Len(asked) + k <= MaxRequests
        /\ now \subseteq Len(asked) + 1..Len(asked) + k
        /\ asked' = asked \o [i \in 1..k |-> c]
        /\ answers' = [r \in DOMAIN answers |-> IF r \in now THEN <<c>> ELSE answers[r]]
    BY DEF Asks
  <1>2. /\ asked \in Seq(Conns) /\ answers \in [1..MaxRequests -> Seq(Conns)]
        /\ MaxRequests \in Nat
    BY DEF TypeOK, Bounds
  <1>3. Continues(Conns, asked, c, k, More(asked, c, k))
    BY <1>1, <1>2, AskedSeq
  <1>4. asked' = More(asked, c, k)
    BY <1>1 DEF More
  <1>5. Continues(Conns, asked, c, k, asked')
    BY <1>3, <1>4
  <1>6. /\ DOMAIN asked' = 1..Len(asked) + k
        /\ \A r \in 1..Len(asked) + k :
              asked'[r] = IF r <= Len(asked) THEN asked[r] ELSE c
    BY <1>5 DEF Continues
  <1>7. Len(asked) \in Nat /\ DOMAIN asked = 1..Len(asked)
    BY <1>2
  <1>8. /\ DOMAIN answers = 1..MaxRequests /\ DOMAIN answers' = 1..MaxRequests
        /\ \A r \in 1..MaxRequests :
              answers'[r] = IF r \in now THEN <<c>> ELSE answers[r]
    BY <1>1, <1>2
  <1>9. QED
    BY <1>1, <1>2, <1>6, <1>7, <1>8

LEMMA AnswersNext == HttpInv /\ AnswersInv /\ [Next]_vars => AnswersInv'
  <1> SUFFICES ASSUME HttpInv, AnswersInv, [Next]_vars PROVE AnswersInv'
    OBVIOUS
  <1>1. SomeStep
    BY StepKinds
  <1>2. TypeOK /\ EntriesInv
    BY DEF HttpInv
  <1>3. ASSUME UNCHANGED <<asked, answers>> PROVE AnswersInv'
    BY <1>3 DEF AnswersInv
  <1>4. ASSUME NEW w \in Workers, NEW s \in Slots, NEW c, NEW k, NEW F, NEW now,
               Asks(w, s, c, k, F, now)
        PROVE  AnswersInv'
    <2>1. /\ k \in Nat /\ Len(asked) \in Nat /\ DOMAIN asked = 1..Len(asked)
          /\ now \subseteq Len(asked) + 1..Len(asked) + k
          /\ DOMAIN asked' = 1..Len(asked) + k
          /\ \A r \in 1..Len(asked) + k :
                asked'[r] = IF r <= Len(asked) THEN asked[r] ELSE c
          /\ \A r \in 1..MaxRequests :
                answers'[r] = IF r \in now THEN <<c>> ELSE answers[r]
      BY <1>2, <1>4, AskedFacts
    <2>2. ASSUME NEW r \in 1..MaxRequests
          PROVE  answers'[r] = <<>> \/ (r \in DOMAIN asked' /\ answers'[r] = <<asked'[r]>>)
      <3>1. CASE r \in now
        <4>1. r \in 1..Len(asked) + k /\ ~(r <= Len(asked))
          BY <2>1, <3>1
        <4>2. QED
          BY <2>1, <3>1, <4>1
      <3>2. CASE r \notin now
        <4>1. answers'[r] = answers[r]
          BY <2>1, <3>2
        <4>2. r \in DOMAIN asked => r \in 1..Len(asked) + k /\ r <= Len(asked)
          BY <2>1
        <4>3. r \in DOMAIN asked => r \in DOMAIN asked' /\ asked'[r] = asked[r]
          BY <2>1, <4>2
        <4>4. QED
          BY <4>1, <4>3 DEF AnswersInv
      <3>3. QED
        BY <3>1, <3>2
    <2>3. QED
      BY <2>2 DEF AnswersInv
  <1>5. ASSUME NEW w \in Workers, NEW e \in state[w], IsTold(w, e)
        PROVE  AnswersInv'
    <2>1. answers \in [1..MaxRequests -> Seq(Conns)] /\ e.id \in DOMAIN asked
      BY <1>2 DEF TypeOK, EntriesInv
    <2>2. QED
      BY <1>5, <2>1 DEF IsTold, AnswersInv
  <1>6. QED
    BY <1>1, <1>3, <1>4, <1>5 DEF SomeStep, SessionsGo, Comes

(* What the mapped state is, put so that it can be used of the next state. *)
Mapped ==
    /\ DOMAIN served = 1..Len(served) /\ Len(served) \in Nat
    /\ \A i \in DOMAIN served : served[i] \in Conns
    /\ \A i \in DOMAIN served, c \in Conns : served[i] = c => Index(c) = i
    /\ \A i : i \in Sessions <=>
          i \in DOMAIN served /\ \E w \in Workers, s \in Slots, c \in Conns :
                                    served[i] = c /\ InSession(w, s, c)
    /\ DOMAIN asked = 1..Len(asked) /\ Len(asked) \in Nat
    /\ \A r \in DOMAIN asked : asked[r] \in Conns /\ asked[r] \in ToSet(served)
    /\ Askers = [r \in 1..Len(asked) |-> Askers[r]]
    /\ Askers \in Seq(Nat) /\ Len(Askers) = Len(asked)
    /\ \A r \in DOMAIN asked, c \in Conns : asked[r] = c => Askers[r] = Index(c)
    /\ Told = [r \in 1..MaxRequests |-> Told[r]]
    /\ \A r \in 1..MaxRequests :
          /\ Told[r] = IF answers[r] = <<>> THEN <<>> ELSE <<Askers[r]>>
          /\ answers[r] # <<>> => r \in DOMAIN asked

LEMMA MappedIs == HttpInv /\ AnswersInv => Mapped
  <1> SUFFICES ASSUME HttpInv, AnswersInv PROVE Mapped
    OBVIOUS
  <1>1. /\ asked \in Seq(Conns) /\ answers \in [1..MaxRequests -> Seq(Conns)]
        /\ served \in Seq(Conns)
        /\ DOMAIN asked = 1..Len(asked) /\ Len(asked) \in Nat
        /\ DOMAIN served = 1..Len(served) /\ Len(served) \in Nat
        /\ \A i \in DOMAIN served : served[i] \in Conns
        /\ \A r \in DOMAIN asked : asked[r] \in Conns
    BY DEF HttpInv, TypeOK
  <1>2. \A i \in DOMAIN served, c \in Conns : served[i] = c => Index(c) = i
    BY DEF Index, HttpInv, SessionsInv
  <1>3. \A i : i \in Sessions <=>
           i \in DOMAIN served /\ \E w \in Workers, s \in Slots, c \in Conns :
                                     served[i] = c /\ InSession(w, s, c)
    BY <1>1 DEF Sessions, Held, InSession
  <1>4. \A r \in DOMAIN asked : asked[r] \in ToSet(served)
    BY DEF HttpInv, EntriesInv, ToSet
  <1>5. \A r \in DOMAIN asked : Askers[r] = Index(asked[r])
    BY DEF Askers
  <1>6. \A r \in DOMAIN asked : Askers[r] \in Nat
    <2> TAKE r \in DOMAIN asked
    <2>1. PICK i \in DOMAIN served : served[i] = asked[r]
      BY <1>4 DEF ToSet
    <2>2. QED
      BY <1>1, <1>2, <1>5, <2>1
  <1>7. Askers = [r \in 1..Len(asked) |-> Askers[r]]
    BY <1>1 DEF Askers
  <1>8. Askers \in Seq(Nat) /\ Len(Askers) = Len(asked)
    BY <1>1, <1>6, <1>7
  <1>9. Told = [r \in 1..MaxRequests |-> Told[r]]
    BY <1>1 DEF Told
  <1>10. ASSUME NEW r \in 1..MaxRequests
         PROVE  Told[r] = IF answers[r] = <<>> THEN <<>> ELSE <<Askers[r]>>
    <2>1. Told[r] = [j \in DOMAIN answers[r] |-> Index(answers[r][j])]
      BY <1>1 DEF Told
    <2>2. CASE answers[r] = <<>>
      BY <2>1, <2>2
    <2>3. CASE r \in DOMAIN asked /\ answers[r] = <<asked[r]>>
      <3> DEFINE a == asked[r]
      <3>1. answers[r] = <<a>> /\ Askers[r] = Index(a)
        BY <1>5, <2>3
      <3> HIDE DEF a
      <3>2. Told[r] = [j \in 1..1 |-> Index(<<a>>[j])]
        BY <2>1, <3>1
      <3>3. \A j \in 1..1 : <<a>>[j] = a
        OBVIOUS
      <3>4. Told[r] = [j \in 1..1 |-> Index(a)]
        BY <3>2, <3>3
      <3>5. [j \in 1..1 |-> Index(a)] = <<Index(a)>>
        OBVIOUS
      <3>6. answers[r] # <<>>
        BY <3>1
      <3>7. QED
        BY <3>1, <3>4, <3>5, <3>6
    <2>4. QED
      BY <2>2, <2>3 DEF AnswersInv
  <1>11. \A r \in 1..MaxRequests : answers[r] # <<>> => r \in DOMAIN asked
    BY DEF AnswersInv
  <1>12. \A r \in DOMAIN asked, c \in Conns : asked[r] = c => Askers[r] = Index(c)
    BY <1>5
  <1>13. QED
    BY <1>1, <1>2, <1>3, <1>4, <1>7, <1>8, <1>9, <1>10, <1>11, <1>12 DEF Mapped

(* Numbers are for good.                                                   *)
LEMMA IndexStays ==
  ASSUME Mapped, Mapped', DOMAIN served \subseteq DOMAIN served',
         \A i \in DOMAIN served : served'[i] = served[i]
  PROVE  \A c \in Conns : c \in ToSet(served) => Index(c)' = Index(c)
  <1> TAKE c \in Conns
  <1> HAVE c \in ToSet(served)
  <1>1. PICK i \in DOMAIN served : served[i] = c
    BY DEF ToSet
  <1>2. Index(c) = i
    BY <1>1 DEF Mapped
  <1>3. i \in DOMAIN served' /\ served'[i] = c
    BY <1>1
  <1>4. Index(c)' = i
    BY <1>3 DEF Mapped
  <1>5. QED
    BY <1>2, <1>4

LEMMA AskersStay ==
  ASSUME Mapped, Mapped', UNCHANGED asked,
         \A c \in Conns : c \in ToSet(served) => Index(c)' = Index(c)
  PROVE  Askers' = Askers
  <1>1. \A r \in DOMAIN asked : Askers'[r] = Askers[r]
    <2> TAKE r \in DOMAIN asked
    <2>1. PICK c \in Conns : asked[r] = c /\ c \in ToSet(served)
      BY DEF Mapped
    <2>2. Askers[r] = Index(c)
      BY <2>1 DEF Mapped
    <2>3. r \in DOMAIN asked' /\ asked'[r] = c
      BY <2>1
    <2>4. Askers'[r] = Index(c)'
      BY <2>3 DEF Mapped
    <2>5. QED
      BY <2>1, <2>2, <2>4
  <1>2. /\ Askers = [r \in 1..Len(asked) |-> Askers[r]]
        /\ Askers' = [r \in 1..Len(asked') |-> Askers'[r]]
        /\ DOMAIN asked = 1..Len(asked)
    BY DEF Mapped
  <1>3. QED
    BY <1>1, <1>2

LEMMA ToldStay ==
  ASSUME Mapped, Mapped', Askers' = Askers, UNCHANGED answers
  PROVE  Told' = Told
  <1>1. \A r \in 1..MaxRequests : Told'[r] = Told[r]
    <2> TAKE r \in 1..MaxRequests
    <2>1. Told[r] = IF answers[r] = <<>> THEN <<>> ELSE <<Askers[r]>>
      BY DEF Mapped
    <2>2. Told'[r] = IF answers'[r] = <<>> THEN <<>> ELSE <<Askers'[r]>>
      BY DEF Mapped
    <2>3. QED
      BY <2>1, <2>2
  <1>2. /\ Told = [r \in 1..MaxRequests |-> Told[r]]
        /\ Told' = [r \in 1..MaxRequests |-> Told'[r]]
    BY DEF Mapped
  <1>3. QED
    BY <1>1, <1>2

AbstractStep == [Abstract!Next]_Abstract!vars

LEMMA GoImplements ==
  ASSUME Mapped, Mapped', SessionsGo
  PROVE  AbstractStep
  <1>1. UNCHANGED <<served, asked, answers>>
    BY DEF SessionsGo
  <1>2. \A c \in Conns : c \in ToSet(served) => Index(c)' = Index(c)
    BY <1>1, IndexStays
  <1>3. Askers' = Askers
    BY <1>1, <1>2, AskersStay
  <1>4. Told' = Told
    BY <1>1, <1>3, ToldStay
  <1>5. Sessions' \subseteq Sessions
    <2> SUFFICES ASSUME NEW i \in Sessions' PROVE i \in Sessions
      OBVIOUS
    <2>1. PICK w \in Workers, s \in Slots, c \in Conns :
             i \in DOMAIN served' /\ served'[i] = c /\ InSession(w, s, c)'
      BY DEF Mapped
    <2>2. ses'[w][s].conn = <<c>>
      BY <2>1 DEF InSession
    <2>3. InSession(w, s, c)
      BY <2>2 DEF SessionsGo, InSession
    <2>4. QED
      BY <1>1, <2>1, <2>3 DEF Mapped
  <1>6. Abstract!Disconnect
    BY <1>1, <1>3, <1>4, <1>5 DEF Abstract!Disconnect
  <1>7. QED
    BY <1>6 DEF AbstractStep, Abstract!Next

LEMMA ComesImplements ==
  ASSUME HttpInv, Mapped, Mapped', NEW w \in Workers, NEW s \in Slots, NEW c \in Conns,
         Comes(w, s, c)
  PROVE  AbstractStep
  <1>1. /\ served \in Seq(Conns) /\ DOMAIN served = 1..Len(served)
        /\ Len(served) \in Nat /\ c \notin ToSet(served)
        /\ served' = Append(served, c) /\ UNCHANGED <<asked, answers>>
        /\ ses[w][s].conn = <<>>
        /\ \A v \in Workers, t \in Slots :
              ses'[v][t].conn = IF v = w /\ t = s THEN <<c>> ELSE ses[v][t].conn
    BY DEF Comes, HttpInv, TypeOK, Mapped
  <1>2. /\ Len(served') = Len(served) + 1 /\ DOMAIN served' = 1..Len(served) + 1
        /\ \A i \in DOMAIN served : i \in DOMAIN served' /\ served'[i] = served[i]
        /\ served'[Len(served) + 1] = c
    <2> DEFINE q == Append(served, c)
    <2>1. /\ Len(q) = Len(served) + 1 /\ DOMAIN q = 1..Len(served) + 1
          /\ \A i \in 1..Len(served) : q[i] = served[i]
          /\ q[Len(served) + 1] = c
      BY <1>1, Appended
    <2>2. served' = q
      BY <1>1
    <2> HIDE DEF q
    <2>3. 1..Len(served) \subseteq 1..Len(served) + 1
      BY <1>1
    <2>4. QED
      BY <1>1, <2>1, <2>2, <2>3
  <1>3. \A d \in Conns : d \in ToSet(served) => Index(d)' = Index(d)
    BY <1>2, IndexStays
  <1>4. Askers' = Askers
    BY <1>1, <1>3, AskersStay
  <1>5. Told' = Told
    BY <1>1, <1>4, ToldStay
  <1>6. \A v \in Workers, t \in Slots, d \in Conns :
           d # c => (InSession(v, t, d)' <=> InSession(v, t, d))
    <2> TAKE v \in Workers, t \in Slots, d \in Conns
    <2>1. <<c>> = <<d>> => c = d
      OBVIOUS
    <2>2. <<d>> # <<>>
      OBVIOUS
    <2>3. QED
      BY <1>1, <2>1, <2>2 DEF InSession
  <1>7. InSession(w, s, c)'
    BY <1>1 DEF InSession
  <1>8. \A i \in DOMAIN served : served[i] # c
    BY <1>1 DEF ToSet
  <1>9. Sessions' = Sessions \cup {Len(served) + 1}
    <2>1. ASSUME NEW i PROVE i \in Sessions' <=> i \in Sessions \/ i = Len(served) + 1
      <3>1. CASE i \in DOMAIN served
        <4>1. PICK d \in Conns : served[i] = d
          BY <3>1 DEF Mapped
        <4>2. i \in DOMAIN served' /\ served'[i] = d /\ d # c
          BY <1>2, <1>8, <3>1, <4>1
        <4>3. i \in Sessions <=> \E v \in Workers, t \in Slots : InSession(v, t, d)
          BY <3>1, <4>1 DEF Mapped
        <4>4. i \in Sessions' <=> \E v \in Workers, t \in Slots : InSession(v, t, d)'
          BY <4>1, <4>2 DEF Mapped
        <4>5. i # Len(served) + 1
          BY <1>1, <3>1
        <4>6. QED
          BY <1>6, <4>2, <4>3, <4>4, <4>5
      <3>2. CASE i = Len(served) + 1
        <4>1. i \in DOMAIN served' /\ served'[i] = c
          BY <1>1, <1>2, <3>2
        <4>2. i \in Sessions'
          BY <1>7, <4>1 DEF Mapped
        <4>3. QED
          BY <3>2, <4>2
      <3>3. CASE i \notin DOMAIN served /\ i # Len(served) + 1
        <4>1. i \notin DOMAIN served'
          BY <1>1, <1>2, <3>3
        <4>2. i \notin Sessions /\ i \notin Sessions'
          BY <3>3, <4>1 DEF Mapped
        <4>3. QED
          BY <3>3, <4>2
      <3>4. QED
        BY <3>1, <3>2, <3>3
    <2>2. QED
      BY <2>1
  <1>10. Abstract!Connect
    BY <1>2, <1>4, <1>5, <1>9 DEF Abstract!Connect
  <1>11. QED
    BY <1>10 DEF AbstractStep, Abstract!Next

LEMMA ToldImplements ==
  ASSUME HttpInv, Mapped, Mapped', NEW w \in Workers, NEW e \in state[w], IsTold(w, e)
  PROVE  AbstractStep
  <1> DEFINE r == e.id
  <1>1. /\ SameSession(w, e) /\ UNCHANGED <<ses, served, asked>>
        /\ answers' = [answers EXCEPT ![r] = <<asked[r]>>]
    BY DEF IsTold
  <1>2. /\ answers \in [1..MaxRequests -> Seq(Conns)] /\ e \in Entry
        /\ Len(asked) <= MaxRequests /\ MaxRequests \in Nat
    BY DEF HttpInv, TypeOK, Bounds
  <1>3. /\ r \in DOMAIN asked /\ answers[r] = <<>> /\ e.ses \in Slots
        /\ ses[w][e.ses].conn = <<asked[r]>>
    <2>1. r \in 1..Len(asked)
      BY DEF HttpInv, EntriesInv
    <2>2. answers[r] = <<>> /\ ses[w][e.ses].conn = <<asked[r]>>
      BY <1>1 DEF HttpInv, EntriesInv
    <2>3. QED
      BY <1>2, <2>1, <2>2 DEF Entry, Mapped
  <1>4. r \in 1..MaxRequests
    BY <1>2, <1>3 DEF Mapped
  <1>5. PICK c \in Conns : asked[r] = c /\ c \in ToSet(served)
    BY <1>3 DEF Mapped
  <1>6. Askers[r] = Index(c)
    BY <1>3, <1>5 DEF Mapped
  <1>7. Askers[r] \in Sessions
    <2>1. PICK i \in DOMAIN served : served[i] = c
      BY <1>5 DEF ToSet
    <2>2. Index(c) = i
      BY <2>1 DEF Mapped
    <2>3. InSession(w, e.ses, c)
      BY <1>3, <1>5 DEF InSession
    <2>4. QED
      BY <1>3, <1>6, <2>1, <2>2, <2>3 DEF Mapped
  <1>8. \A d \in Conns : d \in ToSet(served) => Index(d)' = Index(d)
    BY <1>1, IndexStays
  <1>9. Askers' = Askers
    BY <1>1, <1>8, AskersStay
  <1>10. Sessions' = Sessions
    BY <1>1 DEF Sessions, Held
  <1>11. Told' = [Told EXCEPT ![r] = <<Askers[r]>>]
    <2>1. \A q \in 1..MaxRequests :
             Told'[q] = IF q = r THEN <<Askers[r]>> ELSE Told[q]
      <3> TAKE q \in 1..MaxRequests
      <3>1. Told[q] = IF answers[q] = <<>> THEN <<>> ELSE <<Askers[q]>>
        BY DEF Mapped
      <3>2. Told'[q] = IF answers'[q] = <<>> THEN <<>> ELSE <<Askers[q]>>
        BY <1>9 DEF Mapped
      <3>3. answers'[q] = IF q = r THEN <<asked[r]>> ELSE answers[q]
        BY <1>1, <1>2
      <3>4. <<asked[r]>> # <<>>
        OBVIOUS
      <3>5. QED
        BY <3>1, <3>2, <3>3, <3>4
    <2>2. /\ Told = [q \in 1..MaxRequests |-> Told[q]]
          /\ Told' = [q \in 1..MaxRequests |-> Told'[q]]
      BY DEF Mapped
    <2> HIDE DEF r
    <2>3. QED
      BY <2>1, <2>2
  <1>12. r \in DOMAIN Askers /\ Told[r] = <<>>
    BY <1>3, <1>4 DEF Mapped
  <1> HIDE DEF r
  <1>13. Abstract!Answer(r)
    BY <1>1, <1>7, <1>9, <1>10, <1>11, <1>12 DEF Abstract!Answer
  <1>14. QED
    BY <1>4, <1>13 DEF AbstractStep, Abstract!Next

LEMMA AsksImplements ==
  ASSUME HttpInv, Mapped, Mapped', NEW w \in Workers, NEW s \in Slots,
         NEW c, NEW k, NEW F, NEW now, Asks(w, s, c, k, F, now)
  PROVE  AbstractStep
  <1> DEFINE N == Len(asked)
  <1>1. /\ ses[w][s].conn = <<c>> /\ c \in Conns /\ UNCHANGED served
        /\ \/ nw_svr_close_clt(w, s)
           \/ \E b \in BOOLEAN : ses' = [ses EXCEPT ![w][s].split = b]
    BY DEF Asks
  <1>2. /\ k \in Nat /\ N \in Nat /\ DOMAIN asked = 1..N
        /\ MaxRequests \in Nat /\ N + k <= MaxRequests
        /\ now \subseteq N + 1..N + k
        /\ DOMAIN asked' = 1..N + k
        /\ \A r \in 1..N + k : asked'[r] = IF r <= N THEN asked[r] ELSE c
        /\ \A r \in 1..MaxRequests : answers'[r] = IF r \in now THEN <<c>> ELSE answers[r]
    BY AskedFacts DEF HttpInv
  <1>3. InSession(w, s, c) /\ c \in ToSet(served)
    <2>1. InSession(w, s, c)
      BY <1>1 DEF InSession
    <2>2. QED
      BY <1>1, <2>1 DEF HttpInv, PlacedInv
  <1>4. PICK n \in DOMAIN served : served[n] = c
    BY <1>3 DEF ToSet
  <1>5. Index(c) = n /\ n \in Sessions /\ n \in Nat
    <2>1. Index(c) = n
      BY <1>1, <1>4 DEF Mapped
    <2>2. n \in Sessions
      BY <1>1, <1>3, <1>4 DEF Mapped
    <2>3. n \in Nat
      BY <1>4 DEF Mapped
    <2>4. QED
      BY <2>1, <2>2, <2>3
  <1>6. \A d \in Conns : d \in ToSet(served) => Index(d)' = Index(d)
    BY <1>1, IndexStays
  <1>7. Sessions' \in {Sessions, Sessions \ {n}}
    <2>1. \A i : i \in Sessions' <=>
             i \in DOMAIN served /\ \E v \in Workers, t \in Slots, d \in Conns :
                                       served[i] = d /\ InSession(v, t, d)'
      BY <1>1 DEF Mapped
    <2>2. \A i : i \in Sessions <=>
             i \in DOMAIN served /\ \E v \in Workers, t \in Slots, d \in Conns :
                                       served[i] = d /\ InSession(v, t, d)
      BY DEF Mapped
    <2>3. ses \in [Workers -> [Slots -> Session]]
      BY DEF HttpInv, TypeOK
    <2>4. CASE nw_svr_close_clt(w, s)
      <3>1. \A v \in Workers, t \in Slots :
               ses'[v][t] = IF v = w /\ t = s THEN NoSession ELSE ses[v][t]
        BY <2>4, ClosedTyped DEF HttpInv
      <3>2. \A v \in Workers, t \in Slots, d \in Conns :
               InSession(v, t, d)' <=> InSession(v, t, d) /\ ~(v = w /\ t = s)
        <4>1. \A d \in Conns : <<d>> # NoSession.conn
          BY DEF NoSession
        <4>2. QED
          BY <3>1, <4>1 DEF InSession
      <3>3. \A d \in Conns : InSession(w, s, d) => d = c
        <4>1. \A d \in Conns : <<d>> = <<c>> => d = c
          OBVIOUS
        <4>2. QED
          BY <1>1, <4>1 DEF InSession
      <3>4. \A v \in Workers, t \in Slots : InSession(v, t, c) => v = w /\ t = s
        BY <1>1, <1>3 DEF HttpInv, PlacedInv
      <3>5. \A d \in Conns, v \in Workers, t \in Slots :
               InSession(v, t, d)' <=> InSession(v, t, d) /\ d # c
        BY <1>1, <3>2, <3>3, <3>4
      <3>6. \A i \in DOMAIN served : served[i] = c <=> i = n
        BY <1>1, <1>4, <1>5 DEF Mapped
      <3>7. \A i : i \in Sessions' <=> i \in Sessions /\ i # n
        <4> TAKE i
        <4>1. CASE i \in DOMAIN served
          <5>1. PICK d \in Conns : served[i] = d
            BY <4>1 DEF Mapped
          <5>2. d = c <=> i = n
            BY <3>6, <4>1, <5>1
          <5>3. i \in Sessions' <=> \E v \in Workers, t \in Slots : InSession(v, t, d)'
            BY <2>1, <4>1, <5>1
          <5>4. i \in Sessions <=> \E v \in Workers, t \in Slots : InSession(v, t, d)
            BY <2>2, <4>1, <5>1
          <5>5. QED
            BY <3>5, <5>2, <5>3, <5>4
        <4>2. CASE i \notin DOMAIN served
          BY <2>1, <2>2, <4>2
        <4>3. QED
          BY <4>1, <4>2
      <3>8. Sessions' = Sessions \ {n}
        BY <3>7
      <3>9. QED
        BY <3>8
    <2>5. CASE \E b \in BOOLEAN : ses' = [ses EXCEPT ![w][s].split = b]
      <3>1. PICK b \in BOOLEAN : ses' = [ses EXCEPT ![w][s].split = b]
        BY <2>5
      <3>2. ses[w][s] \in Session
        BY <2>3
      <3>3. \A v \in Workers, t \in Slots : ses'[v][t].conn = ses[v][t].conn
        BY <2>3, <3>1, <3>2 DEF Session
      <3>4. \A v \in Workers, t \in Slots, d \in Conns :
               InSession(v, t, d)' <=> InSession(v, t, d)
        BY <3>3 DEF InSession
      <3>5. \A i : i \in Sessions' <=> i \in Sessions
        BY <2>1, <2>2, <3>4
      <3>6. Sessions' = Sessions
        BY <3>5
      <3>7. QED
        BY <3>6
    <2>6. QED
      BY <1>1, <2>4, <2>5
  <1> HIDE DEF N
  <1>8. \A r \in 1..N + k : Askers'[r] = IF r <= N THEN Askers[r] ELSE n
    <2> TAKE r \in 1..N + k
    <2>1. CASE r <= N
      <3>1. r \in DOMAIN asked
        BY <1>2, <2>1
      <3>2. PICK d \in Conns : asked[r] = d /\ d \in ToSet(served)
        BY <3>1 DEF Mapped
      <3>3. asked'[r] = d /\ r \in DOMAIN asked'
        BY <1>2, <2>1, <3>2
      <3>4. Askers[r] = Index(d) /\ Askers'[r] = Index(d)'
        BY <3>1, <3>2, <3>3 DEF Mapped
      <3>5. QED
        BY <1>6, <2>1, <3>2, <3>4
    <2>2. CASE ~(r <= N)
      <3>1. asked'[r] = c /\ r \in DOMAIN asked'
        BY <1>2, <2>2
      <3>2. Askers'[r] = Index(c)'
        BY <1>1, <3>1 DEF Mapped
      <3>3. Index(c)' = n
        BY <1>1, <1>3, <1>5, <1>6
      <3>4. QED
        BY <2>2, <3>2, <3>3
    <2>3. QED
      BY <2>1, <2>2
  <1>9. Askers \in Seq(Nat) /\ Len(Askers) = N /\ DOMAIN Askers = 1..N
    BY DEF Mapped, N
  <1>10. Len(asked') = N + k /\ Askers' = [r \in 1..N + k |-> Askers'[r]]
    <2>1. /\ DOMAIN asked' = 1..Len(asked') /\ Len(asked') \in Nat
          /\ Askers' = [r \in 1..Len(asked') |-> Askers'[r]]
      BY DEF Mapped
    <2>2. 1..Len(asked') = 1..N + k
      BY <1>2, <2>1
    <2>3. Len(asked') = N + k
      BY <1>2, <2>1, <2>2
    <2>4. QED
      BY <2>1, <2>3
  <1>11. Askers' = Askers \o [i \in 1..k |-> n]
    <2> DEFINE p == [i \in 1..k |-> n]
               a == Askers \o p
    <2>1. p \in Seq(Nat) /\ Len(p) = k /\ \A i \in 1..k : p[i] = n
      BY <1>2, <1>5
    <2> HIDE DEF p
    <2>2. /\ a = [r \in 1..N + k |-> a[r]]
          /\ \A r \in 1..N + k : a[r] = IF r <= N THEN Askers[r] ELSE p[r - N]
      <3>1. \A x, y \in Seq(Nat) :
               /\ x \o y \in Seq(Nat) /\ Len(x \o y) = Len(x) + Len(y)
               /\ \A r \in 1..Len(x) + Len(y) :
                     (x \o y)[r] = IF r <= Len(x) THEN x[r] ELSE y[r - Len(x)]
        OBVIOUS
      <3>2. /\ a \in Seq(Nat) /\ Len(a) = N + k
            /\ \A r \in 1..N + k : a[r] = IF r <= N THEN Askers[r] ELSE p[r - N]
        BY <1>9, <2>1, <3>1
      <3> HIDE DEF a
      <3>3. a = [r \in 1..Len(a) |-> a[r]]
        BY <3>2
      <3>4. QED
        BY <3>2, <3>3
    <2> HIDE DEF a
    <2>3. \A r \in 1..N + k : a[r] = IF r <= N THEN Askers[r] ELSE n
      <3> TAKE r \in 1..N + k
      <3>1. ~(r <= N) => r - N \in 1..k
        BY <1>2
      <3>2. QED
        BY <2>1, <2>2, <3>1
    <2>4. Askers' = a
      BY <1>8, <1>10, <2>2, <2>3
    <2>5. QED
      BY <2>4 DEF a, p
  <1>12. Told' = [r \in DOMAIN Told |-> IF r \in now THEN <<n>> ELSE Told[r]]
    <2>1. \A r \in 1..MaxRequests : Told'[r] = IF r \in now THEN <<n>> ELSE Told[r]
      <3> TAKE r \in 1..MaxRequests
      <3>1. Told[r] = IF answers[r] = <<>> THEN <<>> ELSE <<Askers[r]>>
        BY DEF Mapped
      <3>2. Told'[r] = IF answers'[r] = <<>> THEN <<>> ELSE <<Askers'[r]>>
        BY DEF Mapped
      <3>3. CASE r \in now
        <4>1. answers'[r] # <<>>
          <5>1. <<c>> # <<>>
            OBVIOUS
          <5>2. QED
            BY <1>2, <3>3, <5>1
        <4>2. r \in 1..N + k /\ ~(r <= N)
          BY <1>2, <3>3
        <4>3. Askers'[r] = n
          BY <1>8, <4>2
        <4>4. QED
          BY <3>2, <3>3, <4>1, <4>3
      <3>4. CASE r \notin now
        <4>1. answers'[r] = answers[r]
          BY <1>2, <3>4
        <4>2. answers[r] # <<>> => Askers'[r] = Askers[r]
          <5>1. answers[r] # <<>> => r \in DOMAIN asked
            BY DEF Mapped
          <5>2. r \in DOMAIN asked => r \in 1..N + k /\ r <= N
            BY <1>2 DEF N
          <5>3. QED
            BY <1>8, <5>1, <5>2
        <4>3. QED
          BY <3>1, <3>2, <3>4, <4>1, <4>2
      <3>5. QED
        BY <3>3, <3>4
    <2>2. /\ Told = [r \in 1..MaxRequests |-> Told[r]]
          /\ Told' = [r \in 1..MaxRequests |-> Told'[r]]
      BY DEF Mapped
    <2>3. DOMAIN Told = 1..MaxRequests
      BY <2>2
    <2>4. QED
      BY <2>1, <2>2, <2>3
  <1>13. CASE k = 0
    <2>1. now = {}
      BY <1>2, <1>13
    <2>2. Told' = Told
      BY <1>12, <2>1 DEF Mapped
    <2>3. Askers' = Askers
      <3>1. Askers = [r \in 1..N |-> Askers[r]]
        BY DEF Mapped, N
      <3>2. Askers' = [r \in 1..N |-> Askers'[r]]
        BY <1>2, <1>10, <1>13
      <3>3. \A r \in 1..N : Askers'[r] = Askers[r]
        BY <1>2, <1>8, <1>13
      <3>4. QED
        BY <3>1, <3>2, <3>3
    <2>4. Abstract!Disconnect
      BY <1>1, <1>7, <2>2, <2>3 DEF Abstract!Disconnect
    <2>5. QED
      BY <2>4 DEF AbstractStep, Abstract!Next
  <1>14. CASE k # 0
    <2>1. k \in 1..MaxRequests - Len(Askers)
      BY <1>2, <1>9, <1>14
    <2>2. now \in SUBSET (Len(Askers) + 1..Len(Askers) + k)
      BY <1>2, <1>9
    <2>3. Abstract!Ask(n)
      BY <1>1, <1>5, <1>7, <1>11, <1>12, <2>1, <2>2 DEF Abstract!Ask
    <2>4. QED
      BY <1>5, <2>3 DEF AbstractStep, Abstract!Next
  <1>15. QED
    BY <1>13, <1>14

LEMMA NextImplements ==
  HttpInv /\ HttpInv' /\ Mapped /\ Mapped' /\ [Next]_vars => AbstractStep
  BY StepKinds, GoImplements, ComesImplements, AsksImplements, ToldImplements DEF SomeStep

\* ah_server.c implements RequestReply, whichever worker a connection is given
\* to: a client is answered once, on the connection that asked, while it is
\* open.
THEOREM HttpImplementsRequestReply == ASSUME Bounds PROVE Spec => ImplementsRequestReply
  <1>1. Init => Abstract!Init /\ AnswersInv
    <2> SUFFICES ASSUME Init PROVE Abstract!Init /\ AnswersInv
      OBVIOUS
    <2>1. /\ served = <<>> /\ asked = <<>>
          /\ answers = [r \in 1..MaxRequests |-> <<>>]
      BY DEF Init
    <2>2. Sessions = {}
      BY <2>1 DEF Sessions
    <2>3. Askers = <<>>
      BY <2>1 DEF Askers
    <2>4. Told = [r \in 1..MaxRequests |-> <<>>]
      <3>1. Told = [r \in 1..MaxRequests |-> [j \in DOMAIN answers[r] |-> Index(answers[r][j])]]
        BY <2>1 DEF Told
      <3>2. ASSUME NEW r \in 1..MaxRequests
            PROVE  [j \in DOMAIN answers[r] |-> Index(answers[r][j])] = <<>>
        <4>1. answers[r] = <<>>
          BY <2>1
        <4>2. QED
          BY <4>1
      <3>3. QED
        BY <3>1, <3>2
    <2>5. AnswersInv
      BY <2>1 DEF AnswersInv
    <2>6. QED
      BY <2>1, <2>2, <2>3, <2>4, <2>5 DEF Abstract!Init
  <1>2. HttpInv /\ AnswersInv => Mapped
    BY MappedIs
  <1>3. HttpInv /\ HttpInv' /\ Mapped /\ Mapped' /\ [Next]_vars
          => [Abstract!Next]_Abstract!vars
    BY NextImplements DEF AbstractStep
  <1>4. HttpInv /\ AnswersInv /\ [Next]_vars => AnswersInv'
    BY AnswersNext
  <1>5. Spec => []HttpInv
    BY HttpInvariant
  <1>6. QED
    BY <1>1, <1>2, <1>3, <1>4, <1>5, PTL DEF Spec, ImplementsRequestReply, Abstract!Spec
================================================================================
