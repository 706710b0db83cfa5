----------------------------- MODULE Gateway_proofs -----------------------------
(***************************************************************************)
(* The websocket gateway keeps its promises for every number of slots,     *)
(* users, queries, sessions and requests: whoever's answer comes late      *)
(* finds the session of its request or nobody, the lists of a user hold    *)
(* his sessions alone, and no connection reads backwards.                  *)
(***************************************************************************)
EXTENDS GatewayProperties, TLAPS

-------------------------------------------------------------------------------
(* The inductive invariant.                                                *)

Infos == {NoInfo} \cup {Authorised(u) : u \in Users}
Entry == [id : Nat, context : {"server", "auth", "sign"}, ses : Slots,
          ses_id : 1..MaxSes, key : Keys \cup {NoKey}]
Lists(Topics) == [Users -> SUBSET [ses : Slots, topic : Topics]]

TypeOK ==
    /\ id \in [Slots -> 0..MaxSes] /\ id_start \in 0..MaxSes
    /\ upgraded \in [Slots -> BOOLEAN]
    /\ info \in [Slots -> Infos]
    /\ connected \in BOOLEAN
    /\ requests \in Seq(Nat)
    /\ replies \in Seq([id : Nat, result : Nat])
    /\ reading \subseteq Nat
    /\ data \in Nat \ {0}
    /\ backend_cache \in [Keys -> Nat]
    /\ pending \subseteq Entry
    /\ order_sub \in Lists(Markets) /\ asset_sub \in Lists(Assets)
    /\ asset_query \subseteq [id : Nat, user_id : Users, asset : Assets]
    /\ updates \in Nat /\ stops \in Nat
    /\ asked \in Seq([ses_id : 1..MaxSes, method : AllMethods])
    /\ Len(asked) <= MaxRequests
    /\ answers \in [1..MaxRequests -> Seq(Nat)]
    /\ seen \in [1..MaxSes -> [Keys -> Nat]]
    /\ proved \subseteq (1..MaxSes) \X Users

(* An entry of nw_state is that of one request, by the session that made   *)
(* it, and nothing has answered it so far.                                 *)
EntriesWait ==
    /\ \A e \in pending :
          /\ e.id \in DOMAIN asked
          /\ e.ses_id = asked[e.id].ses_id
          /\ answers[e.id] = <<>>
    /\ \A d, e \in pending : d.id = e.id => d = e
    /\ jobs \subseteq DOMAIN asked
    /\ \A r \in 1..MaxRequests : r > Len(asked) => answers[r] = <<>>

(* No connection is ahead of the data or of what the cache holds.          *)
SeenBehind ==
    /\ \A k \in Keys : backend_cache[k] <= data
    /\ \A c \in 1..MaxSes, k \in Keys :
          /\ seen[c][k] <= data
          /\ backend_cache[k] # NotCached => seen[c][k] <= backend_cache[k]

(* A reply on its way is of data no older than what the cache holds and    *)
(* what connections have seen, and no newer than the replies behind it.    *)
Ahead(i) ==
    replies[i].result # NullResult =>
        /\ \A k \in Keys : backend_cache[k] <= replies[i].result
        /\ \A c \in 1..MaxSes, k \in Keys : seen[c][k] <= replies[i].result
        /\ \A j \in i..Len(replies) :
              replies[j].result # NullResult =>
                  replies[i].result <= replies[j].result

ReadsOrdered ==
    /\ SeenBehind
    /\ \A i \in 1..Len(replies) : replies[i].result <= data /\ Ahead(i)

GatewayInv ==
    TypeOK /\ EntriesWait /\ Authenticated /\ FeedsOwned /\ ReadsOrdered

-------------------------------------------------------------------------------
(* Closing and sending.                                                    *)

(* The units of sub are of sessions that are open and, by infos, their     *)
(* user's.                                                                 *)
ListsOwned(sub, infos) ==
    \A u \in Users : \A n \in sub[u] : id[n.ses] # 0 /\ Owned(n, u, infos)

\* FeedsOwned says of both lists of units what ListsOwned says of one.
LEMMA FeedsOwnedIsListsOwned ==
  FeedsOwned <=> ListsOwned(order_sub, info) /\ ListsOwned(asset_sub, info)
  BY DEF FeedsOwned, ListsOwned, Owned

(* clear of aw_order.c and aw_asset.c: with its session go its units.      *)
LEMMA CloseLeavesOwned ==
  ASSUME TypeOK, NEW S \in SUBSET Slots, NEW infos \in [Slots -> Infos],
         NEW osub \in Lists(Markets), NEW asub \in Lists(Assets),
         ListsOwned(osub, infos), ListsOwned(asub, infos),
         UNCHANGED upgraded,
         on_close(S, infos, osub, asub)
  PROVE  /\ id' \in [Slots -> 0..MaxSes]
         /\ \A s \in Slots : id'[s] \in {0, id[s]}
         /\ info' = infos
         /\ order_sub' \in Lists(Markets) /\ asset_sub' \in Lists(Assets)
         /\ FeedsOwned'
  <1>1. /\ id' = [s \in Slots |-> IF s \in S THEN 0 ELSE id[s]]
        /\ info' = infos
        /\ order_sub' = [u \in Users |->
              {n \in osub[u] : ~(n.ses \in S /\ Owned(n, u, infos))}]
        /\ asset_sub' = [u \in Users |->
              {n \in asub[u] : ~(n.ses \in S /\ Owned(n, u, infos))}]
    BY DEF on_close
  <1>2. /\ id' \in [Slots -> 0..MaxSes]
        /\ \A s \in Slots : id'[s] \in {0, id[s]}
    BY <1>1, GatewayAssumption DEF TypeOK
  <1>3. order_sub' \in Lists(Markets) /\ asset_sub' \in Lists(Assets)
    BY <1>1 DEF Lists
  <1>4. FeedsOwned'
    <2>1. ASSUME NEW u \in Users, NEW n \in order_sub'[u] \cup asset_sub'[u]
          PROVE  id'[n.ses] # 0 /\ upgraded'[n.ses] /\ info'[n.ses] = Authorised(u)
      <3>1. n \in osub[u] \cup asub[u] /\ ~(n.ses \in S /\ Owned(n, u, infos))
        BY <1>1, <2>1
      <3>2. n.ses \in Slots
        BY <3>1 DEF Lists
      <3>3. id[n.ses] # 0 /\ Owned(n, u, infos)
        BY <3>1 DEF ListsOwned
      <3>4. QED
        BY <1>1, <3>1, <3>2, <3>3 DEF Owned
    <2>2. QED
      BY <2>1 DEF FeedsOwned
  <1>5. QED
    BY <1>1, <1>2, <1>3, <1>4

(* Whether it goes out or not, an answer keeps the lists in order.         *)
LEMMA SendLeavesOwned ==
  ASSUME TypeOK, NEW s \in Slots, NEW r \in 1..MaxRequests, NEW ok \in BOOLEAN,
         NEW infos \in [Slots -> Infos],
         NEW osub \in Lists(Markets), NEW asub \in Lists(Assets),
         ListsOwned(osub, infos), ListsOwned(asub, infos),
         UNCHANGED upgraded,
         Send(s, r, ok, infos, osub, asub)
  PROVE  /\ id' \in [Slots -> 0..MaxSes]
         /\ \A t \in Slots : id'[t] \in {0, id[t]}
         /\ info' = infos
         /\ order_sub' \in Lists(Markets) /\ asset_sub' \in Lists(Assets)
         /\ FeedsOwned'
         /\ \/ answers' = [answers EXCEPT ![r] = Append(@, id[s])] /\ id' = id
            \/ /\ answers' = answers
               /\ id' = [t \in Slots |-> IF t = s THEN 0 ELSE id[t]]
         /\ answers' \in [1..MaxRequests -> Seq(Nat)]
  <1>1. CASE ok
    <2>1. /\ answers' = [answers EXCEPT ![r] = Append(@, id[s])]
          /\ id' = id /\ info' = infos /\ order_sub' = osub /\ asset_sub' = asub
      BY <1>1 DEF Send
    <2>2. FeedsOwned'
      BY <2>1 DEF FeedsOwned, ListsOwned, Owned, Lists
    <2>3. answers' \in [1..MaxRequests -> Seq(Nat)]
      <3>1. id[s] \in Nat /\ answers[r] \in Seq(Nat)
        BY GatewayAssumption DEF TypeOK
      <3>2. Append(answers[r], id[s]) \in Seq(Nat)
        BY <3>1
      <3>3. QED
        BY <2>1, <3>2 DEF TypeOK
    <2>4. QED
      BY <2>1, <2>2, <2>3 DEF TypeOK
  <1>2. CASE ~ok
    <2>1. on_close({s}, infos, osub, asub) /\ answers' = answers
      BY <1>2 DEF Send
    <2>2. id' = [t \in Slots |-> IF t = s THEN 0 ELSE id[t]]
      BY <2>1 DEF on_close
    <2>3. QED
      BY <2>1, <2>2, CloseLeavesOwned DEF TypeOK
  <1>3. QED
    BY <1>1, <1>2

-------------------------------------------------------------------------------
(* What the parts of the invariant ask of a step.                          *)

\* Sessions only close and proofs are only added: Authenticated stands.
LEMMA ProofsStand ==
  ASSUME Authenticated, UNCHANGED <<upgraded, info>>,
         \A t \in Slots : id'[t] \in {0, id[t]},
         proved \subseteq proved'
  PROVE  Authenticated'
  BY DEF Authenticated

\* A step that touches no data, cache, read or reply: ReadsOrdered stands.
LEMMA ReadsStand ==
  ASSUME ReadsOrdered, UNCHANGED <<data, backend_cache, seen, replies>>
  PROVE  ReadsOrdered'
  BY DEF ReadsOrdered, SeenBehind, Ahead

\* The numbers that ReadsOrdered compares are numbers.
LEMMA ReadTypes ==
  ASSUME TypeOK
  PROVE  /\ \A k \in Keys : backend_cache[k] \in Nat
         /\ \A c \in 1..MaxSes, k \in Keys : seen[c][k] \in Nat
         /\ data \in Nat /\ Len(replies) \in Nat
         /\ \A i \in 1..Len(replies) : /\ replies[i] \in [id : Nat, result : Nat]
                                       /\ replies[i].result \in Nat
  <1> DEFINE Reply == [id : Nat, result : Nat]
  <1>1. replies \in Seq(Reply)
    BY DEF TypeOK
  <1>2. \A x \in Reply : x.result \in Nat
    OBVIOUS
  <1> HIDE DEF Reply
  <1>3. /\ Len(replies) \in Nat
        /\ \A i \in 1..Len(replies) : replies[i] \in Reply
    BY <1>1
  <1>4. QED
    BY <1>2, <1>3 DEF TypeOK, Reply

(* A handler of on_message is given a request nobody has seen.             *)
LEMMA NewRequest ==
  ASSUME TypeOK, EntriesWait, NEW s \in Slots, NEW method \in AllMethods,
         on_message(s, method)
  PROVE  /\ id[s] \in 1..MaxSes
         /\ ThisRequest \in 1..MaxRequests
         /\ answers[ThisRequest] = <<>>
         /\ asked' \in Seq([ses_id : 1..MaxSes, method : AllMethods])
         /\ Len(asked') = ThisRequest /\ Len(asked') <= MaxRequests
         /\ DOMAIN asked' = DOMAIN asked \cup {ThisRequest}
         /\ \A r \in DOMAIN asked : r # ThisRequest /\ asked'[r] = asked[r]
         /\ asked'[ThisRequest].ses_id = id[s]
  <1> DEFINE a == [ses_id |-> id[s], method |-> method]
  <1>1. /\ id[s] # 0 /\ Len(asked) < MaxRequests
        /\ asked' = Append(asked, a)
    BY DEF on_message
  <1>2. id[s] \in 1..MaxSes /\ MaxRequests \in Nat
    BY <1>1, GatewayAssumption DEF TypeOK
  <1>3. asked \in Seq([ses_id : 1..MaxSes, method : AllMethods])
    BY DEF TypeOK
  <1>4. a \in [ses_id : 1..MaxSes, method : AllMethods]
    BY <1>2
  <1> HIDE DEF a
  <1>5. ThisRequest \in 1..MaxRequests /\ ThisRequest > Len(asked)
    BY <1>1, <1>2, <1>3 DEF ThisRequest
  <1>6. answers[ThisRequest] = <<>>
    BY <1>5 DEF EntriesWait
  <1>7. /\ asked' \in Seq([ses_id : 1..MaxSes, method : AllMethods])
        /\ Len(asked') = Len(asked) + 1
        /\ DOMAIN asked = 1..Len(asked) /\ DOMAIN asked' = 1..Len(asked) + 1
        /\ \A r \in 1..Len(asked) : asked'[r] = asked[r]
        /\ asked'[Len(asked) + 1] = a
    BY <1>1, <1>3, <1>4
  <1>8. a.ses_id = id[s]
    BY DEF a
  <1>9. QED
    BY <1>1, <1>2, <1>3, <1>5, <1>6, <1>7, <1>8 DEF ThisRequest

(* It answers the request at once, or closes the session that made it,     *)
LEMMA AnsweredAtOnce ==
  ASSUME TypeOK, EntriesWait, NEW s \in Slots, NEW method \in AllMethods,
         on_message(s, method), UNCHANGED <<pending, jobs>>,
         \/ answers' = [answers EXCEPT ![ThisRequest] = Append(@, id[s])]
         \/ answers' = answers
  PROVE  EntriesWait'
  <1>1. /\ ThisRequest \in 1..MaxRequests
        /\ DOMAIN asked' = DOMAIN asked \cup {ThisRequest}
        /\ Len(asked') = ThisRequest
        /\ \A r \in DOMAIN asked : r # ThisRequest /\ asked'[r] = asked[r]
    BY NewRequest
  <1>2. \A r \in 1..MaxRequests : r # ThisRequest => answers'[r] = answers[r]
    BY DEF TypeOK
  <1>3. /\ Len(asked) \in Nat /\ DOMAIN asked = 1..Len(asked)
        /\ MaxRequests \in Nat /\ Len(asked) <= MaxRequests
        /\ ThisRequest = Len(asked) + 1
    BY GatewayAssumption DEF TypeOK, ThisRequest
  <1>4. \A r \in 1..MaxRequests : r > Len(asked') => answers'[r] = <<>>
    BY <1>1, <1>2, <1>3 DEF EntriesWait
  <1>5. QED
    BY <1>1, <1>2, <1>3, <1>4 DEF EntriesWait

(* or lets it wait for a backend or a job.                                 *)
LEMMA WaitsForAnswer ==
  ASSUME TypeOK, EntriesWait, NEW s \in Slots, NEW method \in AllMethods,
         NEW context \in {"server", "auth", "sign"}, NEW key \in Keys \cup {NoKey},
         on_message(s, method), Wait(s, context, key),
         jobs' \subseteq jobs \cup {ThisRequest}, UNCHANGED answers
  PROVE  EntriesWait' /\ pending' \subseteq Entry
  <1> DEFINE e == [id |-> ThisRequest, context |-> context, ses |-> s,
                   ses_id |-> id[s], key |-> key]
  <1>1. /\ id[s] \in 1..MaxSes
        /\ ThisRequest \in 1..MaxRequests
        /\ answers[ThisRequest] = <<>>
        /\ Len(asked') = ThisRequest
        /\ DOMAIN asked' = DOMAIN asked \cup {ThisRequest}
        /\ \A r \in DOMAIN asked : r # ThisRequest /\ asked'[r] = asked[r]
        /\ asked'[ThisRequest].ses_id = id[s]
    BY NewRequest
  <1>2. pending' = pending \cup {e}
    BY DEF Wait
  <1>3. e \in Entry /\ e.id = ThisRequest /\ e.ses_id = id[s]
    BY <1>1, GatewayAssumption DEF Entry
  <1> HIDE DEF e
  <1>4. pending' \subseteq Entry
    BY <1>2, <1>3 DEF TypeOK
  <1>5. \A d \in pending' : /\ d.id \in DOMAIN asked'
                            /\ d.ses_id = asked'[d.id].ses_id
                            /\ answers'[d.id] = <<>>
    BY <1>1, <1>2, <1>3 DEF EntriesWait
  <1>6. \A c, d \in pending' : c.id = d.id => c = d
    BY <1>1, <1>2, <1>3 DEF EntriesWait
  <1>7. \A r \in 1..MaxRequests : r > Len(asked') => answers'[r] = <<>>
    <2>1. Len(asked) \in Nat /\ Len(asked') = Len(asked) + 1
      BY <1>1 DEF TypeOK, ThisRequest
    <2>2. QED
      BY <2>1, GatewayAssumption DEF EntriesWait
  <1>8. QED
    BY <1>1, <1>4, <1>5, <1>6, <1>7 DEF EntriesWait

(* An entry leaves nw_state with an answer to its request or without.      *)
LEMMA EntryTaken ==
  ASSUME TypeOK, EntriesWait, NEW e \in pending, pending' = pending \ {e},
         jobs' \subseteq jobs, UNCHANGED asked, NEW c,
         \/ answers' = [answers EXCEPT ![e.id] = Append(@, c)]
         \/ answers' = answers
  PROVE  EntriesWait'
  <1>1. e.id \in DOMAIN asked /\ DOMAIN asked = 1..Len(asked)
    BY DEF EntriesWait, TypeOK
  <1>2. \A r \in 1..MaxRequests : r # e.id => answers'[r] = answers[r]
    BY DEF TypeOK
  <1>3. \A d \in pending' : d \in pending /\ d.id # e.id
    BY DEF EntriesWait
  <1>4. DOMAIN asked \subseteq 1..MaxRequests
    BY <1>1, GatewayAssumption DEF TypeOK
  <1>5. \A r \in 1..MaxRequests : r > Len(asked) => r # e.id
    BY <1>1, GatewayAssumption DEF TypeOK
  <1>6. QED
    BY <1>2, <1>3, <1>4, <1>5 DEF EntriesWait

-------------------------------------------------------------------------------
(* The steps of sessions.                                                  *)

\* nw_svr_add_clt: a slot takes a new session, whose id nothing names yet.
LEMMA AddCltKeeps ==
  ASSUME GatewayInv, NEW s \in Slots, nw_svr_add_clt(s)
  PROVE  GatewayInv'
  <1> USE DEF GatewayInv, session, backend, feeds, counts, history
  <1>1. /\ id[s] = 0 /\ id_start < MaxSes
        /\ id_start' = id_start + 1
        /\ id' = [id EXCEPT ![s] = id_start + 1]
        /\ upgraded' = [upgraded EXCEPT ![s] = FALSE]
        /\ UNCHANGED <<info, backend, backend_cache, pending, jobs, feeds, counts,
                       history>>
    BY DEF nw_svr_add_clt
  <1>2. TypeOK'
    <2>1. id_start + 1 \in 0..MaxSes
      BY <1>1, GatewayAssumption DEF TypeOK
    <2>2. QED
      BY <1>1, <2>1 DEF TypeOK
  <1>3. EntriesWait'
    BY <1>1 DEF EntriesWait
  <1>4. Authenticated'
    BY <1>1 DEF Authenticated, TypeOK
  <1>5. FeedsOwned'
    <2>1. ASSUME NEW u \in Users, NEW n \in order_sub'[u] \cup asset_sub'[u]
          PROVE  id'[n.ses] # 0 /\ upgraded'[n.ses] /\ info'[n.ses] = Authorised(u)
      <3>1. n \in order_sub[u] \cup asset_sub[u]
        BY <1>1
      <3>2. /\ id[n.ses] # 0 /\ upgraded[n.ses] /\ info[n.ses] = Authorised(u)
        BY <3>1 DEF FeedsOwned
      <3>3. n.ses # s
        BY <1>1, <3>2
      <3>4. QED
        BY <1>1, <3>2, <3>3 DEF TypeOK
    <2>2. QED
      BY <2>1 DEF FeedsOwned
  <1>6. ReadsOrdered'
    BY <1>1, ReadsStand
  <1>7. QED
    BY <1>2, <1>3, <1>4, <1>5, <1>6

\* on_upgrade: the handshake gives the session an empty info, or ends it.
LEMMA UpgradeKeeps ==
  ASSUME GatewayInv, NEW s \in Slots, NEW ok \in BOOLEAN, on_upgrade(s, ok)
  PROVE  GatewayInv'
  <1> USE DEF GatewayInv, session, backend, feeds, counts, history
  <1>1. /\ id[s] # 0 /\ ~upgraded[s]
        /\ upgraded' = [upgraded EXCEPT ![s] = TRUE]
        /\ info' = [info EXCEPT ![s] = NoInfo]
        /\ id' = IF ok THEN id ELSE [id EXCEPT ![s] = 0]
        /\ UNCHANGED <<id_start, backend, backend_cache, pending, jobs, feeds,
                       counts, history>>
    BY DEF on_upgrade
  <1>2. TypeOK'
    BY SMTT(30), <1>1, GatewayAssumption DEF TypeOK, Infos
  <1>3. EntriesWait'
    BY <1>1 DEF EntriesWait
  <1>4. Authenticated'
    BY <1>1 DEF Authenticated, TypeOK, NoInfo
  <1>5. FeedsOwned'
    <2>1. ASSUME NEW u \in Users, NEW n \in order_sub'[u] \cup asset_sub'[u]
          PROVE  id'[n.ses] # 0 /\ upgraded'[n.ses] /\ info'[n.ses] = Authorised(u)
      <3>1. n \in order_sub[u] \cup asset_sub[u]
        BY <1>1
      <3>2. /\ id[n.ses] # 0 /\ upgraded[n.ses] /\ info[n.ses] = Authorised(u)
        BY <3>1 DEF FeedsOwned
      <3>3. n.ses # s
        BY <1>1, <3>2
      <3>4. QED
        BY <1>1, <3>2, <3>3 DEF TypeOK
    <2>2. QED
      BY <2>1 DEF FeedsOwned
  <1>6. ReadsOrdered'
    BY <1>1, ReadsStand
  <1>7. QED
    BY <1>2, <1>3, <1>4, <1>5, <1>6

\* nw_svr_close_clt: the client goes, and on_close clears its units.
LEMMA CloseCltKeeps ==
  ASSUME GatewayInv, NEW s \in Slots, nw_svr_close_clt(s)
  PROVE  GatewayInv'
  <1> USE DEF GatewayInv, session, backend, feeds, counts, history
  <1>1. /\ on_close({s}, info, order_sub, asset_sub)
        /\ UNCHANGED <<id_start, upgraded, backend, backend_cache, pending, jobs,
                       asset_query, counts, history>>
    BY DEF nw_svr_close_clt
  <1>2. /\ id' \in [Slots -> 0..MaxSes]
        /\ \A t \in Slots : id'[t] \in {0, id[t]}
        /\ info' = info
        /\ order_sub' \in Lists(Markets) /\ asset_sub' \in Lists(Assets)
        /\ FeedsOwned'
    BY <1>1, CloseLeavesOwned, FeedsOwnedIsListsOwned DEF TypeOK
  <1>3. TypeOK'
    BY <1>1, <1>2 DEF TypeOK
  <1>4. EntriesWait'
    BY <1>1 DEF EntriesWait
  <1>5. Authenticated'
    BY <1>1, <1>2, ProofsStand
  <1>6. ReadsOrdered'
    BY <1>1, ReadsStand
  <1>7. QED
    BY <1>2, <1>3, <1>4, <1>5, <1>6

-------------------------------------------------------------------------------
(* The steps of requests.                                                  *)

(* What on_message leaves as it is.                                        *)
LEMMA MessageFrame ==
  ASSUME TypeOK, EntriesWait, NEW s \in Slots, NEW method \in AllMethods,
         on_message(s, method)
  PROVE  /\ UNCHANGED <<id_start, upgraded, data, connected, replies, asset_query,
                        updates, stops, proved>>
         /\ asked' \in Seq([ses_id : 1..MaxSes, method : AllMethods])
         /\ Len(asked') <= MaxRequests
  BY NewRequest DEF on_message, counts

(* A handler that answers, and leaves the lists osub and asub.             *)
LEMMA AnsweringKeeps ==
  ASSUME GatewayInv, NEW s \in Slots, NEW method \in AllMethods, NEW ok \in BOOLEAN,
         NEW osub \in Lists(Markets), NEW asub \in Lists(Assets),
         ListsOwned(osub, info), ListsOwned(asub, info),
         on_message(s, method),
         Send(s, ThisRequest, ok, info, osub, asub),
         UNCHANGED <<requests, reading, backend_cache, pending, jobs>>,
         seen' \in [1..MaxSes -> [Keys -> Nat]],
         ReadsOrdered'
  PROVE  GatewayInv'
  <1> USE DEF GatewayInv
  <1>1. /\ id[s] \in 1..MaxSes /\ ThisRequest \in 1..MaxRequests
    BY NewRequest
  <1>2. /\ UNCHANGED <<id_start, upgraded, data, connected, replies, asset_query,
                       updates, stops, proved>>
        /\ asked' \in Seq([ses_id : 1..MaxSes, method : AllMethods])
        /\ Len(asked') <= MaxRequests
    BY MessageFrame
  <1>3. /\ id' \in [Slots -> 0..MaxSes]
        /\ \A t \in Slots : id'[t] \in {0, id[t]}
        /\ info' = info
        /\ order_sub' \in Lists(Markets) /\ asset_sub' \in Lists(Assets)
        /\ FeedsOwned'
        /\ \/ answers' = [answers EXCEPT ![ThisRequest] = Append(@, id[s])]
           \/ answers' = answers
        /\ answers' \in [1..MaxRequests -> Seq(Nat)]
    <2> HIDE DEF GatewayInv
    <2>1. TypeOK /\ info \in [Slots -> Infos]
      BY DEF GatewayInv, TypeOK
    <2>2. QED
      BY <1>1, <1>2, <2>1, SendLeavesOwned
  <1>4. TypeOK'
    BY <1>2, <1>3 DEF TypeOK
  <1>5. EntriesWait'
    BY <1>3, AnsweredAtOnce
  <1>6. Authenticated'
    BY <1>2, <1>3, ProofsStand
  <1>7. QED
    BY <1>3, <1>4, <1>5, <1>6

(* A handler that lets the request wait.                                   *)
LEMMA WaitingKeeps ==
  ASSUME GatewayInv, NEW s \in Slots, NEW method \in AllMethods,
         NEW context \in {"server", "auth", "sign"}, NEW key \in Keys \cup {NoKey},
         on_message(s, method), Wait(s, context, key), Nothing,
         jobs' \subseteq jobs \cup {ThisRequest},
         requests' \in {requests, Append(requests, ThisRequest)},
         reading' \subseteq reading \cup {ThisRequest},
         \A k \in Keys : backend_cache'[k] \in {NotCached, backend_cache[k]},
         backend_cache' \in [Keys -> Nat],
         UNCHANGED seen
  PROVE  GatewayInv'
  <1> USE DEF GatewayInv
  <1>1. ThisRequest \in 1..MaxRequests /\ ThisRequest \in Nat
    BY NewRequest, GatewayAssumption
  <1>2. /\ UNCHANGED <<id_start, upgraded, data, connected, replies, asset_query,
                       updates, stops, proved>>
        /\ asked' \in Seq([ses_id : 1..MaxSes, method : AllMethods])
        /\ Len(asked') <= MaxRequests
    BY MessageFrame
  <1>3. UNCHANGED <<id, info, order_sub, asset_sub, answers>>
    BY DEF Nothing
  <1>4. EntriesWait' /\ pending' \subseteq Entry
    BY <1>3, WaitsForAnswer
  <1>5. TypeOK'
    <2>1. requests' \in Seq(Nat)
      <3>1. requests \in Seq(Nat)
        BY DEF TypeOK
      <3>2. Append(requests, ThisRequest) \in Seq(Nat)
        BY <1>1, <3>1
      <3>3. QED
        BY <3>1, <3>2
    <2>2. QED
      BY <1>1, <1>2, <1>3, <1>4, <2>1 DEF TypeOK
  <1>6. Authenticated' /\ FeedsOwned'
    BY <1>2, <1>3 DEF Authenticated, FeedsOwned
  <1>7. ReadsOrdered'
    <2>1. \A k \in Keys : /\ backend_cache[k] \in Nat /\ backend_cache'[k] \in Nat
                           /\ backend_cache'[k] \in {0, backend_cache[k]}
      BY DEF TypeOK, NotCached
    <2> HIDE DEF GatewayInv
    <2>2. TypeOK /\ ReadsOrdered
      BY DEF GatewayInv
    <2>3. SeenBehind'
      <3>1. SeenBehind /\ data \in Nat /\ data' = data /\ seen' = seen
        BY <1>2, <2>2, ReadTypes DEF ReadsOrdered
      <3>2. \A k \in Keys : backend_cache'[k] <= data'
        BY <2>1, <3>1 DEF SeenBehind
      <3>3. \A c \in 1..MaxSes, k \in Keys :
                /\ seen'[c][k] <= data'
                /\ backend_cache'[k] # NotCached => seen'[c][k] <= backend_cache'[k]
        BY <2>1, <3>1 DEF SeenBehind, NotCached
      <3>4. QED
        BY <3>2, <3>3 DEF SeenBehind
    <2>4. ASSUME NEW i \in 1..Len(replies)
          PROVE  replies[i].result <= data /\ Ahead(i)'
      <3>1. Ahead(i) /\ replies[i].result <= data
        BY <2>2 DEF ReadsOrdered
      <3>2. replies[i].result \in Nat
        BY <2>2, ReadTypes
      <3>3. replies[i].result # NullResult =>
                \A k \in Keys : backend_cache'[k] <= replies[i].result
        BY <2>1, <3>1, <3>2 DEF Ahead
      <3>4. QED
        BY <1>2, <3>1, <3>3 DEF Ahead
    <2>5. QED
      BY <1>2, <2>3, <2>4 DEF ReadsOrdered
  <1>8. QED
    BY <1>4, <1>5, <1>6, <1>7

(* What MonotonicReads says of a step. *)
SeenGrows == \A c \in 1..MaxSes, k \in Keys : seen'[c][k] >= seen[c][k]

\* What an update of one cell of a table of tables leaves.
LEMMA NestedExcept ==
  ASSUME NEW A, NEW B, NEW f \in [A -> [B -> Nat]], NEW a \in A, NEW b \in B,
         NEW v \in Nat
  PROVE  /\ [f EXCEPT ![a][b] = v] \in [A -> [B -> Nat]]
         /\ \A d \in A, q \in B :
               [f EXCEPT ![a][b] = v][d][q] =
                   IF d = a /\ q = b THEN v ELSE f[d][q]
  OBVIOUS

(* The replies left are of v or later, and as ReadsOrdered has them. *)
RepliesAfter(v) ==
    \A i \in 1..Len(replies') :
       /\ replies'[i].result \in Nat
       /\ replies'[i].result <= data
       /\ replies'[i].result # NullResult =>
             /\ v <= replies'[i].result
             /\ \A q \in Keys : backend_cache[q] <= replies'[i].result
             /\ \A d \in 1..MaxSes, q \in Keys : seen[d][q] <= replies'[i].result
             /\ \A j \in i..Len(replies') :
                   replies'[j].result # NullResult =>
                       replies'[i].result <= replies'[j].result

(* A version that is as new as any seen so far comes to a connection, and  *)
(* is or was put into the cache.                                           *)
LEMMA VersionSeen ==
  ASSUME TypeOK, ReadsOrdered,
         NEW c \in 1..MaxSes, NEW k \in Keys, NEW v \in Nat \ {0}, v <= data,
         \A d \in 1..MaxSes : seen[d][k] <= v,
         backend_cache[k] <= v,
         seen' = seen \/ seen' = [seen EXCEPT ![c][k] = v],
         backend_cache' = [backend_cache EXCEPT ![k] = v],
         UNCHANGED data,
         RepliesAfter(v)
  PROVE  /\ ReadsOrdered' /\ SeenGrows
         /\ seen' \in [1..MaxSes -> [Keys -> Nat]]
         /\ backend_cache' \in [Keys -> Nat]
  <1>1. /\ \A q \in Keys : backend_cache[q] \in Nat
        /\ \A d \in 1..MaxSes, q \in Keys : seen[d][q] \in Nat
        /\ data \in Nat
    BY ReadTypes
  <1>2. /\ backend_cache' \in [Keys -> Nat]
        /\ \A q \in Keys : backend_cache'[q] = IF q = k THEN v ELSE backend_cache[q]
    BY DEF TypeOK
  <1>3. /\ seen' \in [1..MaxSes -> [Keys -> Nat]]
        /\ \A d \in 1..MaxSes, q \in Keys :
              seen'[d][q] = seen[d][q] \/ (q = k /\ seen'[d][q] = v)
    <2>1. seen \in [1..MaxSes -> [Keys -> Nat]]
      BY DEF TypeOK
    <2>2. CASE seen' = seen
      BY <2>1, <2>2
    <2>3. CASE seen' = [seen EXCEPT ![c][k] = v]
      BY <2>1, <2>3, NestedExcept
    <2>4. QED
      BY <2>2, <2>3
  <1>4. SeenGrows
    BY <1>1, <1>2, <1>3 DEF SeenGrows
  <1>5. SeenBehind /\ v # NotCached
    BY DEF ReadsOrdered, NotCached
  <1>6. SeenBehind'
    <2>1. \A q \in Keys : backend_cache'[q] <= data
      BY <1>2, <1>3, <1>5 DEF SeenBehind
    <2>2. \A d \in 1..MaxSes, q \in Keys : seen'[d][q] <= data
      BY <1>3, <1>5 DEF SeenBehind
    <2>3. ASSUME NEW d \in 1..MaxSes, NEW q \in Keys, backend_cache'[q] # NotCached
          PROVE  seen'[d][q] <= backend_cache'[q]
      <3>1. CASE q = k
        BY <1>2, <1>3, <3>1
      <3>2. CASE q # k
        BY <1>2, <1>3, <1>5, <2>3, <3>2 DEF SeenBehind
      <3>3. QED
        BY <3>1, <3>2
    <2>4. QED
      BY <2>1, <2>2, <2>3 DEF SeenBehind
  <1>7. ASSUME NEW i \in 1..Len(replies')
        PROVE  replies'[i].result <= data' /\ Ahead(i)'
    <2> USE DEF RepliesAfter
    <2>1. CASE replies'[i].result = NullResult
      BY <2>1 DEF Ahead
    <2>2. CASE replies'[i].result # NullResult
      <3>1. \A q \in Keys : backend_cache'[q] <= replies'[i].result
        BY <1>2, <1>3, <2>2
      <3>2. \A d \in 1..MaxSes, q \in Keys : seen'[d][q] <= replies'[i].result
        BY <1>2, <1>3, <2>2
      <3>3. QED
        BY <2>2, <3>1, <3>2 DEF Ahead
    <2>3. QED
      BY <2>1, <2>2
  <1>8. QED
    BY <1>2, <1>3, <1>4, <1>6, <1>7 DEF ReadsOrdered

\* server.ping and server.time are answered at once.
LEMMA MethodServerKeeps ==
  ASSUME GatewayInv, NEW s \in Slots, NEW ok \in BOOLEAN, on_method_server(s, ok)
  PROVE  GatewayInv'
  <1>1. /\ on_message(s, "server") /\ "server" \in AllMethods
        /\ Send(s, ThisRequest, ok, info, order_sub, asset_sub)
        /\ UNCHANGED <<requests, reading, backend_cache, pending, jobs, seen>>
    BY DEF on_method_server, Answer, AllMethods
  <1>2. TypeOK /\ EntriesWait /\ ReadsOrdered
    BY DEF GatewayInv
  <1>3. /\ ListsOwned(order_sub, info) /\ ListsOwned(asset_sub, info)
        /\ order_sub \in Lists(Markets) /\ asset_sub \in Lists(Assets)
        /\ seen \in [1..MaxSes -> [Keys -> Nat]]
    BY FeedsOwnedIsListsOwned DEF GatewayInv, TypeOK
  <1>4. ReadsOrdered'
    BY <1>1, <1>2, MessageFrame, ReadsStand
  <1>5. QED
    BY <1>1, <1>3, <1>4, AnsweringKeeps

\* on_message drops a method that nobody registered.
LEMMA MethodUnknownKeeps ==
  ASSUME GatewayInv, NEW s \in Slots, on_method_unknown(s)
  PROVE  GatewayInv'
  <1>1. /\ on_message(s, "unknown") /\ "unknown" \in AllMethods
        /\ UNCHANGED <<id, info, order_sub, asset_sub, answers>>
        /\ UNCHANGED <<requests, reading, backend_cache, pending, jobs, seen>>
    BY DEF on_method_unknown, Nothing, AllMethods
  <1>2. TypeOK /\ EntriesWait /\ ReadsOrdered /\ Authenticated /\ FeedsOwned
    BY DEF GatewayInv
  <1>3. /\ UNCHANGED <<id_start, upgraded, data, connected, replies, asset_query,
                       updates, stops, proved>>
        /\ asked' \in Seq([ses_id : 1..MaxSes, method : AllMethods])
        /\ Len(asked') <= MaxRequests
    BY <1>1, <1>2, MessageFrame
  <1>4. TypeOK'
    BY <1>1, <1>2, <1>3 DEF TypeOK
  <1>5. EntriesWait'
    BY <1>1, <1>2, AnsweredAtOnce
  <1>6. Authenticated' /\ FeedsOwned' /\ ReadsOrdered'
    BY <1>1, <1>2, <1>3, ReadsStand DEF Authenticated, FeedsOwned
  <1>7. QED
    BY <1>4, <1>5, <1>6 DEF GatewayInv

\* server.auth and server.sign wait for the job that asks the service.
LEMMA MethodAuthKeeps ==
  ASSUME GatewayInv, NEW s \in Slots, NEW context \in {"auth", "sign"},
         on_method_server_auth(s, context)
  PROVE  GatewayInv'
  <1>1. /\ on_message(s, context) /\ context \in AllMethods
        /\ Wait(s, context, NoKey) /\ Nothing
        /\ jobs' = jobs \cup {ThisRequest}
        /\ UNCHANGED <<requests, reading, backend_cache, seen>>
    BY DEF on_method_server_auth, AllMethods
  <1>2. backend_cache \in [Keys -> Nat]
    BY DEF GatewayInv, TypeOK
  <1>3. QED
    BY <1>1, <1>2, WaitingKeeps

\* A private query goes to the engine in the name of info->user_id.
LEMMA MethodPrivateKeeps ==
  ASSUME GatewayInv, NEW s \in Slots, NEW ok \in BOOLEAN, on_method_private(s, ok)
  PROVE  GatewayInv'
  <1>1. /\ on_message(s, "private") /\ "private" \in AllMethods
        /\ UNCHANGED <<requests, backend_cache, jobs, seen>>
    BY DEF on_method_private, AllMethods
  <1>2. /\ TypeOK /\ EntriesWait /\ ReadsOrdered
        /\ backend_cache \in [Keys -> Nat]
        /\ seen \in [1..MaxSes -> [Keys -> Nat]]
        /\ ListsOwned(order_sub, info) /\ ListsOwned(asset_sub, info)
        /\ order_sub \in Lists(Markets) /\ asset_sub \in Lists(Assets)
    BY FeedsOwnedIsListsOwned DEF GatewayInv, TypeOK
  <1>3. CASE connected /\ info[s].auth
    <2>1. Wait(s, "server", NoKey) /\ Nothing /\ reading' = reading \cup {ThisRequest}
      BY <1>3 DEF on_method_private
    <2>2. QED
      BY <1>1, <1>2, <2>1, WaitingKeeps
  <1>4. CASE ~(connected /\ info[s].auth)
    <2>1. Send(s, ThisRequest, ok, info, order_sub, asset_sub)
          /\ UNCHANGED <<reading, pending>>
      BY <1>4 DEF on_method_private, Answer
    <2>2. ReadsOrdered'
      BY <1>1, <1>2, MessageFrame, ReadsStand
    <2>3. QED
      BY <1>1, <1>2, <2>1, <2>2, AnsweringKeeps
  <1>5. QED
    BY <1>3, <1>4

(* A query is answered from the cache: what the connection sees is what    *)
(* the cache holds.                                                        *)
LEMMA CacheHit ==
  ASSUME TypeOK, ReadsOrdered, NEW s \in Slots, NEW k \in Keys, NEW ok \in BOOLEAN,
         id[s] \in 1..MaxSes, backend_cache[k] # NotCached,
         See(s, k, backend_cache[k], ok),
         UNCHANGED <<data, replies, backend_cache>>
  PROVE  ReadsOrdered' /\ SeenGrows /\ seen' \in [1..MaxSes -> [Keys -> Nat]]
  <1> DEFINE c == id[s]
             v == backend_cache[k]
  <1>1. /\ \A q \in Keys : backend_cache[q] \in Nat
        /\ data \in Nat
        /\ \A i \in 1..Len(replies) : replies[i].result \in Nat
    BY ReadTypes
  <1>2. c \in 1..MaxSes /\ v \in Nat \ {0}
    BY <1>1 DEF NotCached
  <1>3. v <= data /\ \A d \in 1..MaxSes : seen[d][k] <= v
    BY DEF ReadsOrdered, SeenBehind
  <1>4. backend_cache[k] <= v /\ backend_cache' = [backend_cache EXCEPT ![k] = v]
    BY <1>1 DEF TypeOK
  <1>5. seen' = seen \/ seen' = [seen EXCEPT ![c][k] = v]
    BY DEF See
  <1>6. RepliesAfter(v)
    BY <1>1 DEF RepliesAfter, ReadsOrdered, Ahead
  <1>7. UNCHANGED data
    OBVIOUS
  <1> HIDE DEF c, v
  <1>8. QED
    BY <1>2, <1>3, <1>4, <1>5, <1>6, <1>7, VersionSeen

\* A public query is answered from backend_cache or waits for the engine.
LEMMA MethodQueryKeeps ==
  ASSUME GatewayInv, NEW s \in Slots, NEW k \in Keys,
         NEW young \in BOOLEAN, NEW ok \in BOOLEAN,
         on_method_query(s, k, young, ok)
  PROVE  GatewayInv' /\ SeenGrows
  <1>1. /\ on_message(s, "query") /\ "query" \in AllMethods
        /\ UNCHANGED <<reading, jobs>>
    BY DEF on_method_query, AllMethods
  <1>2. /\ TypeOK /\ EntriesWait /\ ReadsOrdered
        /\ backend_cache \in [Keys -> Nat]
        /\ seen \in [1..MaxSes -> [Keys -> Nat]]
        /\ ListsOwned(order_sub, info) /\ ListsOwned(asset_sub, info)
        /\ order_sub \in Lists(Markets) /\ asset_sub \in Lists(Assets)
    BY FeedsOwnedIsListsOwned DEF GatewayInv, TypeOK
  <1>3. UNCHANGED <<data, replies>> /\ id[s] \in 1..MaxSes
    BY <1>1, <1>2, MessageFrame, NewRequest
  <1>4. UNCHANGED seen => SeenGrows
    BY <1>2, ReadTypes DEF SeenGrows
  <1>5. CASE ~connected
    <2>1. /\ Send(s, ThisRequest, ok, info, order_sub, asset_sub)
          /\ UNCHANGED <<requests, backend_cache, pending, seen>>
      BY <1>5 DEF on_method_query, Answer
    <2>2. ReadsOrdered'
      BY <1>2, <1>3, <2>1, ReadsStand
    <2>3. QED
      BY <1>1, <1>2, <1>4, <2>1, <2>2, AnsweringKeeps
  <1>6. CASE connected /\ backend_cache[k] # NotCached /\ young
    <2>1. /\ Send(s, ThisRequest, ok, info, order_sub, asset_sub)
          /\ See(s, k, backend_cache[k], ok)
          /\ UNCHANGED <<requests, backend_cache, pending>>
      BY <1>6 DEF on_method_query, Answer
    <2>2. ReadsOrdered' /\ SeenGrows /\ seen' \in [1..MaxSes -> [Keys -> Nat]]
      BY <1>2, <1>3, <1>6, <2>1, CacheHit
    <2>3. QED
      BY <1>1, <1>2, <2>1, <2>2, AnsweringKeeps
  <1>7. CASE connected /\ ~(backend_cache[k] # NotCached /\ young)
    <2>1. /\ Wait(s, "server", k) /\ Nothing
          /\ backend_cache' = [backend_cache EXCEPT ![k] = NotCached]
          /\ requests' = Append(requests, ThisRequest)
          /\ UNCHANGED seen
      BY <1>7 DEF on_method_query
    <2>2. /\ backend_cache' \in [Keys -> Nat]
          /\ \A q \in Keys : backend_cache'[q] \in {NotCached, backend_cache[q]}
      BY <1>2, <2>1 DEF NotCached
    <2>3. QED
      BY <1>1, <1>4, <2>1, <2>2, WaitingKeeps
  <1>8. QED
    BY <1>5, <1>6, <1>7

(* A session subscribes anew: the lists of its user hold it for the topics *)
(* it names and no others.                                                 *)
LEMMA ResubscribeOwned ==
  ASSUME TypeOK, NEW s \in Slots, id[s] # 0, upgraded[s], info[s].auth,
         NEW Topics, NEW sub \in Lists(Topics), ListsOwned(sub, info),
         NEW topics \in SUBSET Topics
  PROVE  /\ Resubscribe(sub, s, topics) \in Lists(Topics)
         /\ ListsOwned(Resubscribe(sub, s, topics), info)
  <1> DEFINE u == info[s].user_id
             new == {[ses |-> s, topic |-> t] : t \in topics}
             res == Resubscribe(sub, s, topics)
  <1>1. u \in Users /\ info[s] = Authorised(u)
    BY DEF TypeOK, Infos, NoInfo, Authorised
  <1>2. sub \in [Users -> SUBSET [ses : Slots, topic : Topics]]
    BY DEF Lists
  <1>3. res = [sub EXCEPT ![u] = {n \in sub[u] : n.ses # s} \cup new]
    BY <1>1, <1>2 DEF Resubscribe, Unsubscribe
  <1>4. new \subseteq [ses : Slots, topic : Topics] /\ \A n \in new : n.ses = s
    OBVIOUS
  <1> HIDE DEF u, new, res
  <1>5. res \in Lists(Topics)
    BY <1>1, <1>2, <1>3, <1>4 DEF Lists
  <1>6. ASSUME NEW v \in Users, NEW n \in res[v]
        PROVE  id[n.ses] # 0 /\ Owned(n, v, info)
    <2>1. CASE n \in sub[v]
      BY <2>1 DEF ListsOwned
    <2>2. CASE n \notin sub[v]
      <3>1. v = u /\ n \in new
        BY <1>1, <1>2, <1>3, <2>2
      <3>2. QED
        BY <1>1, <1>4, <3>1 DEF Owned
    <2>3. QED
      BY <2>1, <2>2
  <1>7. QED
    BY <1>5, <1>6 DEF ListsOwned, res

\* order.subscribe and asset.subscribe: only the user of the session enters.
LEMMA SubscribeKeeps ==
  ASSUME GatewayInv, NEW s \in Slots, NEW ok \in BOOLEAN,
         \/ \E markets \in SUBSET Markets : on_method_order_subscribe(s, markets, ok)
         \/ \E assets \in SUBSET Assets : on_method_asset_subscribe(s, assets, ok)
  PROVE  GatewayInv'
  <1>1. /\ TypeOK /\ EntriesWait /\ ReadsOrdered
        /\ seen \in [1..MaxSes -> [Keys -> Nat]]
        /\ ListsOwned(order_sub, info) /\ ListsOwned(asset_sub, info)
        /\ order_sub \in Lists(Markets) /\ asset_sub \in Lists(Assets)
    BY FeedsOwnedIsListsOwned DEF GatewayInv, TypeOK
  <1>2. ASSUME NEW method \in AllMethods, NEW osub \in Lists(Markets),
               NEW asub \in Lists(Assets),
               ListsOwned(osub, info), ListsOwned(asub, info),
               on_message(s, method), Send(s, ThisRequest, ok, info, osub, asub),
               UNCHANGED <<requests, reading, backend_cache, pending, jobs, seen>>
        PROVE  GatewayInv'
    <2>1. ReadsOrdered'
      BY <1>1, <1>2, MessageFrame, ReadsStand
    <2>2. QED
      BY <1>1, <1>2, <2>1, AnsweringKeeps
  <1>3. ASSUME NEW markets \in SUBSET Markets,
               on_method_order_subscribe(s, markets, ok)
        PROVE  GatewayInv'
    <2>1. /\ on_message(s, "order") /\ "order" \in AllMethods
          /\ id[s] # 0 /\ upgraded[s]
          /\ UNCHANGED <<requests, reading, backend_cache, pending, jobs, seen>>
      BY <1>3 DEF on_method_order_subscribe, on_message, AllMethods
    <2>2. CASE info[s].auth
      <3> DEFINE osub == Resubscribe(order_sub, s, markets)
      <3>1. Send(s, ThisRequest, ok, info, osub, asset_sub)
        BY <1>3, <2>2 DEF on_method_order_subscribe
      <3>2. osub \in Lists(Markets) /\ ListsOwned(osub, info)
        BY <1>1, <2>1, <2>2, ResubscribeOwned
      <3> HIDE DEF osub
      <3>3. QED
        BY <1>1, <1>2, <2>1, <3>1, <3>2
    <2>3. CASE ~info[s].auth
      <3>1. Send(s, ThisRequest, ok, info, order_sub, asset_sub)
        BY <1>3, <2>3 DEF on_method_order_subscribe, Answer
      <3>2. QED
        BY <1>1, <1>2, <2>1, <3>1
    <2>4. QED
      BY <2>2, <2>3
  <1>4. ASSUME NEW assets \in SUBSET Assets,
               on_method_asset_subscribe(s, assets, ok)
        PROVE  GatewayInv'
    <2>1. /\ on_message(s, "asset") /\ "asset" \in AllMethods
          /\ id[s] # 0 /\ upgraded[s]
          /\ UNCHANGED <<requests, reading, backend_cache, pending, jobs, seen>>
      BY <1>4 DEF on_method_asset_subscribe, on_message, AllMethods
    <2>2. CASE info[s].auth
      <3> DEFINE asub == Resubscribe(asset_sub, s, assets)
      <3>1. Send(s, ThisRequest, ok, info, order_sub, asub)
        BY <1>4, <2>2 DEF on_method_asset_subscribe
      <3>2. asub \in Lists(Assets) /\ ListsOwned(asub, info)
        BY <1>1, <2>1, <2>2, ResubscribeOwned
      <3> HIDE DEF asub
      <3>3. QED
        BY <1>1, <1>2, <2>1, <3>1, <3>2
    <2>3. CASE ~info[s].auth
      <3>1. Send(s, ThisRequest, ok, info, order_sub, asset_sub)
        BY <1>4, <2>3 DEF on_method_asset_subscribe, Answer
      <3>2. QED
        BY <1>1, <1>2, <2>1, <3>1
    <2>4. QED
      BY <2>2, <2>3
  <1>5. QED
    BY <1>3, <1>4

-------------------------------------------------------------------------------
(* The steps of answers.                                                   *)

\* Replies not older than the last one read leave the reads ordered.
LEMMA RepliesLeft ==
  ASSUME ReadsOrdered, NEW v, RepliesAfter(v),
         UNCHANGED <<data, backend_cache, seen>>
  PROVE  ReadsOrdered'
  BY DEF ReadsOrdered, SeenBehind, Ahead, RepliesAfter

(* The answer to e, or the timer of e: e's session is told if it lives.    *)
LEMMA ToldKeeps ==
  ASSUME GatewayInv, NEW e \in pending, NEW ok \in BOOLEAN,
         NEW infos \in [Slots -> Infos],
         NEW osub \in Lists(Markets), NEW asub \in Lists(Assets),
         ListsOwned(osub, infos), ListsOwned(asub, infos),
         \/ ~SameSession(e) /\ Nothing
         \/ SameSession(e) /\ Send(e.ses, e.id, ok, infos, osub, asub),
         pending' = pending \ {e}, jobs' \subseteq jobs,
         UNCHANGED <<id_start, upgraded, asked>>
  PROVE  /\ id' \in [Slots -> 0..MaxSes]
         /\ \A t \in Slots : id'[t] \in {0, id[t]}
         /\ info' = info \/ info' = infos
         /\ SameSession(e) \/ info' = info
         /\ info' \in [Slots -> Infos]
         /\ order_sub' \in Lists(Markets) /\ asset_sub' \in Lists(Assets)
         /\ answers' \in [1..MaxRequests -> Seq(Nat)]
         /\ FeedsOwned' /\ EntriesWait'
  <1>1. /\ TypeOK /\ EntriesWait /\ FeedsOwned
    BY DEF GatewayInv
  <1>2. e.ses \in Slots /\ e.id \in 1..MaxRequests
    <2>1. e \in Entry /\ e.id \in DOMAIN asked /\ DOMAIN asked = 1..Len(asked)
      BY <1>1 DEF TypeOK, EntriesWait
    <2>2. QED
      BY <1>1, <2>1, GatewayAssumption DEF TypeOK, Entry
  <1>3. CASE ~SameSession(e) /\ Nothing
    <2>1. UNCHANGED <<id, info, order_sub, asset_sub, answers>>
      BY <1>3 DEF Nothing
    <2>2. EntriesWait'
      BY <1>1, <2>1, EntryTaken
    <2>3. FeedsOwned'
      BY <1>1, <2>1 DEF FeedsOwned
    <2>4. QED
      BY <1>1, <2>1, <2>2, <2>3 DEF TypeOK
  <1>4. CASE SameSession(e) /\ Send(e.ses, e.id, ok, infos, osub, asub)
    <2>1. /\ id' \in [Slots -> 0..MaxSes]
          /\ \A t \in Slots : id'[t] \in {0, id[t]}
          /\ info' = infos
          /\ order_sub' \in Lists(Markets) /\ asset_sub' \in Lists(Assets)
          /\ FeedsOwned'
          /\ \/ answers' = [answers EXCEPT ![e.id] = Append(@, id[e.ses])]
             \/ answers' = answers
          /\ answers' \in [1..MaxRequests -> Seq(Nat)]
      BY <1>1, <1>2, <1>4, SendLeavesOwned
    <2>2. EntriesWait'
      BY <1>1, <2>1, EntryTaken
    <2>3. QED
      BY <1>4, <2>1, <2>2
  <1>5. QED
    BY <1>3, <1>4

\* on_backend_recv_pkg: the reply reaches the session that waits for it.
LEMMA RecvKeeps ==
  ASSUME GatewayInv, NEW r \in Nat, NEW result \in Nat, NEW ok \in BOOLEAN,
         on_backend_recv_pkg(r, result, ok),
         reading' \subseteq Nat,
         replies' \in Seq([id : Nat, result : Nat]),
         RepliesAfter(result),
         result <= data,
         result # NullResult =>
            /\ \A k \in Keys : backend_cache[k] <= result
            /\ \A c \in 1..MaxSes, k \in Keys : seen[c][k] <= result
  PROVE  GatewayInv' /\ SeenGrows
  <1>1. /\ TypeOK /\ EntriesWait /\ ReadsOrdered /\ Authenticated /\ FeedsOwned
        /\ ListsOwned(order_sub, info) /\ ListsOwned(asset_sub, info)
        /\ order_sub \in Lists(Markets) /\ asset_sub \in Lists(Assets)
        /\ info \in [Slots -> Infos]
    BY FeedsOwnedIsListsOwned DEF GatewayInv, TypeOK
  <1>2. UNCHANGED <<id_start, upgraded, connected, requests, data, jobs,
                    asset_query, updates, stops, asked, proved>>
    BY DEF on_backend_recv_pkg, counts
  <1>3. UNCHANGED seen => SeenGrows
    BY <1>1, ReadTypes DEF SeenGrows
  <1>4. CASE Waiting(r, {"server"}) = {}
    <2>1. /\ UNCHANGED <<id, info, order_sub, asset_sub, answers>>
          /\ UNCHANGED <<pending, backend_cache, seen>>
      BY <1>4 DEF on_backend_recv_pkg, Nothing
    <2>2. TypeOK'
      BY <1>1, <1>2, <2>1 DEF TypeOK
    <2>3. EntriesWait' /\ Authenticated' /\ FeedsOwned'
      BY <1>1, <1>2, <2>1 DEF EntriesWait, Authenticated, FeedsOwned
    <2>4. ReadsOrdered'
      BY <1>1, <1>2, <2>1, RepliesLeft
    <2>5. QED
      BY <1>3, <2>1, <2>2, <2>3, <2>4 DEF GatewayInv
  <1>5. CASE Waiting(r, {"server"}) # {}
    <2>1. PICK e \in Waiting(r, {"server"}) :
              /\ IF SameSession(e)
                 THEN /\ Answer(e.ses, r, ok)
                      /\ IF e.key # NoKey THEN See(e.ses, e.key, result, ok)
                                          ELSE UNCHANGED seen
                 ELSE Nothing /\ UNCHANGED seen
              /\ backend_cache' = Cached(e, result)
              /\ pending' = pending \ {e}
      BY <1>5 DEF on_backend_recv_pkg
    <2>2. e \in pending /\ e.id = r
      BY DEF Waiting
    <2>3. e.ses_id \in 1..MaxSes /\ e.key \in Keys \cup {NoKey} /\ e.ses \in Slots
      BY <1>1, <2>2 DEF TypeOK, Entry
    <2>4. \/ ~SameSession(e) /\ Nothing
          \/ SameSession(e) /\ Send(e.ses, e.id, ok, info, order_sub, asset_sub)
      BY <2>1, <2>2 DEF Answer
    <2>5. /\ id' \in [Slots -> 0..MaxSes]
          /\ \A t \in Slots : id'[t] \in {0, id[t]}
          /\ info' = info
          /\ order_sub' \in Lists(Markets) /\ asset_sub' \in Lists(Assets)
          /\ answers' \in [1..MaxRequests -> Seq(Nat)]
          /\ FeedsOwned' /\ EntriesWait'
      BY <1>1, <1>2, <2>1, <2>2, <2>4, ToldKeeps
    <2>6. Authenticated'
      BY <1>1, <1>2, <2>5, ProofsStand
    <2>7. /\ ReadsOrdered' /\ SeenGrows
          /\ seen' \in [1..MaxSes -> [Keys -> Nat]]
          /\ backend_cache' \in [Keys -> Nat]
      <3>1. CASE e.key # NoKey /\ result # NullResult
        <4> DEFINE c == e.ses_id
                   k == e.key
        <4>1. c \in 1..MaxSes /\ k \in Keys /\ result \in Nat \ {0}
          BY <2>3, <3>1 DEF NullResult
        <4>2. backend_cache' = [backend_cache EXCEPT ![k] = result]
          BY <2>1, <3>1 DEF Cached
        <4>3. seen' = seen \/ seen' = [seen EXCEPT ![c][k] = result]
          BY <2>1, <3>1 DEF See, SameSession
        <4>4. backend_cache[k] <= result /\ \A d \in 1..MaxSes : seen[d][k] <= result
          BY <3>1, <4>1
        <4> HIDE DEF c, k
        <4>5. QED
          BY <1>1, <1>2, <4>1, <4>2, <4>3, <4>4, VersionSeen
      <3>2. CASE ~(e.key # NoKey /\ result # NullResult)
        <4>1. UNCHANGED <<backend_cache, seen>>
          BY <2>1, <3>2 DEF Cached, See
        <4>2. QED
          BY <1>1, <1>2, <1>3, <4>1, RepliesLeft DEF TypeOK
      <3>3. QED
        BY <3>1, <3>2
    <2>8. TypeOK'
      BY <1>1, <1>2, <2>1, <2>5, <2>7 DEF TypeOK
    <2>9. QED
      BY <2>5, <2>6, <2>7, <2>8 DEF GatewayInv
  <1>6. QED
    BY <1>4, <1>5

\* The reply to a public query also fills the cache.
LEMMA PublicReplyKeeps ==
  ASSUME GatewayInv, NEW ok \in BOOLEAN, on_public_reply(ok)
  PROVE  GatewayInv' /\ SeenGrows
  <1> DEFINE Reply == [id : Nat, result : Nat]
             r == Head(replies).id
             v == Head(replies).result
  <1>1. /\ TypeOK /\ ReadsOrdered
        /\ replies # <<>> /\ replies' = Tail(replies)
        /\ on_backend_recv_pkg(r, v, ok)
        /\ reading' = reading
    BY DEF on_public_reply, GatewayInv
  <1>2. replies \in Seq(Reply) /\ reading' \subseteq Nat
    BY <1>1 DEF TypeOK
  <1>3. \A x \in Reply : x.id \in Nat /\ x.result \in Nat
    OBVIOUS
  <1> HIDE DEF Reply
  <1>4. /\ 1 \in 1..Len(replies) /\ replies[1] \in Reply /\ Head(replies) = replies[1]
        /\ replies' \in Seq(Reply)
        /\ Len(replies) \in Nat /\ Len(replies') = Len(replies) - 1
        /\ \A i \in 1..Len(replies') :
              /\ replies'[i] = replies[i + 1] /\ i + 1 \in 1..Len(replies)
              /\ replies'[i] \in Reply
    BY <1>1, <1>2
  <1>5. r \in Nat /\ v \in Nat /\ v = replies[1].result
    BY <1>3, <1>4
  <1>6. v <= data /\ Ahead(1)
    BY <1>1, <1>4, <1>5 DEF ReadsOrdered
  <1>7. v # NullResult => /\ \A k \in Keys : backend_cache[k] <= v
                          /\ \A c \in 1..MaxSes, k \in Keys : seen[c][k] <= v
    BY <1>5, <1>6 DEF Ahead
  <1>8. ASSUME NEW i \in 1..Len(replies')
        PROVE  /\ replies'[i].result \in Nat
               /\ replies'[i].result <= data
               /\ replies'[i].result # NullResult =>
                     /\ v <= replies'[i].result
                     /\ \A q \in Keys : backend_cache[q] <= replies'[i].result
                     /\ \A d \in 1..MaxSes, q \in Keys : seen[d][q] <= replies'[i].result
                     /\ \A j \in i..Len(replies') :
                           replies'[j].result # NullResult =>
                               replies'[i].result <= replies'[j].result
    <2>1. /\ i + 1 \in 1..Len(replies) /\ replies'[i] = replies[i + 1]
          /\ replies'[i].result \in Nat
      BY <1>3, <1>4
    <2>2. replies[i + 1].result <= data /\ Ahead(i + 1)
      BY <1>1, <2>1 DEF ReadsOrdered
    <2>3. \A j \in i..Len(replies') : /\ j + 1 \in i + 1..Len(replies)
                                      /\ replies'[j] = replies[j + 1]
      BY <1>4
    <2>4. replies'[i].result # NullResult => v <= replies'[i].result
      <3>1. CASE v = 0
        BY <2>1, <3>1
      <3>2. CASE v # 0
        <4>1. i + 1 \in 1..Len(replies) /\ replies[1].result # NullResult
          BY <1>5, <2>1, <3>2 DEF NullResult
        <4>2. QED
          BY <1>5, <1>6, <2>1, <4>1 DEF Ahead
      <3>3. QED
        BY <3>1, <3>2
    <2>5. QED
      BY <2>1, <2>2, <2>3, <2>4 DEF Ahead
  <1>9. RepliesAfter(v)
    BY <1>8 DEF RepliesAfter
  <1> HIDE DEF r, v
  <1>10. replies' \in Seq([id : Nat, result : Nat])
    BY <1>4 DEF Reply
  <1>11. QED
    BY <1>1, <1>2, <1>5, <1>6, <1>7, <1>9, <1>10, RecvKeeps

\* The reply to a private query is not cached.
LEMMA PrivateReplyKeeps ==
  ASSUME GatewayInv, NEW r \in reading, NEW ok \in BOOLEAN, on_private_reply(r, ok)
  PROVE  GatewayInv' /\ SeenGrows
  <1>1. /\ TypeOK /\ ReadsOrdered
        /\ reading' = reading \ {r} /\ replies' = replies
        /\ on_backend_recv_pkg(r, NullResult, ok)
    BY DEF on_private_reply, GatewayInv
  <1>2. /\ r \in Nat /\ reading' \subseteq Nat
        /\ replies' \in Seq([id : Nat, result : Nat])
    BY <1>1 DEF TypeOK
  <1>3. RepliesAfter(NullResult)
    BY <1>1, ReadTypes DEF RepliesAfter, ReadsOrdered, Ahead, NullResult
  <1>4. NullResult \in Nat /\ NullResult <= data
    BY <1>1, ReadTypes DEF NullResult
  <1>5. QED
    BY <1>1, <1>2, <1>3, <1>4, RecvKeeps

\* on_timeout of nw_state: the session that still waits is told.
LEMMA TimeoutKeeps ==
  ASSUME GatewayInv, NEW e \in pending, NEW ok \in BOOLEAN, on_timeout(e, ok)
  PROVE  GatewayInv'
  <1> USE DEF backend, counts
  <1>1. /\ pending' = pending \ {e}
        /\ \/ ~SameSession(e) /\ Nothing
           \/ SameSession(e) /\ Send(e.ses, e.id, ok, info, order_sub, asset_sub)
        /\ UNCHANGED <<id_start, upgraded, backend, backend_cache, jobs, asset_query,
                       counts, asked, seen, proved>>
    BY DEF on_timeout, Answer
  <1>2. /\ TypeOK /\ EntriesWait /\ ReadsOrdered /\ Authenticated /\ FeedsOwned
        /\ ListsOwned(order_sub, info) /\ ListsOwned(asset_sub, info)
        /\ order_sub \in Lists(Markets) /\ asset_sub \in Lists(Assets)
        /\ info \in [Slots -> Infos]
    BY FeedsOwnedIsListsOwned DEF GatewayInv, TypeOK
  <1>3. /\ id' \in [Slots -> 0..MaxSes]
        /\ \A t \in Slots : id'[t] \in {0, id[t]}
        /\ info' = info
        /\ order_sub' \in Lists(Markets) /\ asset_sub' \in Lists(Assets)
        /\ answers' \in [1..MaxRequests -> Seq(Nat)]
        /\ FeedsOwned' /\ EntriesWait'
    BY <1>1, <1>2, ToldKeeps
  <1>4. TypeOK'
    BY <1>1, <1>2, <1>3 DEF TypeOK
  <1>5. Authenticated' /\ ReadsOrdered'
    BY <1>1, <1>2, <1>3, ProofsStand, ReadsStand
  <1>6. QED
    BY <1>3, <1>4, <1>5 DEF GatewayInv

(* When s becomes user u's, the lists without its old units are owned.     *)
LEMMA LeftOldOwned ==
  ASSUME TypeOK, NEW s \in Slots, NEW u \in Users, NEW Topics,
         NEW sub \in Lists(Topics), ListsOwned(sub, info)
  PROVE  /\ LeftOld(sub, s, u) \in Lists(Topics)
         /\ ListsOwned(LeftOld(sub, s, u), [info EXCEPT ![s] = Authorised(u)])
  <1> DEFINE w == info[s].user_id
             left == LeftOld(sub, s, u)
             infos == [info EXCEPT ![s] = Authorised(u)]
  <1>1. /\ info \in [Slots -> Infos]
        /\ sub \in [Users -> SUBSET [ses : Slots, topic : Topics]]
    BY DEF TypeOK, Lists
  <1>2. /\ left \in Lists(Topics)
        /\ \A v \in Users : left[v] \subseteq sub[v]
    BY <1>1 DEF LeftOld, Unsubscribe, Lists
  <1>3. ASSUME NEW v \in Users, NEW n \in left[v]
        PROVE  id[n.ses] # 0 /\ Owned(n, v, infos)
    <2>1. n \in sub[v] /\ n.ses \in Slots
      BY <1>1, <1>2
    <2>2. id[n.ses] # 0 /\ upgraded[n.ses] /\ info[n.ses] = Authorised(v)
      BY <2>1 DEF ListsOwned, Owned
    <2>3. CASE n.ses # s
      BY <1>1, <2>1, <2>2, <2>3 DEF Owned
    <2>4. CASE n.ses = s
      <3>1. info[s].auth /\ w = v
        BY <2>2, <2>4 DEF Authorised
      <3>2. v = u
        <4>1. ASSUME w # u PROVE FALSE
          <5>1. left = [sub EXCEPT ![w] = {m \in @ : m.ses # s}]
            BY <3>1, <4>1 DEF LeftOld, Unsubscribe
          <5>2. QED
            BY <1>1, <2>4, <3>1, <5>1
        <4>2. QED
          BY <3>1, <4>1
      <3>3. QED
        BY <1>1, <2>2, <2>4, <3>2 DEF Owned
    <2>5. QED
      BY <2>3, <2>4
  <1>4. QED
    BY <1>2, <1>3 DEF ListsOwned

\* on_job_finish: the user id of the answer enters the session that asked.
LEMMA FinishKeeps ==
  ASSUME GatewayInv, NEW r \in jobs, NEW u \in Users \cup {0}, NEW ok \in BOOLEAN,
         on_finish(r, u, ok)
  PROVE  GatewayInv'
  <1> USE DEF backend, counts
  <1>1. /\ jobs' = jobs \ {r}
        /\ proved' = IF u = 0 THEN proved ELSE proved \cup {<<asked[r].ses_id, u>>}
        /\ UNCHANGED <<id_start, upgraded, backend, backend_cache, asset_query,
                       counts, asked, seen>>
    BY DEF on_finish
  <1>2. /\ TypeOK /\ EntriesWait /\ ReadsOrdered /\ Authenticated /\ FeedsOwned
        /\ ListsOwned(order_sub, info) /\ ListsOwned(asset_sub, info)
        /\ order_sub \in Lists(Markets) /\ asset_sub \in Lists(Assets)
        /\ info \in [Slots -> Infos]
    BY FeedsOwnedIsListsOwned DEF GatewayInv, TypeOK
  <1>3. ReadsOrdered'
    BY <1>1, <1>2, ReadsStand
  <1>4. proved \subseteq proved' /\ proved' \subseteq (1..MaxSes) \X Users
    <2> DEFINE A == [ses_id : 1..MaxSes, method : AllMethods]
    <2>1. asked \in Seq(A) /\ r \in DOMAIN asked
      BY <1>2 DEF TypeOK, EntriesWait
    <2>2. asked[r].ses_id \in 1..MaxSes
      <3>1. \A a \in A : a.ses_id \in 1..MaxSes
        OBVIOUS
      <3> HIDE DEF A
      <3>2. asked[r] \in A
        BY <2>1
      <3>3. QED
        BY <3>1, <3>2
    <2>3. QED
      BY <1>1, <1>2, <2>2 DEF TypeOK
  <1>5. CASE Waiting(r, {"auth", "sign"}) = {}
    <2>1. UNCHANGED <<id, info, order_sub, asset_sub, answers, pending>>
      BY <1>5 DEF on_finish, Nothing
    <2>2. TypeOK'
      BY <1>1, <1>2, <1>4, <2>1 DEF TypeOK
    <2>3. EntriesWait' /\ Authenticated' /\ FeedsOwned'
      BY <1>1, <1>2, <1>4, <2>1 DEF EntriesWait, Authenticated, FeedsOwned
    <2>4. QED
      BY <1>3, <2>2, <2>3 DEF GatewayInv
  <1>6. CASE Waiting(r, {"auth", "sign"}) # {}
    <2>1. PICK e \in Waiting(r, {"auth", "sign"}) :
              on_result(e, u, ok) /\ pending' = pending \ {e}
      BY <1>6 DEF on_finish
    <2>2. /\ e \in pending /\ e.id = r /\ e.ses \in Slots
          /\ e.ses_id = asked[r].ses_id
          /\ e.ses_id \in 1..MaxSes
      BY <1>2 DEF Waiting, EntriesWait, TypeOK, Entry
    <2>3. CASE u = 0 \/ ~SameSession(e)
      <3>1. \/ ~SameSession(e) /\ Nothing
            \/ SameSession(e) /\ Send(e.ses, e.id, ok, info, order_sub, asset_sub)
        BY <2>1, <2>3 DEF on_result, Answer
      <3>2. /\ id' \in [Slots -> 0..MaxSes]
            /\ \A t \in Slots : id'[t] \in {0, id[t]}
            /\ info' = info
            /\ order_sub' \in Lists(Markets) /\ asset_sub' \in Lists(Assets)
            /\ answers' \in [1..MaxRequests -> Seq(Nat)]
            /\ FeedsOwned' /\ EntriesWait'
        BY <1>1, <1>2, <2>1, <2>2, <3>1, ToldKeeps
      <3>3. TypeOK'
        BY <1>1, <1>2, <1>4, <2>1, <3>2 DEF TypeOK
      <3>4. Authenticated'
        BY <1>1, <1>2, <1>4, <3>2, ProofsStand
      <3>5. QED
        BY <1>3, <3>2, <3>3, <3>4 DEF GatewayInv
    <2>4. CASE u # 0 /\ SameSession(e)
      <3> DEFINE infos == [info EXCEPT ![e.ses] = Authorised(u)]
                 osub == LeftOld(order_sub, e.ses, u)
                 asub == LeftOld(asset_sub, e.ses, u)
      <3>1. u \in Users /\ infos \in [Slots -> Infos]
        BY <1>2, <2>4 DEF Infos
      <3>2. /\ osub \in Lists(Markets) /\ asub \in Lists(Assets)
            /\ ListsOwned(osub, infos) /\ ListsOwned(asub, infos)
        BY <1>2, <2>2, <3>1, LeftOldOwned
      <3>3. Send(e.ses, e.id, ok, infos, osub, asub)
        BY <2>1, <2>4 DEF on_result
      <3> HIDE DEF infos, osub, asub
      <3>4. /\ id' \in [Slots -> 0..MaxSes]
            /\ \A t \in Slots : id'[t] \in {0, id[t]}
            /\ info' = info \/ info' = infos
            /\ info' \in [Slots -> Infos]
            /\ order_sub' \in Lists(Markets) /\ asset_sub' \in Lists(Assets)
            /\ answers' \in [1..MaxRequests -> Seq(Nat)]
            /\ FeedsOwned' /\ EntriesWait'
        BY <1>1, <1>2, <2>1, <2>2, <2>4, <3>1, <3>2, <3>3, ToldKeeps
      <3>5. TypeOK'
        BY <1>1, <1>2, <1>4, <2>1, <3>4 DEF TypeOK
      <3>6. ASSUME NEW t \in Slots, id'[t] # 0 /\ upgraded'[t] /\ info'[t].auth
            PROVE  <<id'[t], info'[t].user_id>> \in proved'
        <4>1. id'[t] = id[t] /\ upgraded[t]
          BY <1>1, <3>4, <3>6
        <4>2. CASE info'[t] = info[t]
          BY <1>2, <1>4, <3>6, <4>1, <4>2 DEF Authenticated
        <4>3. CASE info'[t] # info[t]
          <5>1. t = e.ses /\ info'[t] = Authorised(u)
            BY <1>2, <3>4, <4>3 DEF infos
          <5>2. id'[t] = asked[r].ses_id /\ info'[t].user_id = u
            BY <2>2, <2>4, <4>1, <5>1 DEF SameSession, Authorised
          <5>3. QED
            BY <1>1, <2>4, <5>2
        <4>4. QED
          BY <4>2, <4>3
      <3>7. QED
        BY <1>3, <3>4, <3>5, <3>6 DEF GatewayInv, Authenticated
    <2>5. QED
      BY <2>3, <2>4
  <1>7. QED
    BY <1>5, <1>6

\* on_cache_timer empties backend_cache.
LEMMA CacheTimerKeeps ==
  ASSUME GatewayInv, on_cache_timer
  PROVE  GatewayInv'
  <1> USE DEF session, backend, feeds, counts, history
  <1>1. /\ backend_cache' = [k \in Keys |-> NotCached]
        /\ UNCHANGED <<session, backend, pending, jobs, feeds, counts, history>>
    BY DEF on_cache_timer
  <1>2. TypeOK /\ EntriesWait /\ Authenticated /\ FeedsOwned /\ ReadsOrdered
    BY DEF GatewayInv
  <1>3. TypeOK'
    BY <1>1, <1>2 DEF TypeOK, NotCached
  <1>4. EntriesWait' /\ Authenticated' /\ FeedsOwned'
    BY <1>1, <1>2 DEF EntriesWait, Authenticated, FeedsOwned
  <1>5. ReadsOrdered'
    BY <1>1, <1>2, ReadTypes DEF ReadsOrdered, SeenBehind, Ahead, NotCached
  <1>6. QED
    BY <1>3, <1>4, <1>5 DEF GatewayInv

-------------------------------------------------------------------------------
(* The steps of the feeds of orders and balances.                          *)

\* A feed that sends, closing the sessions that cannot take it.
LEMMA NotifyKeeps ==
  ASSUME GatewayInv, NEW F \in SUBSET Slots,
         on_close(F, info, order_sub, asset_sub),
         asset_query' \subseteq [id : Nat, user_id : Users, asset : Assets],
         updates' \in Nat,
         UNCHANGED <<id_start, upgraded, backend, backend_cache, pending, jobs,
                     stops, history>>
  PROVE  GatewayInv'
  <1> USE DEF backend, history
  <1>1. /\ TypeOK /\ EntriesWait /\ ReadsOrdered /\ Authenticated /\ FeedsOwned
        /\ ListsOwned(order_sub, info) /\ ListsOwned(asset_sub, info)
        /\ order_sub \in Lists(Markets) /\ asset_sub \in Lists(Assets)
        /\ info \in [Slots -> Infos]
    BY FeedsOwnedIsListsOwned DEF GatewayInv, TypeOK
  <1>2. /\ id' \in [Slots -> 0..MaxSes]
        /\ \A s \in Slots : id'[s] \in {0, id[s]}
        /\ info' = info
        /\ order_sub' \in Lists(Markets) /\ asset_sub' \in Lists(Assets)
        /\ FeedsOwned'
    BY <1>1, CloseLeavesOwned
  <1>3. TypeOK'
    BY <1>1, <1>2 DEF TypeOK
  <1>4. EntriesWait'
    BY <1>1 DEF EntriesWait
  <1>5. Authenticated' /\ ReadsOrdered'
    BY <1>1, <1>2, ProofsStand, ReadsStand
  <1>6. QED
    BY <1>2, <1>3, <1>4, <1>5 DEF GatewayInv

\* asset_on_update queries assets of the user who subscribed to them.
LEMMA QueriesTyped ==
  ASSUME TypeOK, NEW u \in Users, NEW assets \in SUBSET Assets,
         asset_on_update(u, assets)
  PROVE  asset_query' \subseteq [id : Nat, user_id : Users, asset : Assets]
  BY DEF TypeOK, asset_on_update

\* A message of the topic orders.
LEMMA OrdersMessageKeeps ==
  ASSUME GatewayInv, NEW u \in Users, NEW market \in Markets, NEW F \in SUBSET Slots,
         on_orders_message(u, market, F)
  PROVE  GatewayInv'
  <1> DEFINE assets == {market[1], market[2]}
  <1>1. /\ TypeOK
        /\ updates' = updates + 1
        /\ asset_on_update(u, assets)
        /\ on_close(F, info, order_sub, asset_sub)
        /\ UNCHANGED <<id_start, upgraded, backend, backend_cache, pending, jobs,
                       stops, history>>
    BY DEF on_orders_message, Notify, GatewayInv
  <1>2. assets \in SUBSET Assets
    BY GatewayAssumption
  <1>3. updates' \in Nat
    BY <1>1 DEF TypeOK
  <1> HIDE DEF assets
  <1>4. QED
    BY <1>1, <1>2, <1>3, QueriesTyped, NotifyKeeps

\* A message of the topic balances.
LEMMA BalancesMessageKeeps ==
  ASSUME GatewayInv, NEW u \in Users, NEW asset \in Assets,
         on_balances_message(u, asset)
  PROVE  GatewayInv'
  <1> USE DEF session, backend, history
  <1>1. /\ updates' = updates + 1
        /\ asset_on_update(u, {asset})
        /\ UNCHANGED <<session, backend, backend_cache, pending, jobs, order_sub,
                       asset_sub, stops, history>>
    BY DEF on_balances_message
  <1>2. TypeOK /\ EntriesWait /\ Authenticated /\ FeedsOwned /\ ReadsOrdered
    BY DEF GatewayInv
  <1>3. asset_query' \subseteq [id : Nat, user_id : Users, asset : Assets]
    BY <1>1, <1>2, QueriesTyped
  <1>4. TypeOK'
    BY <1>1, <1>2, <1>3 DEF TypeOK
  <1>5. EntriesWait' /\ Authenticated' /\ FeedsOwned' /\ ReadsOrdered'
    BY <1>1, <1>2, ReadsStand DEF EntriesWait, Authenticated, FeedsOwned
  <1>6. QED
    BY <1>4, <1>5 DEF GatewayInv

\* The balance that asset_on_update asked for arrives.
LEMMA BalanceReplyKeeps ==
  ASSUME GatewayInv, NEW q \in asset_query, NEW F \in SUBSET Slots,
         on_balance_query_reply(q, F)
  PROVE  GatewayInv'
  <1>1. /\ asset_query' = asset_query \ {q}
        /\ on_close(F, info, order_sub, asset_sub)
        /\ UNCHANGED <<id_start, upgraded, backend, backend_cache, pending, jobs,
                       counts, history>>
    BY DEF on_balance_query_reply, Notify
  <1>2. /\ asset_query' \subseteq [id : Nat, user_id : Users, asset : Assets]
        /\ updates' \in Nat /\ stops' = stops
    BY <1>1 DEF GatewayInv, TypeOK, counts
  <1>3. QED
    BY <1>1, <1>2, NotifyKeeps

\* The balance does not arrive in time.
LEMMA BalanceTimeoutKeeps ==
  ASSUME GatewayInv, NEW q \in asset_query, on_balance_query_timeout(q)
  PROVE  GatewayInv'
  <1> USE DEF session, backend, history, counts
  <1>1. /\ asset_query' = asset_query \ {q}
        /\ UNCHANGED <<session, backend, backend_cache, pending, jobs, order_sub,
                       asset_sub, counts, history>>
    BY DEF on_balance_query_timeout
  <1>2. TypeOK /\ EntriesWait /\ Authenticated /\ FeedsOwned /\ ReadsOrdered
    BY DEF GatewayInv
  <1>3. TypeOK'
    BY <1>1, <1>2 DEF TypeOK
  <1>4. EntriesWait' /\ Authenticated' /\ FeedsOwned' /\ ReadsOrdered'
    BY <1>1, <1>2, ReadsStand DEF EntriesWait, Authenticated, FeedsOwned
  <1>5. QED
    BY <1>3, <1>4 DEF GatewayInv

-------------------------------------------------------------------------------
(* The steps around the worker.                                            *)

\* The engine answers the oldest query with the data of that moment.
LEMMA BackendReplyKeeps ==
  ASSUME GatewayInv, NEW result \in {data, NullResult}, BackendReply(result)
  PROVE  GatewayInv'
  <1> USE DEF session, feeds, counts, history
  <1> DEFINE Reply == [id : Nat, result : Nat]
             new == [id |-> Head(requests), result |-> result]
  <1>1. /\ requests # <<>> /\ requests' = Tail(requests)
        /\ replies' = Append(replies, new)
        /\ UNCHANGED <<session, connected, reading, data, backend_cache, pending,
                       jobs, feeds, counts, history>>
    BY DEF BackendReply
  <1>2. /\ TypeOK /\ EntriesWait /\ Authenticated /\ FeedsOwned /\ ReadsOrdered
        /\ replies \in Seq(Reply) /\ requests \in Seq(Nat)
    BY DEF GatewayInv, TypeOK
  <1>3. /\ requests' \in Seq(Nat) /\ Head(requests) \in Nat
    BY <1>1, <1>2
  <1>4. new \in Reply /\ new.result = result /\ result \in Nat
    BY <1>2, <1>3, ReadTypes DEF NullResult
  <1>5. \A x \in Reply : x.result \in Nat
    OBVIOUS
  <1> HIDE DEF Reply, new
  <1>6. /\ replies' \in Seq(Reply) /\ Len(replies) \in Nat
        /\ Len(replies') = Len(replies) + 1
        /\ \A i \in 1..Len(replies) : replies'[i] = replies[i]
        /\ replies'[Len(replies) + 1] = new
    BY <1>1, <1>2, <1>4
  <1>7. TypeOK'
    <2>1. replies' \in Seq([id : Nat, result : Nat])
      BY <1>6 DEF Reply
    <2>2. QED
      BY <1>1, <1>2, <1>3, <2>1 DEF TypeOK
  <1>8. EntriesWait' /\ Authenticated' /\ FeedsOwned' /\ SeenBehind'
    BY <1>1, <1>2 DEF EntriesWait, Authenticated, FeedsOwned, ReadsOrdered, SeenBehind
  <1>9. ASSUME NEW i \in 1..Len(replies')
        PROVE  replies'[i].result <= data' /\ Ahead(i)'
    <2>1. CASE i \in 1..Len(replies)
      <3>1. Ahead(i) /\ replies[i].result <= data /\ replies[i].result \in Nat
        BY <1>2, <2>1, ReadTypes DEF ReadsOrdered
      <3>2. replies'[i] = replies[i]
        BY <1>6, <2>1
      <3>3. ASSUME NEW j \in i..Len(replies'), replies'[j].result # NullResult,
                   replies[i].result # NullResult
            PROVE  replies[i].result <= replies'[j].result
        <4>1. CASE j \in 1..Len(replies)
          <5>1. replies'[j] = replies[j] /\ j \in i..Len(replies)
            BY <1>6, <2>1, <4>1
          <5>2. QED
            BY <3>1, <3>3, <5>1 DEF Ahead
        <4>2. CASE j = Len(replies) + 1
          BY <1>4, <1>6, <3>1, <3>3, <4>2
        <4>3. QED
          BY <1>6, <2>1, <4>1, <4>2
      <3>4. QED
        BY <1>1, <3>1, <3>2, <3>3 DEF Ahead
    <2>2. CASE i = Len(replies) + 1
      <3>1. /\ replies'[i].result = result
            /\ \A j \in i..Len(replies') : j = i
        BY <1>4, <1>6, <2>2
      <3>2. SeenBehind /\ data \in Nat
        BY <1>2, ReadTypes DEF ReadsOrdered
      <3>3. result # NullResult => result = data
        OBVIOUS
      <3>4. QED
        BY <1>1, <1>4, <3>1, <3>2, <3>3 DEF Ahead, SeenBehind, NullResult
    <2>3. QED
      BY <1>6, <2>1, <2>2
  <1>10. QED
    BY <1>7, <1>8, <1>9 DEF GatewayInv, ReadsOrdered

\* The data of the engine changes; what was read is of before.
LEMMA BackendChangeKeeps ==
  ASSUME GatewayInv, BackendChange
  PROVE  GatewayInv'
  <1> USE DEF session, feeds, counts, history
  <1>1. /\ data' = data + 1
        /\ UNCHANGED <<session, connected, requests, replies, reading, backend_cache,
                       pending, jobs, feeds, counts, history>>
    BY DEF BackendChange
  <1>2. TypeOK /\ EntriesWait /\ Authenticated /\ FeedsOwned /\ ReadsOrdered
    BY DEF GatewayInv
  <1>3. TypeOK'
    BY <1>1, <1>2 DEF TypeOK
  <1>4. EntriesWait' /\ Authenticated' /\ FeedsOwned'
    BY <1>1, <1>2 DEF EntriesWait, Authenticated, FeedsOwned
  <1>5. /\ data \in Nat /\ \A x \in Nat : x <= data => x <= data + 1
    BY <1>2, ReadTypes
  <1>6. SeenBehind'
    BY <1>1, <1>2, <1>5, ReadTypes DEF ReadsOrdered, SeenBehind
  <1>7. \A i \in 1..Len(replies) : replies[i].result <= data + 1 /\ Ahead(i)
    BY <1>2, <1>5, ReadTypes DEF ReadsOrdered
  <1>8. QED
    BY <1>1, <1>3, <1>4, <1>6, <1>7 DEF GatewayInv, ReadsOrdered, Ahead

\* The connection to the engine ends or begins, and loses what was on it.
LEMMA ReconnectKeeps ==
  ASSUME GatewayInv, Reconnect
  PROVE  GatewayInv'
  <1> USE DEF session, feeds, counts, history
  <1>1. /\ connected' = ~connected
        /\ requests' = <<>> /\ replies' = <<>> /\ reading' = {}
        /\ UNCHANGED <<session, data, backend_cache, pending, jobs, feeds, counts,
                       history>>
    BY DEF Reconnect
  <1>2. TypeOK /\ EntriesWait /\ Authenticated /\ FeedsOwned /\ ReadsOrdered
    BY DEF GatewayInv
  <1>3. TypeOK'
    BY <1>1, <1>2 DEF TypeOK
  <1>4. EntriesWait' /\ Authenticated' /\ FeedsOwned'
    BY <1>1, <1>2 DEF EntriesWait, Authenticated, FeedsOwned
  <1>5. SeenBehind' /\ Len(replies') = 0
    BY <1>1, <1>2 DEF ReadsOrdered, SeenBehind
  <1>6. QED
    BY <1>3, <1>4, <1>5 DEF GatewayInv, ReadsOrdered

\* A new worker: nothing of the old one but what clients have seen.
LEMMA RestartKeeps ==
  ASSUME GatewayInv, Restart
  PROVE  GatewayInv'
  <1> USE DEF history
  <1>1. /\ stops' = stops + 1
        /\ id' = [s \in Slots |-> 0]
        /\ upgraded' = [s \in Slots |-> FALSE]
        /\ info' = [s \in Slots |-> NoInfo]
        /\ connected' = TRUE
        /\ requests' = <<>> /\ replies' = <<>> /\ reading' = {}
        /\ backend_cache' = [k \in Keys |-> NotCached]
        /\ pending' = {} /\ jobs' = {}
        /\ order_sub' = [u \in Users |-> {}]
        /\ asset_sub' = [u \in Users |-> {}]
        /\ asset_query' = {}
        /\ UNCHANGED <<id_start, data, updates, history>>
    BY DEF Restart
  <1>2. TypeOK /\ EntriesWait /\ ReadsOrdered
    BY DEF GatewayInv
  <1>3. TypeOK'
    <2>1. MaxSes \in Nat
      BY GatewayAssumption
    <2>2. id' \in [Slots -> 0..MaxSes] /\ info' \in [Slots -> Infos]
      BY <1>1, <2>1 DEF Infos
    <2>3. order_sub' \in Lists(Markets) /\ asset_sub' \in Lists(Assets)
      BY <1>1 DEF Lists
    <2>4. requests' \in Seq(Nat) /\ replies' \in Seq([id : Nat, result : Nat])
      BY <1>1
    <2>5. QED
      BY <1>1, <1>2, <2>2, <2>3, <2>4 DEF TypeOK, NotCached
  <1>4. EntriesWait'
    BY <1>1, <1>2 DEF EntriesWait
  <1>5. Authenticated' /\ FeedsOwned'
    BY <1>1 DEF Authenticated, FeedsOwned
  <1>6. SeenBehind' /\ Len(replies') = 0
    BY <1>1, <1>2, ReadTypes DEF ReadsOrdered, SeenBehind, NotCached
  <1>7. QED
    BY <1>3, <1>4, <1>5, <1>6 DEF GatewayInv, ReadsOrdered

-------------------------------------------------------------------------------
(* The theorems.                                                           *)

\* A worker that has just started.
LEMMA InitInv == Init => GatewayInv
  <1> SUFFICES ASSUME Init PROVE GatewayInv
    OBVIOUS
  <1>1. MaxSes \in Nat /\ MaxRequests \in Nat
    BY GatewayAssumption
  <1>2. TypeOK
    <2>1. id \in [Slots -> 0..MaxSes] /\ info \in [Slots -> Infos]
      BY <1>1 DEF Init, Infos
    <2>2. order_sub \in Lists(Markets) /\ asset_sub \in Lists(Assets)
      BY DEF Init, Lists
    <2>3. requests \in Seq(Nat) /\ replies \in Seq([id : Nat, result : Nat])
      BY DEF Init
    <2>4. /\ asked \in Seq([ses_id : 1..MaxSes, method : AllMethods])
          /\ Len(asked) <= MaxRequests
      BY <1>1 DEF Init
    <2>5. answers \in [1..MaxRequests -> Seq(Nat)]
      BY DEF Init
    <2>6. QED
      BY <1>1, <2>1, <2>2, <2>3, <2>4, <2>5 DEF Init, TypeOK, NotCached
  <1>3. EntriesWait /\ Authenticated /\ FeedsOwned
    BY DEF Init, EntriesWait, Authenticated, FeedsOwned
  <1>4. ReadsOrdered
    BY <1>2 DEF Init, ReadsOrdered, SeenBehind, NotCached
  <1>5. QED
    BY <1>2, <1>3, <1>4 DEF GatewayInv

\* Every step of the gateway keeps GatewayInv, and nobody reads backwards.
LEMMA NextInv ==
  ASSUME GatewayInv, [Next]_vars
  PROVE  GatewayInv' /\ (SeenGrows \/ UNCHANGED seen)
  <1>1. CASE UNCHANGED vars
    <2> USE DEF vars, session, backend, feeds, counts, history
    <2>1. TypeOK /\ EntriesWait /\ Authenticated /\ FeedsOwned /\ ReadsOrdered
      BY DEF GatewayInv
    <2>2. TypeOK' /\ EntriesWait'
      BY <1>1, <2>1 DEF TypeOK, EntriesWait
    <2>3. Authenticated' /\ FeedsOwned' /\ ReadsOrdered'
      BY <1>1, <2>1, ReadsStand DEF Authenticated, FeedsOwned
    <2>4. QED
      BY <1>1, <2>2, <2>3 DEF GatewayInv
  <1>2. ASSUME NEW s \in Slots, nw_svr_add_clt(s) \/ nw_svr_close_clt(s)
        PROVE  GatewayInv' /\ UNCHANGED seen
    BY <1>2, AddCltKeeps, CloseCltKeeps
       DEF nw_svr_add_clt, nw_svr_close_clt, history
  <1>3. ASSUME NEW s \in Slots, NEW ok \in BOOLEAN, on_upgrade(s, ok)
        PROVE  GatewayInv' /\ UNCHANGED seen
    BY <1>3, UpgradeKeeps DEF on_upgrade, history
  <1>4. ASSUME NEW s \in Slots, NEW ok \in BOOLEAN, Request(s, ok)
        PROVE  GatewayInv' /\ (SeenGrows \/ UNCHANGED seen)
    <2>1. CASE on_method_server(s, ok)
      BY <2>1, MethodServerKeeps DEF on_method_server
    <2>2. CASE on_method_unknown(s)
      BY <2>2, MethodUnknownKeeps DEF on_method_unknown
    <2>3. CASE \E context \in {"auth", "sign"} : on_method_server_auth(s, context)
      BY <2>3, MethodAuthKeeps DEF on_method_server_auth
    <2>4. CASE \E k \in Keys, young \in BOOLEAN : on_method_query(s, k, young, ok)
      BY <2>4, MethodQueryKeeps
    <2>5. CASE on_method_private(s, ok)
      BY <2>5, MethodPrivateKeeps DEF on_method_private
    <2>6. CASE \/ \E markets \in SUBSET Markets :
                     on_method_order_subscribe(s, markets, ok)
               \/ \E assets \in SUBSET Assets :
                     on_method_asset_subscribe(s, assets, ok)
      BY <2>6, SubscribeKeeps
         DEF on_method_order_subscribe, on_method_asset_subscribe
    <2>7. QED
      BY <1>4, <2>1, <2>2, <2>3, <2>4, <2>5, <2>6 DEF Request
  <1>5. ASSUME NEW ok \in BOOLEAN, on_public_reply(ok)
        PROVE  GatewayInv' /\ SeenGrows
    BY <1>5, PublicReplyKeeps
  <1>6. ASSUME NEW r \in reading, NEW ok \in BOOLEAN, on_private_reply(r, ok)
        PROVE  GatewayInv' /\ SeenGrows
    BY <1>6, PrivateReplyKeeps
  <1>7. ASSUME NEW r \in 1..MaxRequests, Timer(r)
        PROVE  GatewayInv' /\ UNCHANGED seen
    BY <1>7, TimeoutKeeps DEF Timer, on_timeout
  <1>8. ASSUME NEW r \in jobs, NEW u \in Users \cup {0}, NEW ok \in BOOLEAN,
               on_finish(r, u, ok)
        PROVE  GatewayInv' /\ UNCHANGED seen
    BY <1>8, FinishKeeps DEF on_finish
  <1>9. ASSUME on_cache_timer
        PROVE  GatewayInv' /\ UNCHANGED seen
    BY <1>9, CacheTimerKeeps DEF on_cache_timer, history
  <1>10. ASSUME NEW u \in Users, NEW market \in Markets, NEW F \in SUBSET Slots,
                on_orders_message(u, market, F)
         PROVE  GatewayInv' /\ UNCHANGED seen
    BY <1>10, OrdersMessageKeeps DEF on_orders_message, history
  <1>11. ASSUME NEW u \in Users, NEW asset \in Assets, on_balances_message(u, asset)
         PROVE  GatewayInv' /\ UNCHANGED seen
    BY <1>11, BalancesMessageKeeps DEF on_balances_message, history
  <1>12. ASSUME NEW q \in asset_query, NEW F \in SUBSET Slots,
                on_balance_query_reply(q, F)
         PROVE  GatewayInv' /\ UNCHANGED seen
    BY <1>12, BalanceReplyKeeps DEF on_balance_query_reply, history
  <1>13. ASSUME NEW q \in asset_query, on_balance_query_timeout(q)
         PROVE  GatewayInv' /\ UNCHANGED seen
    BY <1>13, BalanceTimeoutKeeps DEF on_balance_query_timeout, history
  <1>14. ASSUME NEW result \in {data, NullResult}, BackendReply(result)
         PROVE  GatewayInv' /\ UNCHANGED seen
    BY <1>14, BackendReplyKeeps DEF BackendReply, history
  <1>15. CASE BackendChange \/ Reconnect \/ Restart
    BY <1>15, BackendChangeKeeps, ReconnectKeeps, RestartKeeps
       DEF BackendChange, Reconnect, Restart, history
  <1>16. QED
    BY <1>1, <1>2, <1>3, <1>4, <1>5, <1>6, <1>7, <1>8, <1>9, <1>10, <1>11, <1>12,
       <1>13, <1>14, <1>15 DEF Next

(* The inductive invariant holds always. *)
THEOREM GatewayInvariant == Spec => []GatewayInv
  <1>1. Init => GatewayInv
    BY InitInv
  <1>2. GatewayInv /\ [Next]_vars => GatewayInv'
    BY NextInv
  <1>3. QED
    BY <1>1, <1>2, PTL DEF Spec

(* aw_auth.c, aw_sign.c, on_result: though the thread may end after the    *)
(* session that asked did, and its slot be another's, a session is never   *)
(* authenticated as anybody but a user its own connection has proved to    *)
(* be.                                                                     *)
THEOREM AuthenticatedAlways == Spec => []Authenticated
  <1>1. GatewayInv => Authenticated
    BY DEF GatewayInv
  <1>2. QED
    BY <1>1, GatewayInvariant, PTL

(* aw_order.c, aw_asset.c: the lists of a user hold open sessions that are *)
(* authenticated as this user, so nobody else is told of his orders and    *)
(* balances.                                                               *)
THEOREM FeedsOwnedAlways == Spec => []FeedsOwned
  <1>1. GatewayInv => FeedsOwned
    BY DEF GatewayInv
  <1>2. QED
    BY <1>1, GatewayInvariant, PTL

(* aw_server.c, process_cache and on_backend_recv_pkg: no connection is    *)
(* given an older answer to a query than one it has had.                   *)
THEOREM ReadsMonotonic == Spec => MonotonicReads
  <1>1. GatewayInv /\ [Next]_vars
            => [\A c \in 1..MaxSes, k \in Keys : seen'[c][k] >= seen[c][k]]_seen
    BY NextInv DEF SeenGrows
  <1>2. QED
    BY <1>1, GatewayInvariant, PTL DEF Spec, MonotonicReads

-------------------------------------------------------------------------------
(* aw_server.c implements RequestReply.                                    *)

(* The connections that are open, and whose the requests are. *)
Open == {id[s] : s \in Slots} \ {0}
Askers == [r \in DOMAIN asked |-> asked[r].ses_id]

AbstractStep == [Abstract!Next]_Abstract!vars

\* Askers, the abstract list of requests, has the length of asked.
LEMMA AskersType ==
  ASSUME TypeOK
  PROVE  /\ Askers \in Seq(1..MaxSes) /\ Len(Askers) = Len(asked)
         /\ DOMAIN Askers = DOMAIN asked
         /\ DOMAIN asked = 1..Len(asked) /\ Len(asked) \in Nat
         /\ Len(asked) <= MaxRequests /\ MaxRequests \in Nat
  <1> DEFINE A == [ses_id : 1..MaxSes, method : AllMethods]
  <1>1. asked \in Seq(A) /\ Len(asked) <= MaxRequests /\ MaxRequests \in Nat
    BY GatewayAssumption DEF TypeOK
  <1>2. \A a \in A : a.ses_id \in 1..MaxSes
    OBVIOUS
  <1> HIDE DEF A
  <1>3. /\ DOMAIN asked = 1..Len(asked) /\ Len(asked) \in Nat
        /\ \A r \in DOMAIN asked : asked[r] \in A
    BY <1>1
  <1>4. QED
    BY <1>1, <1>2, <1>3 DEF Askers

(* Sessions end: Disconnect, *)
LEMMA ClosingImplements ==
  ASSUME \A s \in Slots : id'[s] \in {0, id[s]},
         UNCHANGED <<id_start, asked, answers>>
  PROVE  AbstractStep
  <1>1. Open' \subseteq Open
    BY DEF Open
  <1>2. Abstract!Disconnect
    BY <1>1 DEF Abstract!Disconnect, Open
  <1>3. QED
    BY <1>2 DEF AbstractStep, Abstract!Next

(* one begins: Connect, *)
LEMMA ConnectingImplements ==
  ASSUME TypeOK, NEW s \in Slots, nw_svr_add_clt(s)
  PROVE  AbstractStep
  <1>1. /\ id[s] = 0 /\ id_start' = id_start + 1
        /\ id' = [id EXCEPT ![s] = id_start + 1]
        /\ UNCHANGED <<asked, answers>>
        /\ id \in [Slots -> 0..MaxSes] /\ id_start \in Nat
    BY GatewayAssumption DEF nw_svr_add_clt, history, TypeOK
  <1>2. Open' = Open \cup {id_start + 1}
    <2>1. \A t \in Slots : id'[t] = IF t = s THEN id_start + 1 ELSE id[t]
      BY <1>1
    <2>2. id_start + 1 # 0
      BY <1>1
    <2>3. QED
      BY <1>1, <2>1, <2>2 DEF Open
  <1>3. Abstract!Connect
    BY <1>1, <1>2 DEF Abstract!Connect, Open
  <1>4. QED
    BY <1>3 DEF AbstractStep, Abstract!Next

(* one that is still open is answered, once: Answer, or is closed by the   *)
(* attempt: Disconnect,                                                    *)
LEMMA AnsweringImplements ==
  ASSUME GatewayInv, NEW e \in pending, NEW ok \in BOOLEAN,
         NEW infos, NEW osub, NEW asub,
         \/ ~SameSession(e) /\ Nothing
         \/ SameSession(e) /\ Send(e.ses, e.id, ok, infos, osub, asub),
         UNCHANGED <<id_start, asked>>
  PROVE  AbstractStep
  <1>1. TypeOK /\ EntriesWait
    BY DEF GatewayInv
  <1>2. /\ e.id \in DOMAIN asked /\ e.id \in 1..MaxRequests
        /\ e.ses_id = asked[e.id].ses_id
        /\ answers[e.id] = <<>>
        /\ e.ses \in Slots /\ e.ses_id \in 1..MaxSes
    <2>1. e \in Entry /\ e.id \in DOMAIN asked
          /\ e.ses_id = asked[e.id].ses_id /\ answers[e.id] = <<>>
      BY <1>1 DEF EntriesWait, TypeOK
    <2>2. e.id \in 1..MaxRequests
      BY <1>1, <2>1, AskersType
    <2>3. QED
      BY <2>1, <2>2 DEF Entry
  <1>3. CASE Nothing
    <2>1. UNCHANGED <<id, id_start, asked, answers>>
      BY <1>3 DEF Nothing
    <2>2. QED
      BY <2>1, ClosingImplements
  <1>4. CASE SameSession(e) /\ Send(e.ses, e.id, ok, infos, osub, asub) /\ ok
    <2>1. /\ answers' = [answers EXCEPT ![e.id] = Append(@, id[e.ses])]
          /\ id' = id /\ id[e.ses] = e.ses_id
      BY <1>4 DEF Send, SameSession
    <2>2. answers' = [answers EXCEPT ![e.id] = <<Askers[e.id]>>]
      <3>1. Askers[e.id] = id[e.ses]
        BY <1>2, <2>1 DEF Askers
      <3>2. Append(answers[e.id], Askers[e.id]) = <<Askers[e.id]>>
        BY <1>2
      <3>3. QED
        BY <2>1, <3>1, <3>2
    <2>3. Askers[e.id] \in Open
      <3>1. Askers[e.id] = id[e.ses] /\ id[e.ses] # 0
        BY <1>2, <2>1, GatewayAssumption DEF Askers
      <3>2. QED
        BY <1>2, <3>1 DEF Open
    <2>4. Abstract!Answer(e.id)
      <3>1. e.id \in DOMAIN Askers
        BY <1>2 DEF Askers
      <3>2. UNCHANGED <<Open, id_start, Askers>>
        BY <2>1 DEF Open, Askers
      <3>3. QED
        BY <1>2, <2>2, <2>3, <3>1, <3>2 DEF Abstract!Answer, Open, Askers
    <2>5. QED
      BY <1>2, <2>4 DEF AbstractStep, Abstract!Next
  <1>5. CASE SameSession(e) /\ Send(e.ses, e.id, ok, infos, osub, asub) /\ ~ok
    <2>1. /\ id' = [t \in Slots |-> IF t \in {e.ses} THEN 0 ELSE id[t]]
          /\ UNCHANGED answers
      BY <1>5 DEF Send, on_close
    <2>2. QED
      BY <2>1, ClosingImplements
  <1>6. QED
    BY <1>3, <1>4, <1>5

\* One more answer at the end of a list of answers.
LEMMA ConcatOne ==
  ASSUME NEW S, NEW q \in Seq(S), NEW c \in S
  PROVE  q \o [i \in 1..1 |-> c] =
            [i \in 1..Len(q) + 1 |-> IF i <= Len(q) THEN q[i] ELSE c]
  <1>1. [i \in 1..1 |-> c] = <<c>>
    OBVIOUS
  <1>2. q \o <<c>> = [i \in 1..Len(q) + 1 |-> IF i <= Len(q) THEN q[i] ELSE c]
    OBVIOUS
  <1>3. QED
    BY <1>1, <1>2

(* and asks: Ask, with the answer, without, or instead of it the end.      *)
LEMMA AskingImplements ==
  ASSUME GatewayInv, NEW s \in Slots, NEW method \in AllMethods, NEW ok \in BOOLEAN,
         NEW osub, NEW asub, on_message(s, method),
         Nothing \/ Send(s, ThisRequest, ok, info, osub, asub)
  PROVE  AbstractStep
  <1>1. TypeOK /\ EntriesWait
    BY DEF GatewayInv
  <1> PICK c \in 1..MaxSes : c = id[s]
    BY <1>1, NewRequest
  <1> DEFINE r == ThisRequest
  <1>2. /\ c \in 1..MaxSes /\ c # 0
        /\ r \in 1..MaxRequests /\ r = Len(asked) + 1
        /\ answers[r] = <<>>
        /\ Len(asked') = r
        /\ DOMAIN asked' = DOMAIN asked \cup {r}
        /\ \A i \in DOMAIN asked : i # r /\ asked'[i] = asked[i]
        /\ asked'[r].ses_id = c
        /\ id_start' = id_start
    <2>1. /\ id[s] \in 1..MaxSes
          /\ ThisRequest \in 1..MaxRequests
          /\ answers[ThisRequest] = <<>>
          /\ Len(asked') = ThisRequest
          /\ DOMAIN asked' = DOMAIN asked \cup {ThisRequest}
          /\ \A i \in DOMAIN asked : i # ThisRequest /\ asked'[i] = asked[i]
          /\ asked'[ThisRequest].ses_id = id[s]
      BY <1>1, NewRequest
    <2>2. ThisRequest = Len(asked) + 1 /\ id[s] # 0
      BY <2>1, GatewayAssumption DEF ThisRequest
    <2>3. id_start' = id_start
      BY <1>1, MessageFrame
    <2>4. QED
      BY <2>1, <2>2, <2>3
  <1>3. c \in Open
    BY <1>2 DEF Open
  <1> HIDE DEF r
  <1>4. Askers' = Askers \o [i \in 1..1 |-> c]
    <2>1. /\ Askers \in Seq(1..MaxSes) /\ Len(Askers) = Len(asked)
          /\ DOMAIN asked = 1..Len(asked) /\ Len(asked) \in Nat
      BY <1>1, AskersType
    <2>2. Askers' = [i \in 1..Len(asked) + 1 |-> IF i <= Len(asked) THEN Askers[i] ELSE c]
      BY <1>2, <2>1 DEF Askers
    <2>3. QED
      BY <1>2, <2>1, <2>2, ConcatOne
  <1>5. 1 \in 1..MaxRequests - Len(Askers) /\ Len(Askers) + 1 = r
    BY <1>1, <1>2, AskersType
  <1>6. /\ Open' \in {Open, Open \ {c}}
        /\ \E now \in SUBSET (Len(Askers) + 1..Len(Askers) + 1) :
              answers' = [i \in DOMAIN answers |->
                             IF i \in now THEN <<c>> ELSE answers[i]]
    <2>1. answers \in [1..MaxRequests -> Seq(Nat)]
      BY <1>1 DEF TypeOK
    <2>2. UNCHANGED answers =>
            answers' = [i \in DOMAIN answers |-> IF i \in {} THEN <<c>> ELSE answers[i]]
      BY <2>1
    <2>3. CASE Nothing
      <3>1. UNCHANGED <<id, answers>>
        BY <2>3 DEF Nothing
      <3>2. Open' = Open
        BY <3>1 DEF Open
      <3>3. {} \in SUBSET (Len(Askers) + 1..Len(Askers) + 1)
        OBVIOUS
      <3>4. QED
        BY <2>2, <3>1, <3>2, <3>3
    <2>4. CASE Send(s, r, ok, info, osub, asub) /\ ok
      <3>1. answers' = [answers EXCEPT ![r] = Append(@, c)] /\ id' = id
        BY <2>4 DEF Send
      <3>2. Append(answers[r], c) = <<c>>
        BY <1>2
      <3>3. answers' = [i \in DOMAIN answers |-> IF i \in {r} THEN <<c>> ELSE answers[i]]
        BY <2>1, <3>1, <3>2
      <3>4. Open' = Open
        BY <3>1 DEF Open
      <3>5. {r} \in SUBSET (Len(Askers) + 1..Len(Askers) + 1)
        BY <1>2, <1>5
      <3>6. QED
        BY <3>3, <3>4, <3>5
    <2>5. CASE Send(s, r, ok, info, osub, asub) /\ ~ok
      <3>1. /\ id' = [t \in Slots |-> IF t = s THEN 0 ELSE id[t]]
            /\ UNCHANGED answers
        BY <2>5 DEF Send, on_close
      <3>2. Open' \in {Open, Open \ {c}}
        <4>1. CASE \E t \in Slots : t # s /\ id[t] = c
          <5>1. Open' = Open
            BY <3>1, <4>1 DEF Open
          <5>2. QED
            BY <5>1
        <4>2. CASE \A t \in Slots : t # s => id[t] # c
          <5>1. Open' = Open \ {c}
            BY <3>1, <4>2 DEF Open
          <5>2. QED
            BY <5>1
        <4>3. QED
          BY <4>1, <4>2
      <3>3. {} \in SUBSET (Len(Askers) + 1..Len(Askers) + 1)
        OBVIOUS
      <3>4. QED
        BY <2>2, <3>1, <3>2, <3>3
    <2>6. QED
      BY <2>3, <2>4, <2>5 DEF r
  <1>7. Abstract!Ask(c)
    <2> DEFINE Asks(n) ==
            /\ Askers' = Askers \o [i \in 1..n |-> c]
            /\ \E now \in SUBSET (Len(Askers) + 1..Len(Askers) + n) :
                  answers' = [i \in DOMAIN answers |->
                                 IF i \in now THEN <<c>> ELSE answers[i]]
    <2>1. Asks(1)
      BY <1>4, <1>6
    <2> HIDE DEF Asks
    <2>2. \E n \in 1..MaxRequests - Len(Askers) : Asks(n)
      BY <1>5, <2>1
    <2>3. /\ c \in Open /\ Open' \in {Open, Open \ {c}} /\ UNCHANGED id_start
      BY <1>2, <1>3, <1>6
    <2> USE DEF Asks
    <2>4. QED
      BY <2>2, <2>3, Zenon DEF Abstract!Ask, Open, Askers
  <1>8. QED
    BY <1>3, <1>7 DEF AbstractStep, Abstract!Next, Open

(* The rest leaves the connections, the requests and the answers alone. *)
LEMMA StutterImplements ==
  ASSUME UNCHANGED <<id, id_start, asked, answers>>
  PROVE  AbstractStep
  BY ClosingImplements

\* Request: Ask, answered at once, later, or by the end of the session.
LEMMA RequestImplements ==
  ASSUME GatewayInv, NEW s \in Slots, NEW ok \in BOOLEAN, Request(s, ok)
  PROVE  AbstractStep
  <1>1. ASSUME NEW method \in AllMethods, NEW osub, NEW asub, on_message(s, method),
               Nothing \/ Send(s, ThisRequest, ok, info, osub, asub)
        PROVE  AbstractStep
    BY <1>1, AskingImplements
  <1>2. {"server", "unknown", "auth", "sign", "query", "private", "order", "asset"}
            \subseteq AllMethods
    BY DEF AllMethods
  <1>3. CASE on_method_server(s, ok)
    BY <1>1, <1>2, <1>3 DEF on_method_server, Answer
  <1>4. CASE on_method_unknown(s)
    BY <1>1, <1>2, <1>4 DEF on_method_unknown
  <1>5. ASSUME NEW context \in {"auth", "sign"}, on_method_server_auth(s, context)
        PROVE  AbstractStep
    BY <1>1, <1>2, <1>5 DEF on_method_server_auth
  <1>6. ASSUME NEW k \in Keys, NEW young \in BOOLEAN, on_method_query(s, k, young, ok)
        PROVE  AbstractStep
    <2>1. /\ on_message(s, "query")
          /\ Nothing \/ Send(s, ThisRequest, ok, info, order_sub, asset_sub)
      BY <1>6 DEF on_method_query, Answer
    <2>2. QED
      BY <1>1, <1>2, <2>1
  <1>7. CASE on_method_private(s, ok)
    <2>1. /\ on_message(s, "private")
          /\ Nothing \/ Send(s, ThisRequest, ok, info, order_sub, asset_sub)
      BY <1>7 DEF on_method_private, Answer
    <2>2. QED
      BY <1>1, <1>2, <2>1
  <1>8. ASSUME NEW markets \in SUBSET Markets, on_method_order_subscribe(s, markets, ok)
        PROVE  AbstractStep
    BY <1>1, <1>2, <1>8 DEF on_method_order_subscribe, Answer
  <1>9. ASSUME NEW assets \in SUBSET Assets, on_method_asset_subscribe(s, assets, ok)
        PROVE  AbstractStep
    BY <1>1, <1>2, <1>9 DEF on_method_asset_subscribe, Answer
  <1>10. QED
    BY <1>3, <1>4, <1>5, <1>6, <1>7, <1>8, <1>9 DEF Request

\* The reply of a backend: Answer, or Disconnect.
LEMMA RecvImplements ==
  ASSUME GatewayInv, NEW r, NEW result, NEW ok \in BOOLEAN,
         on_backend_recv_pkg(r, result, ok)
  PROVE  AbstractStep
  <1>1. UNCHANGED <<id_start, asked>>
    BY DEF on_backend_recv_pkg
  <1>2. CASE Waiting(r, {"server"}) = {}
    <2>1. UNCHANGED <<id, answers>>
      BY <1>2 DEF on_backend_recv_pkg, Nothing
    <2>2. QED
      BY <1>1, <2>1, StutterImplements
  <1>3. CASE Waiting(r, {"server"}) # {}
    <2>1. PICK e \in Waiting(r, {"server"}) :
              IF SameSession(e) THEN Answer(e.ses, r, ok) ELSE Nothing
      BY <1>3 DEF on_backend_recv_pkg
    <2>2. e \in pending /\ e.id = r
      BY DEF Waiting
    <2>3. \/ ~SameSession(e) /\ Nothing
          \/ SameSession(e) /\ Send(e.ses, e.id, ok, info, order_sub, asset_sub)
      BY <2>1, <2>2 DEF Answer
    <2>4. QED
      BY <1>1, <2>2, <2>3, AnsweringImplements
  <1>4. QED
    BY <1>2, <1>3

\* The end of a job: Answer, or Disconnect.
LEMMA FinishImplements ==
  ASSUME GatewayInv, NEW r \in jobs, NEW u \in Users \cup {0}, NEW ok \in BOOLEAN,
         on_finish(r, u, ok)
  PROVE  AbstractStep
  <1>1. UNCHANGED <<id_start, asked>>
    BY DEF on_finish
  <1>2. CASE Waiting(r, {"auth", "sign"}) = {}
    <2>1. UNCHANGED <<id, answers>>
      BY <1>2 DEF on_finish, Nothing
    <2>2. QED
      BY <1>1, <2>1, StutterImplements
  <1>3. CASE Waiting(r, {"auth", "sign"}) # {}
    <2>1. PICK e \in Waiting(r, {"auth", "sign"}) : on_result(e, u, ok)
      BY <1>3 DEF on_finish
    <2>2. e \in pending
      BY DEF Waiting
    <2>3. CASE ~SameSession(e) /\ Nothing
      BY <1>1, <2>2, <2>3, AnsweringImplements
    <2>4. CASE SameSession(e) /\ Send(e.ses, e.id, ok, info, order_sub, asset_sub)
      BY <1>1, <2>2, <2>4, AnsweringImplements
    <2>5. CASE /\ SameSession(e)
               /\ Send(e.ses, e.id, ok, [info EXCEPT ![e.ses] = Authorised(u)],
                       LeftOld(order_sub, e.ses, u), LeftOld(asset_sub, e.ses, u))
      BY <1>1, <2>2, <2>5, AnsweringImplements
    <2>6. QED
      BY <2>1, <2>3, <2>4, <2>5 DEF on_result, Answer
  <1>4. QED
    BY <1>2, <1>3

\* Every step of the gateway is one of RequestReply, or none.
LEMMA NextImplements ==
  ASSUME GatewayInv, [Next]_vars
  PROVE  AbstractStep
  <1> USE DEF session, backend, feeds, counts, history
  <1>1. CASE UNCHANGED vars
    BY <1>1, StutterImplements DEF vars
  <1>2. ASSUME NEW s \in Slots, nw_svr_add_clt(s)
        PROVE  AbstractStep
    BY <1>2, ConnectingImplements DEF GatewayInv
  <1>3. ASSUME NEW S \in SUBSET Slots, on_close(S, info, order_sub, asset_sub),
               UNCHANGED <<id_start, asked, answers>>
        PROVE  AbstractStep
    BY <1>3, ClosingImplements DEF on_close
  <1>4. ASSUME NEW s \in Slots, nw_svr_close_clt(s)
        PROVE  AbstractStep
    BY <1>3, <1>4 DEF nw_svr_close_clt
  <1>5. ASSUME NEW s \in Slots, NEW ok \in BOOLEAN, on_upgrade(s, ok)
        PROVE  AbstractStep
    <2>1. \A t \in Slots : id'[t] \in {0, id[t]}
      BY <1>5 DEF on_upgrade, GatewayInv, TypeOK
    <2>2. QED
      BY <1>5, <2>1, ClosingImplements DEF on_upgrade
  <1>6. ASSUME NEW s \in Slots, NEW ok \in BOOLEAN, Request(s, ok)
        PROVE  AbstractStep
    BY <1>6, RequestImplements
  <1>7. ASSUME NEW ok \in BOOLEAN, on_public_reply(ok)
        PROVE  AbstractStep
    BY <1>7, RecvImplements DEF on_public_reply
  <1>8. ASSUME NEW r \in reading, NEW ok \in BOOLEAN, on_private_reply(r, ok)
        PROVE  AbstractStep
    BY <1>8, RecvImplements DEF on_private_reply
  <1>9. ASSUME NEW e \in pending, NEW ok \in BOOLEAN, on_timeout(e, ok)
        PROVE  AbstractStep
    BY <1>9, AnsweringImplements DEF on_timeout, Answer
  <1>10. ASSUME NEW r \in jobs, NEW u \in Users \cup {0}, NEW ok \in BOOLEAN,
                on_finish(r, u, ok)
         PROVE  AbstractStep
    BY <1>10, FinishImplements
  <1>11. CASE on_cache_timer
    BY <1>11, StutterImplements DEF on_cache_timer
  <1>12. ASSUME NEW u \in Users, NEW market \in Markets, NEW F \in SUBSET Slots,
                on_orders_message(u, market, F)
         PROVE  AbstractStep
    BY <1>3, <1>12 DEF on_orders_message, Notify
  <1>13. ASSUME NEW u \in Users, NEW asset \in Assets, on_balances_message(u, asset)
         PROVE  AbstractStep
    BY <1>13, StutterImplements DEF on_balances_message
  <1>14. ASSUME NEW q \in asset_query, NEW F \in SUBSET Slots,
                on_balance_query_reply(q, F)
         PROVE  AbstractStep
    BY <1>3, <1>14 DEF on_balance_query_reply, Notify
  <1>15. ASSUME NEW q \in asset_query, on_balance_query_timeout(q)
         PROVE  AbstractStep
    BY <1>15, StutterImplements DEF on_balance_query_timeout
  <1>16. ASSUME NEW result, BackendReply(result)
         PROVE  AbstractStep
    BY <1>16, StutterImplements DEF BackendReply
  <1>17. CASE BackendChange \/ Reconnect
    BY <1>17, StutterImplements DEF BackendChange, Reconnect
  <1>18. CASE Restart
    BY <1>18, ClosingImplements DEF Restart
  <1>19. QED
    BY <1>1, <1>2, <1>4, <1>5, <1>6, <1>7, <1>8, <1>9, <1>10, <1>11, <1>12,
       <1>13, <1>14, <1>15, <1>16, <1>17, <1>18 DEF Next, Timer

(* A request is answered at most once, on the connection that asked, while *)
(* it is open: also after its timeout, when its connection's slot has gone *)
(* to another, and when the answer comes back to a worker that has been    *)
(* restarted.                                                              *)
THEOREM GatewayImplementsRequestReply == Spec => ImplementsRequestReply
  <1>1. Init => Abstract!Init
    <2> SUFFICES ASSUME Init PROVE Abstract!Init
      OBVIOUS
    <2>1. Open = {}
      BY DEF Init, Open
    <2>2. Askers = <<>>
      BY DEF Init, Askers
    <2>3. QED
      BY <2>1, <2>2 DEF Init, Abstract!Init, Open, Askers
  <1>2. GatewayInv /\ [Next]_vars => [Abstract!Next]_Abstract!vars
    BY NextImplements DEF AbstractStep
  <1>3. QED
    BY <1>1, <1>2, GatewayInvariant, PTL DEF Spec, ImplementsRequestReply, Abstract!Spec
================================================================================
