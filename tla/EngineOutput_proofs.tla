-------------------------- MODULE EngineOutput_proofs --------------------------
(***************************************************************************)
(* The messages of every topic keep their order from push_message through  *)
(* the list and librdkafka's queue to Kafka, for any size of the queue,    *)
(* any number of commands, failures and restarts.                          *)
(*                                                                         *)
(* The rows of the history go from a statement through a request and a     *)
(* thread to their table; none is lost or doubled but those a restart      *)
(* drops, those of a statement sent again, and those refused for ids that  *)
(* were given again, for any number of threads and tables.                 *)
(***************************************************************************)
EXTENDS EngineOutput, FiniteSetTheorems, SequenceTheorems, TLAPS

-------------------------------------------------------------------------------
(* Sequences of messages.                                                  *)

(* What is in a sequence is what is at its places.                         *)
LEMMA InSeq ==
  ASSUME NEW s \in Seq(Nat)
  PROVE  /\ \A i \in 1..Len(s) : s[i] \in ToSet(s) /\ s[i] \in Nat
         /\ \A m \in ToSet(s) : m \in Nat /\ \E i \in 1..Len(s) : s[i] = m
         /\ Ordered(s) <=> \A i, j \in 1..Len(s) : i < j => s[i] < s[j]
  <1>1. DOMAIN s = 1..Len(s) /\ \A i \in 1..Len(s) : s[i] \in Nat
    OBVIOUS
  <1>2. QED
    BY <1>1 DEF ToSet, Ordered

(* A number beyond those of a line goes to its end.                        *)
LEMMA LineGrows ==
  ASSUME NEW s \in Seq(Nat), NEW n \in Nat, Ordered(s), ToSet(s) \subseteq 1..n
  PROVE  /\ Append(s, n + 1) \in Seq(Nat)
         /\ Ordered(Append(s, n + 1))
         /\ ToSet(Append(s, n + 1)) = ToSet(s) \cup {n + 1}
  <1> DEFINE a == Append(s, n + 1)
  <1>1. /\ a \in Seq(Nat) /\ Len(a) = Len(s) + 1 /\ Len(s) \in Nat
        /\ \A i \in 1..Len(s) : a[i] = s[i]
        /\ a[Len(s) + 1] = n + 1
    BY AppendProperties
  <1> HIDE DEF a
  <1>2. \A i \in 1..Len(s) : s[i] \in Nat /\ s[i] < n + 1
    <2>1. \A m \in 1..n : m < n + 1
      OBVIOUS
    <2>2. QED
      BY <2>1, InSeq
  <1>3. Ordered(a)
    <2>1. ASSUME NEW i \in 1..Len(a), NEW j \in 1..Len(a), i < j
          PROVE  a[i] < a[j]
      <3>1. i \in 1..Len(s)
        BY <1>1, <2>1
      <3>2. CASE j \in 1..Len(s)
        BY <1>1, <2>1, <3>1, <3>2, InSeq
      <3>3. CASE j = Len(s) + 1
        BY <1>1, <1>2, <3>1, <3>3
      <3>4. QED
        BY <1>1, <3>2, <3>3
    <2>2. QED
      BY <1>1, <2>1, InSeq
  <1>4. ASSUME NEW m
        PROVE  m \in ToSet(a) <=> m \in ToSet(s) \cup {n + 1}
    <2>1. ASSUME m \in ToSet(a) PROVE m \in ToSet(s) \cup {n + 1}
      <3>1. PICK i \in 1..Len(a) : a[i] = m
        BY <1>1, <2>1, InSeq
      <3>2. i \in 1..Len(s) \/ i = Len(s) + 1
        BY <1>1
      <3>3. QED
        BY <1>1, <3>1, <3>2, InSeq
    <2>2. ASSUME m \in ToSet(s) PROVE m \in ToSet(a)
      <3>1. PICK i \in 1..Len(s) : s[i] = m
        BY <2>2, InSeq
      <3>2. i \in 1..Len(a) /\ a[i] = m
        BY <1>1, <3>1
      <3>3. QED
        BY <1>1, <3>2, InSeq
    <2>3. n + 1 \in ToSet(a)
      <3>1. Len(s) + 1 \in 1..Len(a)
        BY <1>1
      <3>2. QED
        BY <1>1, <3>1, InSeq
    <2>4. QED
      BY <2>1, <2>2, <2>3
  <1>5. QED
    BY <1>1, <1>3, <1>4 DEF a

(* One that is dropped leaves the others in order.                         *)
LEMMA LineShrinks ==
  ASSUME NEW s \in Seq(Nat), NEW r \in Seq(Nat), NEW k \in 1..Len(s), Ordered(s),
         Len(r) = Len(s) - 1,
         \A i \in 1..Len(r) : r[i] = IF i < k THEN s[i] ELSE s[i + 1]
  PROVE  Ordered(r) /\ \A m : m \in ToSet(r) <=> m \in ToSet(s) /\ m # s[k]
  <1>1. Len(s) \in Nat /\ Len(r) \in Nat /\ \A i \in 1..Len(s) : s[i] \in Nat
    BY InSeq, LenProperties
  <1> DEFINE at(i) == IF i < k THEN i ELSE i + 1
  <1>2. \A i \in 1..Len(r) : at(i) \in 1..Len(s) /\ at(i) # k /\ r[i] = s[at(i)]
    <2> TAKE i \in 1..Len(r)
    <2>1. CASE i < k
      BY <1>1, <2>1
    <2>2. CASE ~(i < k)
      BY <1>1, <2>2
    <2>3. QED
      BY <2>1, <2>2
  <1>3. \A i, j \in 1..Len(r) : i < j => at(i) < at(j)
    <2> TAKE i, j \in 1..Len(r)
    <2>1. i \in Int /\ j \in Int /\ k \in Int
      BY <1>1
    <2>2. QED
      BY <2>1
  <1>4. \A j \in 1..Len(s) : j # k => \E i \in 1..Len(r) : at(i) = j
    <2> TAKE j \in 1..Len(s)
    <2> HAVE j # k
    <2>1. CASE j < k
      <3>1. j \in 1..Len(r) /\ at(j) = j
        BY <1>1, <2>1
      <3>2. QED
        BY <3>1
    <2>2. CASE j > k
      <3>1. j - 1 \in 1..Len(r) /\ at(j - 1) = j
        BY <1>1, <2>2
      <3>2. QED
        BY <3>1
    <2>3. QED
      BY <1>1, <2>1, <2>2
  <1> HIDE DEF at
  <1>5. \A i, j \in 1..Len(s) : i # j => s[i] # s[j]
    <2>1. \A i, j \in 1..Len(s) : i < j => s[i] < s[j]
      BY InSeq
    <2>2. \A i, j \in 1..Len(s) : i # j => i < j \/ j < i
      BY <1>1
    <2>3. QED
      BY <1>1, <2>1, <2>2
  <1>6. Ordered(r)
    <2>1. \A i, j \in 1..Len(s) : i < j => s[i] < s[j]
      BY InSeq
    <2>2. \A i, j \in 1..Len(r) : i < j => r[i] < r[j]
      BY <1>2, <1>3, <2>1
    <2>3. QED
      BY <2>2, InSeq
  <1>7. ASSUME NEW m
        PROVE  m \in ToSet(r) <=> m \in ToSet(s) /\ m # s[k]
    <2>1. ASSUME m \in ToSet(r) PROVE m \in ToSet(s) /\ m # s[k]
      <3>1. PICK i \in 1..Len(r) : r[i] = m
        BY <2>1, InSeq
      <3>2. at(i) \in 1..Len(s) /\ at(i) # k /\ m = s[at(i)]
        BY <1>2, <3>1
      <3>3. m # s[k]
        BY <1>5, <3>2
      <3>4. QED
        BY <3>2, <3>3, InSeq
    <2>2. ASSUME m \in ToSet(s), m # s[k] PROVE m \in ToSet(r)
      <3>1. PICK j \in 1..Len(s) : s[j] = m
        BY <2>2, InSeq
      <3>2. PICK i \in 1..Len(r) : at(i) = j
        BY <1>4, <2>2, <3>1
      <3>3. QED
        BY <1>2, <3>1, <3>2, InSeq
    <2>3. QED
      BY <2>1, <2>2
  <1>8. QED
    BY <1>6, <1>7

(* What is in two sequences in a row, and in what order.                   *)
LEMMA InConcat ==
  ASSUME NEW s \in Seq(Nat), NEW r \in Seq(Nat)
  PROVE  /\ s \o r \in Seq(Nat)
         /\ ToSet(s \o r) = ToSet(s) \cup ToSet(r)
         /\ Ordered(s \o r) => /\ Ordered(s)
                              /\ ToSet(s) \cap ToSet(r) = {}
  <1> DEFINE c == s \o r
  <1>1. /\ c \in Seq(Nat) /\ Len(s) \in Nat /\ Len(r) \in Nat
        /\ Len(c) = Len(s) + Len(r)
        /\ \A i \in 1..Len(s) + Len(r) :
              c[i] = IF i <= Len(s) THEN s[i] ELSE r[i - Len(s)]
    BY ConcatProperties, LenProperties
  <1> HIDE DEF c
  <1>2. \A i \in 1..Len(s) : i \in 1..Len(c) /\ c[i] = s[i]
    BY <1>1
  <1>3. ASSUME NEW i \in 1..Len(r)
        PROVE  Len(s) + i \in 1..Len(c) /\ c[Len(s) + i] = r[i]
    <2>1. /\ Len(s) + i \in 1..Len(s) + Len(r) /\ ~(Len(s) + i <= Len(s))
          /\ Len(s) + i - Len(s) = i
      BY <1>1
    <2>2. QED
      BY <1>1, <2>1
  <1>4. \A i \in 1..Len(c) : i \in 1..Len(s) \/ \E j \in 1..Len(r) : i = Len(s) + j
    <2> TAKE i \in 1..Len(c)
    <2>1. CASE i <= Len(s)
      BY <1>1, <2>1
    <2>2. CASE i > Len(s)
      <3>1. i - Len(s) \in 1..Len(r) /\ i = Len(s) + (i - Len(s))
        BY <1>1, <2>2
      <3>2. QED
        BY <3>1
    <2>3. QED
      BY <1>1, <2>1, <2>2
  <1>5. ASSUME NEW m
        PROVE  m \in ToSet(c) <=> m \in ToSet(s) \cup ToSet(r)
    <2>1. ASSUME m \in ToSet(c) PROVE m \in ToSet(s) \cup ToSet(r)
      <3>1. PICK i \in 1..Len(c) : c[i] = m
        BY <1>1, <2>1, InSeq
      <3>2. CASE i \in 1..Len(s)
        BY <1>2, <3>1, <3>2, InSeq
      <3>3. CASE \E j \in 1..Len(r) : i = Len(s) + j
        BY <1>3, <3>1, <3>3, InSeq
      <3>4. QED
        BY <1>4, <3>2, <3>3
    <2>2. ASSUME m \in ToSet(s) PROVE m \in ToSet(c)
      <3>1. PICK i \in 1..Len(s) : s[i] = m
        BY <2>2, InSeq
      <3>2. QED
        BY <1>1, <1>2, <3>1, InSeq
    <2>3. ASSUME m \in ToSet(r) PROVE m \in ToSet(c)
      <3>1. PICK i \in 1..Len(r) : r[i] = m
        BY <2>3, InSeq
      <3>2. QED
        BY <1>1, <1>3, <3>1, InSeq
    <2>4. QED
      BY <2>1, <2>2, <2>3
  <1>6. ASSUME Ordered(c)
        PROVE  Ordered(s) /\ ToSet(s) \cap ToSet(r) = {}
    <2>1. \A i, j \in 1..Len(c) : i < j => c[i] < c[j]
      BY <1>1, <1>6, InSeq
    <2>2. Ordered(s)
      <3>1. \A i, j \in 1..Len(s) : i < j => s[i] < s[j]
        BY <1>2, <2>1
      <3>2. QED
        BY <3>1, InSeq
    <2>3. \A i \in 1..Len(s), j \in 1..Len(r) : s[i] < r[j]
      <3> TAKE i \in 1..Len(s), j \in 1..Len(r)
      <3>1. i < Len(s) + j
        BY <1>1
      <3>2. QED
        BY <1>2, <1>3, <2>1, <3>1
    <2>4. \A i \in 1..Len(s), j \in 1..Len(r) : s[i] # r[j]
      <3>1. \A i \in 1..Len(s), j \in 1..Len(r) : s[i] \in Nat /\ r[j] \in Nat
        BY InSeq
      <3>2. QED
        BY <2>3, <3>1
    <2>5. QED
      BY <2>2, <2>4, InSeq
  <1>7. QED
    BY <1>1, <1>5, <1>6 DEF c

-------------------------------------------------------------------------------
(* The inductive invariant.                                                *)

Outputs == [list : [Topics -> Seq(Nat)], queue : [Topics -> Seq(Nat)],
            pushed : [Topics -> Nat], dropped : SUBSET (Topics \X Nat)]

LineOf(out, t) == delivered[t] \o out.queue[t] \o out.list[t]
Sent(out, t) == {m \in 1..out.pushed[t] : <<t, m>> \notin out.dropped}

(* The messages of out are in order behind those delivered, and what was   *)
(* dropped had been pushed.                                                *)
InOrder(out) ==
    /\ out \in Outputs
    /\ \A t \in Topics : Ordered(LineOf(out, t)) /\ ToSet(LineOf(out, t)) = Sent(out, t)
    /\ \A t \in Topics, m \in Nat : <<t, m>> \in out.dropped => m <= out.pushed[t]

OutputInv == delivered \in [Topics -> Seq(Nat)] /\ InOrder(Output)

(* The places of a line.                                                   *)
LEMMA LineTyped ==
  ASSUME OutputInv, NEW out \in Outputs, NEW t \in Topics
  PROVE  /\ delivered[t] \in Seq(Nat) /\ out.queue[t] \in Seq(Nat)
         /\ out.list[t] \in Seq(Nat) /\ out.pushed[t] \in Nat
         /\ LineOf(out, t) \in Seq(Nat)
  <1>1. /\ delivered[t] \in Seq(Nat) /\ out.queue[t] \in Seq(Nat)
        /\ out.list[t] \in Seq(Nat) /\ out.pushed[t] \in Nat
    BY DEF OutputInv, Outputs
  <1>2. QED
    BY <1>1, InConcat DEF LineOf

(* Three sequences in a row, however they are grouped.                     *)
Associates(a, b, c) == (a \o b) \o c = a \o (b \o c)

LEMMA Associate ==
  ASSUME NEW a \in Seq(Nat), NEW b \in Seq(Nat), NEW c \in Seq(Nat)
  PROVE  Associates(a, b, c)
  <1>1. QED
    BY ConcatAssociative, SMTT(60) DEF Associates

(* What is appended to the last part is appended to the whole.             *)
LEMMA ConcatAppend ==
  ASSUME NEW a \in Seq(Nat), NEW b \in Seq(Nat), NEW m \in Nat
  PROVE  a \o Append(b, m) = Append(a \o b, m)
  <1>1. <<m>> \in Seq(Nat) /\ a \o b \in Seq(Nat)
    OBVIOUS
  <1>2. Append(b, m) = b \o <<m>> /\ Append(a \o b, m) = (a \o b) \o <<m>>
    BY <1>1, AppendIsConcat
  <1>3. (a \o b) \o <<m>> = a \o (b \o <<m>>)
    <2>1. Associates(a, b, <<m>>)
      BY <1>1, Associate
    <2>2. QED
      BY <2>1 DEF Associates
  <1>4. QED
    BY <1>2, <1>3

(* What goes from one part of a line to the part before it, at its end,    *)
(* does not change the line.                                               *)
Regroup(d, q, a, b) ==
    /\ (d \o (q \o a)) \o b = (d \o q) \o (a \o b)
    /\ q \o a \in Seq(Nat)

LEMMA Regrouped ==
  ASSUME NEW d \in Seq(Nat), NEW q \in Seq(Nat), NEW a \in Seq(Nat), NEW b \in Seq(Nat)
  PROVE  Regroup(d, q, a, b)
  <1> DEFINE front == d \o q
  <1>1. front \in Seq(Nat) /\ q \o a \in Seq(Nat)
    BY InConcat
  <1>2. d \o (q \o a) = front \o a
    <2>1. Associates(d, q, a)
      BY Associate
    <2>2. QED
      BY <2>1 DEF Associates
  <1> HIDE DEF front
  <1>3. (front \o a) \o b = front \o (a \o b)
    <2>1. Associates(front, a, b)
      BY <1>1, Associate
    <2>2. QED
      BY <2>1 DEF Associates
  <1>4. QED
    BY <1>1, <1>2, <1>3 DEF front, Regroup

(* A message that is pushed goes behind all others of its topic, or is     *)
(* dropped.                                                                *)
LEMMA PushKeeps ==
  ASSUME OutputInv, NEW out, InOrder(out), NEW t \in Topics, NEW failing
  PROVE  InOrder(push_message(out, t, failing))
  <1> DEFINE message == out.pushed[t] + 1
             new == push_message(out, t, failing)
             noted == [out EXCEPT !.pushed[t] = message]
             listed == [noted EXCEPT !.list[t] = Append(@, message)]
             queued == [noted EXCEPT !.queue[t] = Append(@, message)]
             failed == [noted EXCEPT !.dropped = @ \cup {<<t, message>>}]
  <1>1. /\ out \in Outputs
        /\ \A u \in Topics : out.pushed[u] \in Nat
        /\ out.pushed \in [Topics -> Nat] /\ out.dropped \in SUBSET (Topics \X Nat)
        /\ out.list \in [Topics -> Seq(Nat)] /\ out.queue \in [Topics -> Seq(Nat)]
    BY DEF InOrder, Outputs
  <1>2. /\ delivered[t] \in Seq(Nat) /\ out.queue[t] \in Seq(Nat)
        /\ out.list[t] \in Seq(Nat) /\ out.pushed[t] \in Nat /\ message \in Nat
        /\ LineOf(out, t) \in Seq(Nat)
    BY <1>1, LineTyped
  <1>3. new \in {listed, failed} \/ (new = queued /\ out.list[t] = <<>>)
    BY DEF push_message, Produced
  <1> HIDE DEF new
  <1>4. noted = [list |-> out.list, queue |-> out.queue, dropped |-> out.dropped,
                  pushed |-> [out.pushed EXCEPT ![t] = message]]
    <2>1. PICK L, Q, P, D : out = [list |-> L, queue |-> Q, pushed |-> P, dropped |-> D]
      BY <1>1 DEF Outputs
    <2>2. noted = [list |-> L, queue |-> Q, pushed |-> [P EXCEPT ![t] = message],
                   dropped |-> D]
      BY <2>1
    <2>3. out.list = L /\ out.queue = Q /\ out.pushed = P /\ out.dropped = D
      BY <2>1
    <2>4. QED
      BY <2>2, <2>3
  <1>5. [out.pushed EXCEPT ![t] = message] \in [Topics -> Nat]
    BY <1>1, <1>2
  <1> HIDE DEF noted
  <1>6. /\ Ordered(LineOf(out, t)) /\ ToSet(LineOf(out, t)) = Sent(out, t)
        /\ ToSet(LineOf(out, t)) \subseteq 1..out.pushed[t]
    BY DEF InOrder, Sent
  <1>7. /\ Append(LineOf(out, t), message) \in Seq(Nat)
        /\ Ordered(Append(LineOf(out, t), message))
        /\ ToSet(Append(LineOf(out, t), message)) = Sent(out, t) \cup {message}
    BY <1>2, <1>6, LineGrows
  <1>8. ~ (<<t, message>> \in out.dropped)
    BY <1>2 DEF InOrder
  <1>9. 1..message = 1..out.pushed[t] \cup {message}
    BY <1>2
  <1>10. ASSUME NEW o \in Outputs, o.pushed = [out.pushed EXCEPT ![t] = message],
               o.dropped \in {out.dropped, out.dropped \cup {<<t, message>>}},
               \A u \in Topics \ {t} : o.list[u] = out.list[u] /\ o.queue[u] = out.queue[u],
               \/ o.dropped = out.dropped /\ LineOf(o, t) = Append(LineOf(out, t), message)
               \/ o.dropped # out.dropped /\ LineOf(o, t) = LineOf(out, t)
        PROVE  InOrder(o)
    <2>1. \A u \in Topics : o.pushed[u] = IF u = t THEN message ELSE out.pushed[u]
      BY <1>1, <1>10 DEF Outputs
    <2>2. ASSUME NEW u \in Topics, u # t
          PROVE  Ordered(LineOf(o, u)) /\ ToSet(LineOf(o, u)) = Sent(o, u)
      <3>1. LineOf(o, u) = LineOf(out, u)
        BY <1>10, <2>2 DEF LineOf
      <3>2. Sent(o, u) = Sent(out, u)
        BY <1>10, <2>1, <2>2 DEF Sent
      <3>3. QED
        BY <3>1, <3>2 DEF InOrder
    <2>3. CASE o.dropped = out.dropped /\ LineOf(o, t) = Append(LineOf(out, t), message)
      <3>1. Sent(o, t) = Sent(out, t) \cup {message}
        BY <1>8, <1>9, <2>1, <2>3 DEF Sent
      <3>2. Ordered(LineOf(o, t)) /\ ToSet(LineOf(o, t)) = Sent(o, t)
        BY <1>7, <2>3, <3>1
      <3>3. \A u \in Topics, m \in Nat : <<u, m>> \in o.dropped => m <= o.pushed[u]
        <4> SUFFICES ASSUME NEW u \in Topics, NEW m \in Nat, <<u, m>> \in o.dropped
                     PROVE  m <= o.pushed[u]
          OBVIOUS
        <4>1. m <= out.pushed[u]
          BY <2>3 DEF InOrder
        <4>2. o.pushed[u] = out.pushed[u] \/ o.pushed[u] = out.pushed[u] + 1
          BY <2>1
        <4>3. QED
          BY <1>1, <4>1, <4>2
      <3>4. QED
        BY <2>2, <3>2, <3>3, <1>10 DEF InOrder
    <2>4. CASE o.dropped # out.dropped /\ LineOf(o, t) = LineOf(out, t)
      <3>1. o.dropped = out.dropped \cup {<<t, message>>}
        BY <1>10, <2>4
      <3>2. Sent(o, t) = Sent(out, t)
        <4>1. \A m \in 1..out.pushed[t] : m # message
          BY <1>2
        <4>2. \A m \in 1..out.pushed[t] : <<t, m>> \in o.dropped <=> <<t, m>> \in out.dropped
          BY <3>1, <4>1
        <4>3. <<t, message>> \in o.dropped
          BY <3>1
        <4>4. QED
          BY <1>9, <2>1, <4>2, <4>3 DEF Sent
      <3>3. Ordered(LineOf(o, t)) /\ ToSet(LineOf(o, t)) = Sent(o, t)
        BY <1>6, <2>4, <3>2
      <3>4. \A u \in Topics, m \in Nat : <<u, m>> \in o.dropped => m <= o.pushed[u]
        <4> SUFFICES ASSUME NEW u \in Topics, NEW m \in Nat, <<u, m>> \in o.dropped
                     PROVE  m <= o.pushed[u]
          OBVIOUS
        <4>1. CASE <<u, m>> \in out.dropped
          <5>1. m <= out.pushed[u]
            BY <4>1 DEF InOrder
          <5>2. o.pushed[u] = out.pushed[u] \/ o.pushed[u] = out.pushed[u] + 1
            BY <2>1
          <5>3. QED
            BY <1>1, <5>1, <5>2
        <4>2. CASE u = t /\ m = message
          BY <1>2, <2>1, <4>2
        <4>3. QED
          BY <3>1, <4>1, <4>2
      <3>5. QED
        BY <2>2, <3>3, <3>4, <1>10 DEF InOrder
    <2>5. QED
      BY <1>10, <2>3, <2>4
  <1>11. InOrder(listed)
    <2>1. /\ listed.list = [out.list EXCEPT ![t] = Append(out.list[t], message)]
          /\ listed.queue = out.queue /\ listed.dropped = out.dropped
          /\ listed.pushed = [out.pushed EXCEPT ![t] = message]
          /\ listed = [list |-> listed.list, queue |-> listed.queue,
                       pushed |-> listed.pushed, dropped |-> listed.dropped]
      <3>1. listed = [list |-> [out.list EXCEPT ![t] = Append(out.list[t], message)],
                      queue |-> out.queue,
                      pushed |-> [out.pushed EXCEPT ![t] = message],
                      dropped |-> out.dropped]
        BY <1>4, SMTT(20)
      <3> HIDE DEF listed
      <3>2. QED
        BY <3>1
    <2> HIDE DEF listed
    <2>2. Append(out.list[t], message) \in Seq(Nat)
      BY <1>2
    <2>3. listed \in Outputs
      <3>1. listed.list \in [Topics -> Seq(Nat)]
        BY <1>1, <2>1, <2>2
      <3>2. QED
        BY <1>1, <1>5, <2>1, <3>1 DEF Outputs
    <2>4. listed.list[t] = Append(out.list[t], message)
      BY <1>1, <2>1 DEF Outputs
    <2>5. LineOf(listed, t) = Append(LineOf(out, t), message)
      <3>1. delivered[t] \o out.queue[t] \in Seq(Nat)
        BY <1>2, InConcat
      <3>2. (delivered[t] \o out.queue[t]) \o Append(out.list[t], message)
               = Append((delivered[t] \o out.queue[t]) \o out.list[t], message)
        BY <1>2, <3>1, ConcatAppend
      <3>3. QED
        BY <2>1, <2>4, <3>2 DEF LineOf
    <2>6. \A u \in Topics \ {t} : listed.list[u] = out.list[u] /\ listed.queue[u] = out.queue[u]
      BY <1>1, <2>1 DEF Outputs
    <2>7. QED
      BY <1>10, <2>1, <2>3, <2>5, <2>6
  <1>12. ASSUME out.list[t] = <<>>
         PROVE  InOrder(queued)
    <2>1. /\ queued.queue = [out.queue EXCEPT ![t] = Append(out.queue[t], message)]
          /\ queued.list = out.list /\ queued.dropped = out.dropped
          /\ queued.pushed = [out.pushed EXCEPT ![t] = message]
          /\ queued = [list |-> queued.list, queue |-> queued.queue,
                       pushed |-> queued.pushed, dropped |-> queued.dropped]
      <3>1. queued = [list |-> out.list,
                      queue |-> [out.queue EXCEPT ![t] = Append(out.queue[t], message)],
                      pushed |-> [out.pushed EXCEPT ![t] = message],
                      dropped |-> out.dropped]
        BY <1>4, SMTT(20)
      <3> HIDE DEF queued
      <3>2. QED
        BY <3>1
    <2> HIDE DEF queued
    <2>2. Append(out.queue[t], message) \in Seq(Nat)
      BY <1>2
    <2>3. queued \in Outputs
      <3>1. queued.queue \in [Topics -> Seq(Nat)]
        BY <1>1, <2>1, <2>2
      <3>2. QED
        BY <1>1, <1>5, <2>1, <3>1 DEF Outputs
    <2>4. queued.queue[t] = Append(out.queue[t], message) /\ queued.list[t] = <<>>
      BY <1>1, <1>12, <2>1 DEF Outputs
    <2>5. LineOf(queued, t) = Append(LineOf(out, t), message)
      <3>1. delivered[t] \o out.queue[t] \in Seq(Nat)
        BY <1>2, InConcat
      <3>2. delivered[t] \o Append(out.queue[t], message)
               = Append(delivered[t] \o out.queue[t], message)
        BY <1>2, ConcatAppend
      <3>3. Append(delivered[t] \o out.queue[t], message) \in Seq(Nat)
        BY <1>2, <3>1
      <3>4. QED
        BY <1>12, <2>4, <3>1, <3>2, <3>3, ConcatEmptySeq DEF LineOf
    <2>6. \A u \in Topics \ {t} : queued.list[u] = out.list[u] /\ queued.queue[u] = out.queue[u]
      BY <1>1, <2>1 DEF Outputs
    <2>7. QED
      BY <1>10, <2>1, <2>3, <2>5, <2>6
  <1>13. InOrder(failed)
    <2>1. /\ failed.list = out.list /\ failed.queue = out.queue
          /\ failed.dropped = out.dropped \cup {<<t, message>>}
          /\ failed.pushed = [out.pushed EXCEPT ![t] = message]
          /\ failed = [list |-> failed.list, queue |-> failed.queue,
                       pushed |-> failed.pushed, dropped |-> failed.dropped]
      <3>1. failed = [list |-> out.list,
                      queue |-> out.queue,
                      pushed |-> [out.pushed EXCEPT ![t] = message],
                      dropped |-> out.dropped \cup {<<t, message>>}]
        BY <1>4
      <3> HIDE DEF failed
      <3>2. QED
        BY <3>1
    <2> HIDE DEF failed
    <2>2. failed \in Outputs
      <3>1. failed.dropped \in SUBSET (Topics \X Nat)
        BY <1>1, <1>2, <2>1
      <3>2. QED
        BY <1>1, <1>5, <2>1, <3>1 DEF Outputs
    <2>3. LineOf(failed, t) = LineOf(out, t)
      BY <2>1 DEF LineOf
    <2>4. failed.dropped # out.dropped
      BY <1>8, <2>1
    <2>5. \A u \in Topics \ {t} : failed.list[u] = out.list[u] /\ failed.queue[u] = out.queue[u]
      BY <2>1
    <2>6. QED
      BY <1>10, <2>1, <2>2, <2>3, <2>4, <2>5
  <1>14. InOrder(new)
    BY <1>3, <1>11, <1>12, <1>13
  <1>15. QED
    BY <1>14 DEF new

(* A command's messages, up to three.                                      *)
LEMMA CommandKeeps ==
  ASSUME OutputInv, NEW topics, \A i \in DOMAIN topics : topics[i] \in Topics,
         Push(topics), delivered' = delivered
  PROVE  OutputInv'
  <1>1. PICK failing : Becomes(Pushed(topics, failing))
    BY DEF Push
  <1> DEFINE push(out, i) ==
               IF i \in DOMAIN topics THEN push_message(out, topics[i], failing) ELSE out
  <1>2. ASSUME NEW out, InOrder(out), NEW i
        PROVE  InOrder(push(out, i))
    BY <1>2, PushKeeps
  <1> DEFINE last == push(push(push(Output, 1), 2), 3)
  <1>3. InOrder(last)
    <2> HIDE DEF push
    <2>1. InOrder(push(Output, 1))
      BY <1>2 DEF OutputInv
    <2>2. InOrder(push(push(Output, 1), 2))
      BY <1>2, <2>1
    <2>3. QED
      BY <1>2, <2>2
  <1>4. Becomes(last)
    BY <1>1 DEF Pushed
  <1> HIDE DEF last, push
  <1>5. Output' = last
    <2>1. last = [list |-> last.list, queue |-> last.queue,
                  pushed |-> last.pushed, dropped |-> last.dropped]
      BY <1>3 DEF InOrder, Outputs
    <2>2. QED
      BY <1>4, <2>1 DEF Becomes, Output
  <1>6. InOrder(Output)'
    BY <1>3, <1>5 DEF InOrder, LineOf, Sent
  <1>7. QED
    BY <1>6 DEF OutputInv

(* Lines that stay, with what was pushed and dropped, stay in order.       *)
LEMMA LinesStand ==
  ASSUME OutputInv, Output' \in Outputs, delivered' \in [Topics -> Seq(Nat)],
         UNCHANGED <<pushed, dropped>>,
         \A t \in Topics : LineOf(Output, t)' = LineOf(Output, t)
  PROVE  OutputInv'
  <1>1. \A t \in Topics : Sent(Output, t)' = Sent(Output, t)
    BY DEF Sent, Output
  <1>2. \A t \in Topics, m \in Nat :
           <<t, m>> \in Output'.dropped => m <= Output'.pushed[t]
    BY DEF OutputInv, InOrder, Output
  <1>3. \A t \in Topics : /\ Ordered(LineOf(Output, t)')
                          /\ ToSet(LineOf(Output, t)') = Sent(Output, t)'
    BY <1>1 DEF OutputInv, InOrder
  <1>4. QED
    BY <1>2, <1>3 DEF OutputInv, InOrder

(* What the lists and the queue are, when they have a type.                *)
LEMMA Typed ==
  ASSUME OutputInv
  PROVE  /\ list \in [Topics -> Seq(Nat)] /\ queue \in [Topics -> Seq(Nat)]
         /\ pushed \in [Topics -> Nat] /\ dropped \in SUBSET (Topics \X Nat)
         /\ delivered \in [Topics -> Seq(Nat)]
         /\ \A t \in Topics : /\ list[t] \in Seq(Nat) /\ queue[t] \in Seq(Nat)
                              /\ delivered[t] \in Seq(Nat) /\ pushed[t] \in Nat
  <1>1. Output \in Outputs /\ delivered \in [Topics -> Seq(Nat)]
    BY DEF OutputInv, InOrder
  <1>2. /\ list \in [Topics -> Seq(Nat)] /\ queue \in [Topics -> Seq(Nat)]
        /\ pushed \in [Topics -> Nat] /\ dropped \in SUBSET (Topics \X Nat)
    BY <1>1 DEF Outputs, Output
  <1>3. QED
    BY <1>1, <1>2

(* No more is taken from a list than it has.                               *)
LEMMA ProducedOf ==
  ASSUME OutputInv, NEW t \in Topics
  PROVE  produce_list(t) \in 0..Len(list[t])
  <1>1. \A u \in Topics : Len(list[u]) \in Nat /\ Len(queue[u]) \in Nat
    BY Typed, LenProperties
  <1>2. Room(Output) \in Int
    <2>1. {"balances", "orders", "deals"} \subseteq Topics
      BY DEF Topics
    <2>2. QED
      BY <1>1, <2>1, OutputAssumption DEF Room, Output
  <1>3. Before(t) \in Int
    <2>1. "balances" \in Topics /\ "orders" \in Topics
      BY DEF Topics
    <2>2. t \in {"balances", "orders", "deals"}
      BY DEF Topics
    <2>3. QED
      BY <1>1, <2>1, <2>2 DEF Before
  <1> DEFINE L == Len(list[t])
             R == Room(Output) - Before(t)
  <1>4. L \in Nat /\ R \in Int
    BY <1>1, <1>2, <1>3
  <1>5. produce_list(t) = Max({0, Min({L, R})})
    BY DEF produce_list
  <1> HIDE DEF L, R
  <1>6. Min({L, R}) \in {L, R} /\ Min({L, R}) <= L
    <2>1. \E x \in {L, R} : \A y \in {L, R} : x <= y
      BY <1>4
    <2>2. QED
      BY <2>1 DEF Min
  <1> DEFINE M == Min({L, R})
  <1>7. M \in Int /\ M <= L
    BY <1>4, <1>6
  <1> HIDE DEF M
  <1>8. Max({0, M}) \in {0, M} /\ Max({0, M}) >= 0
    <2>1. \E x \in {0, M} : \A y \in {0, M} : x >= y
      BY <1>7
    <2>2. QED
      BY <2>1 DEF Max
  <1>9. Max({0, M}) \in 0..L
    BY <1>4, <1>7, <1>8
  <1>10. QED
    BY <1>5, <1>9 DEF M, L

(* The front of a list goes to the end of the queue.                       *)
LEMMA ProducingKeeps ==
  ASSUME OutputInv, ListsProduced, delivered' = delivered
  PROVE  OutputInv'
  <1> DEFINE front(t) == SubSeq(list[t], 1, produce_list(t))
             rest(t) == SubSeq(list[t], produce_list(t) + 1, Len(list[t]))
  <1>1. \A t \in Topics : queue'[t] = queue[t] \o front(t) /\ list'[t] = rest(t)
    BY DEF ListsProduced
  <1>2. ASSUME NEW t \in Topics
        PROVE  /\ front(t) \in Seq(Nat) /\ rest(t) \in Seq(Nat)
               /\ front(t) \o rest(t) = list[t]
    <2> DEFINE l == list[t]
               n == produce_list(t)
    <2>1. l \in Seq(Nat) /\ Len(l) \in Nat /\ n \in 0..Len(l)
      BY Typed, ProducedOf, LenProperties
    <2> HIDE DEF l, n
    <2>2. SubSeq(l, 1, n) \in Seq(Nat) /\ SubSeq(l, n + 1, Len(l)) \in Seq(Nat)
      <3>1. /\ \A i \in 1..n : l[i] \in Nat
            /\ \A i \in n + 1..Len(l) : l[i] \in Nat
        BY <2>1
      <3>2. QED
        BY <2>1, <3>1, SubSeqProperties
    <2>3. SubSeq(l, 1, n) \o SubSeq(l, n + 1, Len(l)) = SubSeq(l, 1, Len(l))
      <3>1. 1 \in 1..Len(l) + 1 /\ n \in 1 - 1..Len(l) /\ Len(l) \in n..Len(l)
        BY <2>1
      <3>2. QED
        BY <2>1, <3>1, ConcatAdjacentSubSeq
    <2>4. SubSeq(l, 1, Len(l)) = l
      BY <2>1, SubSeqFull
    <2>5. QED
      BY <2>2, <2>3, <2>4 DEF l, n
  <1> HIDE DEF front, rest
  <1>3. ASSUME NEW t \in Topics
        PROVE  /\ queue[t] \o front(t) \in Seq(Nat)
               /\ LineOf(Output, t)' = LineOf(Output, t)
    <2> DEFINE d == delivered[t]
               q == queue[t]
               a == front(t)
               b == rest(t)
    <2>1. /\ d \in Seq(Nat) /\ q \in Seq(Nat) /\ a \in Seq(Nat) /\ b \in Seq(Nat)
          /\ a \o b = list[t]
      BY <1>2, Typed
    <2>2. LineOf(Output, t)' = (d \o (q \o a)) \o b
      BY <1>1 DEF LineOf, Output
    <2>3. LineOf(Output, t) = (d \o q) \o (a \o b)
      BY <2>1 DEF LineOf, Output
    <2> HIDE DEF d, q, a, b
    <2>4. (d \o (q \o a)) \o b = (d \o q) \o (a \o b) /\ q \o a \in Seq(Nat)
      <3>1. d \in Seq(Nat) /\ q \in Seq(Nat) /\ a \in Seq(Nat) /\ b \in Seq(Nat)
        BY <2>1
      <3>2. Regroup(d, q, a, b)
        BY <3>1, Regrouped
      <3>3. QED
        BY <3>2 DEF Regroup
    <2>5. QED
      BY <2>2, <2>3, <2>4 DEF q, a
  <1>4. list' \in [Topics -> Seq(Nat)] /\ queue' \in [Topics -> Seq(Nat)]
    <2>1. list' = [t \in Topics |-> rest(t)] /\ queue' = [t \in Topics |-> queue[t] \o front(t)]
      BY DEF ListsProduced, rest, front
    <2>2. QED
      BY <1>2, <1>3, <2>1
  <1>5. UNCHANGED <<pushed, dropped>>
    BY DEF ListsProduced
  <1>6. Output' \in Outputs
    BY <1>4, <1>5, Typed DEF Output, Outputs
  <1>7. QED
    BY <1>3, <1>5, <1>6, Typed, LinesStand

(* The first message of the queue goes to the end of those delivered.      *)
LEMMA HeadMoves ==
  ASSUME NEW d \in Seq(Nat), NEW q \in Seq(Nat), q # <<>>
  PROVE  /\ Append(d, Head(q)) \o Tail(q) = d \o q
         /\ Append(d, Head(q)) \in Seq(Nat) /\ Tail(q) \in Seq(Nat) /\ Head(q) \in Nat
  <1> DEFINE m == Head(q)
             r == Tail(q)
  <1>1. m \in Nat /\ r \in Seq(Nat) /\ q = <<m>> \o r
    <2>1. m \in Nat /\ r \in Seq(Nat)
      BY HeadTailProperties
    <2>2. q = <<m>> \o r
      OBVIOUS
    <2>3. QED
      BY <2>1, <2>2
  <1> HIDE DEF m, r
  <1>2. <<m>> \in Seq(Nat)
    BY <1>1
  <1>3. Append(d, m) = d \o <<m>> /\ Append(d, m) \in Seq(Nat)
    BY <1>1, AppendIsConcat, AppendProperties
  <1> DEFINE one == <<m>>
  <1> HIDE DEF one
  <1>4. (d \o one) \o r = d \o (one \o r)
    <2>1. one \in Seq(Nat)
      BY <1>2 DEF one
    <2>2. Associates(d, one, r)
      BY <1>1, <2>1, Associate
    <2>3. QED
      BY <2>2 DEF Associates
  <1>5. QED
    BY <1>1, <1>3, <1>4 DEF m, r, one

(* The places of two sequences in a row.                                   *)
LEMMA InParts ==
  ASSUME NEW s \in Seq(Nat), NEW r \in Seq(Nat), NEW c, c = s \o r
  PROVE  /\ c \in Seq(Nat) /\ Len(c) = Len(s) + Len(r)
         /\ \A i \in 1..Len(s) + Len(r) : c[i] = IF i <= Len(s) THEN s[i] ELSE r[i - Len(s)]
  <1>1. QED
    BY ConcatProperties

(* The first message of the queue is left out of the line.                 *)
LEMMA HeadLeaves ==
  ASSUME NEW d \in Seq(Nat), NEW q \in Seq(Nat), NEW l \in Seq(Nat), q # <<>>,
         Ordered(d \o q \o l)
  PROVE  /\ Ordered(d \o Tail(q) \o l)
         /\ ToSet(d \o Tail(q) \o l) = ToSet(d \o q \o l) \ {Head(q)}
         /\ Head(q) \in ToSet(d \o q \o l)
  <1> DEFINE s == d \o q \o l
             r == d \o Tail(q) \o l
             k == Len(d) + 1
  <1>1. Len(d) \in Nat /\ Len(q) \in Nat \ {0} /\ Len(l) \in Nat
    BY LenProperties, EmptySeq
  <1>2. /\ Tail(q) \in Seq(Nat) /\ Len(Tail(q)) = Len(q) - 1
        /\ \A i \in 1..Len(q) - 1 : Tail(q)[i] = q[i + 1]
        /\ Head(q) = q[1]
    BY HeadTailProperties
  <1>3. /\ d \o q \in Seq(Nat) /\ Len(d \o q) = Len(d) + Len(q)
        /\ \A i \in 1..Len(d) + Len(q) : (d \o q)[i] = IF i <= Len(d) THEN d[i] ELSE q[i - Len(d)]
    BY ConcatProperties
  <1>4. /\ d \o Tail(q) \in Seq(Nat) /\ Len(d \o Tail(q)) = Len(d) + Len(q) - 1
        /\ \A i \in 1..Len(d) + Len(q) - 1 :
              (d \o Tail(q))[i] = IF i <= Len(d) THEN d[i] ELSE Tail(q)[i - Len(d)]
    <2>1. Len(d) + Len(Tail(q)) = Len(d) + Len(q) - 1
      BY <1>1, <1>2
    <2>2. QED
      BY <1>1, <1>2, <2>1, ConcatProperties
  <1>5. /\ s \in Seq(Nat) /\ Len(s) = Len(d) + Len(q) + Len(l)
        /\ \A i \in 1..Len(d) + Len(q) + Len(l) :
              s[i] = IF i <= Len(d) + Len(q) THEN (d \o q)[i] ELSE l[i - (Len(d) + Len(q))]
    <2> DEFINE h == d \o q
    <2> HIDE DEF h
    <2>1. h \in Seq(Nat) /\ Len(h) = Len(d) + Len(q)
      BY <1>3 DEF h
    <2>2. QED
      BY <2>1, InParts DEF h
  <1>6. /\ r \in Seq(Nat) /\ Len(r) = Len(d) + Len(q) - 1 + Len(l)
        /\ \A i \in 1..Len(d) + Len(q) - 1 + Len(l) :
              r[i] = IF i <= Len(d) + Len(q) - 1 THEN (d \o Tail(q))[i]
                     ELSE l[i - (Len(d) + Len(q) - 1)]
    <2> DEFINE h == d \o Tail(q)
    <2> HIDE DEF h
    <2>1. h \in Seq(Nat) /\ Len(h) = Len(d) + Len(q) - 1
      BY <1>4 DEF h
    <2>2. QED
      BY <2>1, InParts DEF h
  <1>7. Ordered(s)
    OBVIOUS
  <1> HIDE DEF s, r
  <1>8. k \in 1..Len(s) /\ s[k] = Head(q)
    <2>1. /\ k \in 1..Len(d) + Len(q) /\ k \in 1..Len(d) + Len(q) + Len(l)
          /\ k <= Len(d) + Len(q) /\ ~(k <= Len(d)) /\ k - Len(d) = 1
      BY <1>1, <1>2
    <2>2. QED
      BY <1>1, <1>2, <1>3, <1>5, <2>1
  <1>9. ASSUME NEW i \in 1..Len(r)
        PROVE  r[i] = IF i < k THEN s[i] ELSE s[i + 1]
    <2>1. i \in 1..Len(d) + Len(q) - 1 + Len(l)
      BY <1>6
    <2>2. CASE i <= Len(d)
      <3>1. /\ i < k /\ i <= Len(d) + Len(q) - 1 /\ i <= Len(d) + Len(q)
            /\ i \in 1..Len(d) + Len(q) - 1 /\ i \in 1..Len(d) + Len(q)
            /\ i \in 1..Len(d) + Len(q) - 1 + Len(l) /\ i \in 1..Len(d) + Len(q) + Len(l)
        BY <1>1, <2>1, <2>2
      <3>2. r[i] = d[i] /\ s[i] = d[i]
        BY <1>3, <1>4, <1>5, <1>6, <2>2, <3>1
      <3>3. QED
        BY <3>1, <3>2
    <2>3. CASE ~(i <= Len(d)) /\ i <= Len(d) + Len(q) - 1
      <3>1. /\ ~(i < k) /\ i + 1 <= Len(d) + Len(q) /\ ~(i + 1 <= Len(d))
            /\ i \in 1..Len(d) + Len(q) - 1 /\ i + 1 \in 1..Len(d) + Len(q)
            /\ i \in 1..Len(d) + Len(q) - 1 + Len(l) /\ i + 1 \in 1..Len(d) + Len(q) + Len(l)
            /\ i - Len(d) \in 1..Len(q) - 1 /\ (i - Len(d)) + 1 = (i + 1) - Len(d)
        BY <1>1, <2>1, <2>3
      <3>2. r[i] = Tail(q)[i - Len(d)] /\ s[i + 1] = q[(i + 1) - Len(d)]
        BY <1>3, <1>4, <1>5, <1>6, <2>3, <3>1
      <3>3. Tail(q)[i - Len(d)] = q[(i + 1) - Len(d)]
        BY <1>1, <1>2, <3>1
      <3>4. QED
        BY <3>1, <3>2, <3>3
    <2>4. CASE ~(i <= Len(d) + Len(q) - 1)
      <3>1. /\ ~(i < k) /\ ~(i + 1 <= Len(d) + Len(q))
            /\ i \in 1..Len(d) + Len(q) - 1 + Len(l) /\ i + 1 \in 1..Len(d) + Len(q) + Len(l)
            /\ (i + 1) - (Len(d) + Len(q)) = i - (Len(d) + Len(q) - 1)
        BY <1>1, <2>1, <2>4
      <3>2. QED
        BY <1>5, <1>6, <2>4, <3>1
    <2>5. QED
      BY <1>1, <2>1, <2>2, <2>3, <2>4
  <1>10. Len(r) = Len(s) - 1
    BY <1>1, <1>2, <1>5, <1>6
  <1>11. Ordered(r) /\ ToSet(r) = ToSet(s) \ {s[k]}
    <2>1. s \in Seq(Nat) /\ r \in Seq(Nat) /\ k \in 1..Len(s)
      BY <1>5, <1>6, <1>8
    <2> HIDE DEF k
    <2>2. \A i \in 1..Len(r) : r[i] = IF i < k THEN s[i] ELSE s[i + 1]
      BY <1>9
    <2>3. Ordered(s) /\ Len(r) = Len(s) - 1
      BY <1>7, <1>10
    <2>4. Ordered(r)
      BY <2>1, <2>2, <2>3, LineShrinks
    <2>5. \A m : m \in ToSet(r) <=> m \in ToSet(s) /\ m # s[k]
      BY <2>1, <2>2, <2>3, LineShrinks
    <2>6. QED
      BY <2>4, <2>5
  <1>12. s[k] \in ToSet(s)
    BY <1>5, <1>8, InSeq
  <1>13. QED
    BY <1>8, <1>11, <1>12 DEF s, r

(* Lines that only lose what is dropped stay in order.                     *)
LEMMA LinesDrop ==
  ASSUME OutputInv, Output' \in Outputs, delivered' \in [Topics -> Seq(Nat)],
         UNCHANGED pushed, NEW new, dropped' = dropped \cup new,
         \A t \in Topics, m \in Nat : <<t, m>> \in new => m \in ToSet(LineOf(Output, t)),
         \A t \in Topics : Ordered(LineOf(Output, t)'),
         \A t \in Topics : \A m :
            m \in ToSet(LineOf(Output, t)') <=> m \in ToSet(LineOf(Output, t)) /\ <<t, m>> \notin new
  PROVE  OutputInv'
  <1>1. \A t \in Topics : ToSet(LineOf(Output, t)) = Sent(Output, t)
    BY DEF OutputInv, InOrder
  <1>2. Output.pushed = pushed /\ Output.dropped = dropped
        /\ Output'.pushed = pushed /\ Output'.dropped = dropped \cup new
    BY DEF Output
  <1>3. ASSUME NEW t \in Topics
        PROVE  ToSet(LineOf(Output, t)') = Sent(Output, t)'
    <2>1. \A m : m \in Sent(Output, t) <=> m \in 1..pushed[t] /\ <<t, m>> \notin dropped
      BY <1>2 DEF Sent
    <2>2. \A m : m \in Sent(Output, t)' <=> m \in 1..pushed[t] /\ <<t, m>> \notin dropped \cup new
      BY <1>2 DEF Sent
    <2>3. \A m : m \in ToSet(LineOf(Output, t)') <=> m \in Sent(Output, t) /\ <<t, m>> \notin new
      BY <1>1
    <2>4. \A m : m \in ToSet(LineOf(Output, t)') <=> m \in Sent(Output, t)'
      BY <2>1, <2>2, <2>3
    <2>5. QED
      BY <2>4
  <1>4. ASSUME NEW t \in Topics, NEW m \in Nat, <<t, m>> \in dropped \cup new
        PROVE  m <= pushed[t]
    <2>1. pushed[t] \in Nat
      BY Typed
    <2>2. CASE <<t, m>> \in dropped
      BY <1>2, <2>2 DEF OutputInv, InOrder
    <2>3. CASE <<t, m>> \in new
      <3>1. m \in Sent(Output, t)
        BY <1>1, <2>3
      <3>2. m \in 1..pushed[t]
        BY <1>2, <3>1 DEF Sent
      <3>3. QED
        BY <2>1, <3>2
    <2>4. QED
      BY <1>4, <2>2, <2>3
  <1>5. \A t \in Topics, m \in Nat : <<t, m>> \in Output'.dropped => m <= Output'.pushed[t]
    BY <1>2, <1>4
  <1>6. InOrder(Output)'
    BY <1>3, <1>5 DEF InOrder
  <1>7. QED
    BY <1>6 DEF OutputInv

(* The first message of a queue is delivered, or fails.                    *)
LEMMA DeliveryKeeps ==
  ASSUME OutputInv, NEW t \in Topics, on_delivery(t)
  PROVE  OutputInv'
  <1> DEFINE d == delivered[t]
             q == queue[t]
             l == list[t]
  <1>1. d \in Seq(Nat) /\ q \in Seq(Nat) /\ l \in Seq(Nat) /\ q # <<>>
    BY Typed DEF on_delivery
  <1>2. LineOf(Output, t) = d \o q \o l
    BY DEF LineOf, Output
  <1>3. Ordered(d \o q \o l)
    BY <1>2 DEF OutputInv, InOrder
  <1>4. queue' = [queue EXCEPT ![t] = Tail(q)] /\ list' = list /\ pushed' = pushed
    BY DEF on_delivery
  <1> HIDE DEF d, q, l
  <1>5. /\ Append(d, Head(q)) \o Tail(q) = d \o q
        /\ Append(d, Head(q)) \in Seq(Nat) /\ Tail(q) \in Seq(Nat) /\ Head(q) \in Nat
    BY <1>1, HeadMoves
  <1>6. queue' \in [Topics -> Seq(Nat)] /\ queue'[t] = Tail(q)
        /\ \A u \in Topics : u # t => queue'[u] = queue[u]
    BY <1>4, <1>5, Typed
  <1>7. CASE delivered' = [delivered EXCEPT ![t] = Append(d, Head(q))] /\ UNCHANGED dropped
    <2>1. delivered' \in [Topics -> Seq(Nat)] /\ delivered'[t] = Append(d, Head(q))
          /\ \A u \in Topics : u # t => delivered'[u] = delivered[u]
      BY <1>5, <1>7, Typed
    <2>2. Output' \in Outputs
      BY <1>4, <1>6, <1>7, Typed DEF Output, Outputs
    <2>3. LineOf(Output, t)' = LineOf(Output, t)
      <3>1. LineOf(Output, t)' = Append(d, Head(q)) \o Tail(q) \o l
        BY <1>4, <1>6, <2>1 DEF LineOf, Output, l
      <3>2. QED
        BY <1>2, <1>5, <3>1
    <2>4. \A u \in Topics : u # t => LineOf(Output, u)' = LineOf(Output, u)
      BY <1>4, <1>6, <2>1 DEF LineOf, Output
    <2>5. QED
      BY <1>4, <1>7, <2>1, <2>2, <2>3, <2>4, LinesStand
  <1>8. CASE dropped' = dropped \cup {<<t, Head(q)>>} /\ UNCHANGED delivered
    <2> DEFINE new == {<<t, Head(q)>>}
    <2>1. Output' \in Outputs
      <3>1. dropped' \in SUBSET (Topics \X Nat)
        BY <1>5, <1>8, Typed
      <3>2. QED
        BY <1>4, <1>6, <3>1, Typed DEF Output, Outputs
    <2>2. LineOf(Output, t)' = d \o Tail(q) \o l
      BY <1>4, <1>6, <1>8 DEF LineOf, Output, d, l
    <2>3. \A u \in Topics : u # t => LineOf(Output, u)' = LineOf(Output, u)
      BY <1>4, <1>6, <1>8 DEF LineOf, Output
    <2>4. /\ Ordered(LineOf(Output, t)')
          /\ ToSet(LineOf(Output, t)') = ToSet(LineOf(Output, t)) \ {Head(q)}
          /\ Head(q) \in ToSet(LineOf(Output, t))
      BY <1>1, <1>2, <1>3, <2>2, HeadLeaves
    <2>5. \A u \in Topics, m \in Nat : <<u, m>> \in new => m \in ToSet(LineOf(Output, u))
      BY <2>4
    <2>6. \A u \in Topics : Ordered(LineOf(Output, u)')
      BY <2>3, <2>4 DEF OutputInv, InOrder
    <2>7. ASSUME NEW u \in Topics, NEW m
          PROVE  m \in ToSet(LineOf(Output, u)')
                    <=> m \in ToSet(LineOf(Output, u)) /\ <<u, m>> \notin new
      <3>1. CASE u = t
        BY <2>4, <3>1
      <3>2. CASE u # t
        BY <2>3, <3>2
      <3>3. QED
        BY <3>1, <3>2
    <2> HIDE DEF new
    <2>8. dropped' = dropped \cup new /\ delivered' \in [Topics -> Seq(Nat)]
      BY <1>8, Typed DEF new
    <2>9. QED
      BY <1>4, <2>1, <2>5, <2>6, <2>7, <2>8, LinesDrop
  <1>9. QED
    BY <1>7, <1>8 DEF on_delivery, d, q

(* A restart, or the end of rd_kafka, takes what waits; Kafka keeps what   *)
(* it has.                                                                 *)
LEMMA EndKeeps ==
  ASSUME OutputInv, UNCHANGED <<pushed, delivered>>,
         list' = [t \in Topics |-> <<>>], queue' = [t \in Topics |-> <<>>],
         dropped' = dropped \cup WaitingMessages(list) \cup WaitingMessages(queue)
  PROVE  OutputInv'
  <1> DEFINE new == WaitingMessages(list) \cup WaitingMessages(queue)
  <1>1. \A t \in Topics : \A m :
           <<t, m>> \in new <=> m \in ToSet(queue[t]) \/ m \in ToSet(list[t])
    BY DEF WaitingMessages
  <1>2. new \subseteq Topics \X Nat
    <2>1. \A t \in Topics : ToSet(queue[t]) \subseteq Nat /\ ToSet(list[t]) \subseteq Nat
      BY Typed, InSeq
    <2>2. QED
      BY <2>1 DEF WaitingMessages
  <1>3. dropped' = dropped \cup new
    OBVIOUS
  <1> HIDE DEF new
  <1>4. Output' \in Outputs
    <2>1. [t \in Topics |-> <<>>] \in [Topics -> Seq(Nat)]
      OBVIOUS
    <2>2. dropped' \in SUBSET (Topics \X Nat)
      BY <1>2, <1>3, Typed
    <2>3. QED
      BY <2>1, <2>2, Typed DEF Output, Outputs
  <1>5. ASSUME NEW t \in Topics
        PROVE  /\ LineOf(Output, t)' = delivered[t]
               /\ Ordered(delivered[t])
               /\ \A m : m \in ToSet(LineOf(Output, t))
                            <=> m \in ToSet(delivered[t]) \/ <<t, m>> \in new
               /\ \A m : m \in ToSet(delivered[t]) => <<t, m>> \notin new
    <2> DEFINE d == delivered[t]
               q == queue[t]
               l == list[t]
               h == d \o q
    <2>1. d \in Seq(Nat) /\ q \in Seq(Nat) /\ l \in Seq(Nat)
      BY Typed
    <2>2. LineOf(Output, t) = h \o l
      BY DEF LineOf, Output
    <2>3. LineOf(Output, t)' = d \o <<>> \o <<>>
      BY DEF LineOf, Output
    <2>4. Ordered(h \o l)
      BY <2>2 DEF OutputInv, InOrder
    <2>5. \A m : <<t, m>> \in new <=> m \in ToSet(q) \/ m \in ToSet(l)
      BY <1>1
    <2> HIDE DEF d, q, l
    <2>6. h \in Seq(Nat) /\ ToSet(h) = ToSet(d) \cup ToSet(q)
          /\ (Ordered(h) => Ordered(d) /\ ToSet(d) \cap ToSet(q) = {})
      BY <2>1, InConcat
    <2>7. d \o <<>> \o <<>> = d
      BY <2>1, ConcatEmptySeq
    <2> HIDE DEF h
    <2>8. ToSet(h \o l) = ToSet(h) \cup ToSet(l) /\ Ordered(h) /\ ToSet(h) \cap ToSet(l) = {}
      BY <2>1, <2>4, <2>6, InConcat
    <2>9. QED
      BY <2>2, <2>3, <2>5, <2>6, <2>7, <2>8 DEF d
  <1>6. \A t \in Topics, m \in Nat : <<t, m>> \in new => m \in ToSet(LineOf(Output, t))
    BY <1>5
  <1>7. \A t \in Topics : Ordered(LineOf(Output, t)')
    BY <1>5
  <1>8. \A t \in Topics : \A m :
           m \in ToSet(LineOf(Output, t)') <=> m \in ToSet(LineOf(Output, t)) /\ <<t, m>> \notin new
    BY <1>5
  <1>9. delivered' \in [Topics -> Seq(Nat)] /\ UNCHANGED pushed
    BY Typed
  <1>10. QED
    BY <1>3, <1>4, <1>6, <1>7, <1>8, <1>9, LinesDrop

-------------------------------------------------------------------------------
(* The commands of a step push messages of these topics.                   *)
LEMMA CommandsPush ==
  ASSUME NEW new, NEW topics, Command(new, topics),
         topics \in {<<"balances">>, <<"orders">>, <<"deals", "orders", "orders">>},
         OutputInv
  PROVE  OutputInv'
  <1>1. \A i \in DOMAIN topics : topics[i] \in Topics
    BY DEF Topics
  <1>2. Push(topics) /\ delivered' = delivered
    BY DEF Command
  <1>3. QED
    BY <1>1, <1>2, CommandKeeps

(* Nothing has been pushed when the engine first starts.                   *)
LEMMA OutputInit ==
  ASSUME init_output
  PROVE  OutputInv
  <1>1. [t \in Topics |-> <<>>] \in [Topics -> Seq(Nat)] /\ [t \in Topics |-> 0] \in [Topics -> Nat]
    OBVIOUS
  <1>2. /\ list = [t \in Topics |-> <<>>] /\ queue = [t \in Topics |-> <<>>]
        /\ delivered = [t \in Topics |-> <<>>] /\ pushed = [t \in Topics |-> 0] /\ dropped = {}
    BY DEF init_output
  <1>3. Output \in Outputs
    BY <1>1, <1>2 DEF Output, Outputs
  <1>4. ASSUME NEW t \in Topics
        PROVE  Ordered(LineOf(Output, t)) /\ ToSet(LineOf(Output, t)) = Sent(Output, t)
    <2>1. LineOf(Output, t) = <<>>
      BY <1>2 DEF LineOf, Output
    <2>2. Sent(Output, t) = {}
      <3>1. Output.pushed[t] = 0 /\ 1..0 = {}
        BY <1>2 DEF Output
      <3>2. QED
        BY <3>1 DEF Sent
    <2>3. DOMAIN LineOf(Output, t) = {}
      BY <2>1
    <2>4. QED
      BY <2>2, <2>3 DEF Ordered, ToSet
  <1>5. QED
    BY <1>1, <1>2, <1>3, <1>4 DEF OutputInv, InOrder, Output

(* A step that leaves the messages alone keeps the invariant.              *)
LEMMA MessagesStand ==
  ASSUME OutputInv, UNCHANGED <<messages, delivered>>
  PROVE  OutputInv'
  <1>1. Output' = Output /\ delivered' = delivered
    BY DEF messages, Output
  <1>2. QED
    BY <1>1 DEF OutputInv, InOrder, LineOf, Sent

(* Every step keeps it.                                                    *)
LEMMA OutputStep ==
  ASSUME OutputInv, [OutputNext]_outputVars
  PROVE  OutputInv'
  <1>1. CASE update_user_balance
    BY <1>1, CommandsPush DEF update_user_balance
  <1>2. CASE put_order
    BY <1>2, CommandsPush DEF put_order
  <1>3. CASE put_order_deal
    BY <1>3, CommandsPush DEF put_order_deal
  <1>4. CASE cancel_order
    BY <1>4, CommandsPush DEF cancel_order
  <1>5. CASE on_history_timer
    BY <1>5, MessagesStand DEF on_history_timer
  <1>6. CASE on_message_timer
    BY <1>6, ProducingKeeps DEF on_message_timer
  <1>7. ASSUME NEW t \in Thread, Begin(t)
        PROVE  OutputInv'
    BY <1>7, MessagesStand DEF Begin
  <1>8. ASSUME NEW t \in Thread, on_history_job(t)
        PROVE  OutputInv'
    BY <1>8, MessagesStand DEF on_history_job
  <1>9. ASSUME NEW t \in Topics, on_delivery(t)
        PROVE  OutputInv'
    BY <1>9, DeliveryKeeps
  <1>10. CASE fini_message
    BY <1>10, ProducingKeeps DEF fini_message
  <1>11. CASE fini_history
    BY <1>11, EndKeeps DEF fini_history
  <1>12. CASE Release
    BY <1>12, MessagesStand DEF Release
  <1>13. ASSUME NEW at, Restarted(at)
         PROVE  OutputInv'
    BY <1>13, EndKeeps DEF Restarted
  <1>14. CASE Stopped
    BY <1>13, <1>14 DEF Stopped
  <1>15. CASE Crash
    BY <1>13, <1>15 DEF Crash
  <1>16. CASE UNCHANGED outputVars
    BY <1>16, MessagesStand DEF outputVars
  <1>17. QED
    BY <1>1, <1>2, <1>3, <1>4, <1>5, <1>6, <1>7, <1>8, <1>9, <1>10, <1>11, <1>12,
       <1>14, <1>15, <1>16 DEF OutputNext

(* Lines in order are what is promised of them.                            *)
LEMMA InOrderPromise ==
  ASSUME OutputInv
  PROVE  PushedInOrder
  <1>1. ASSUME NEW t \in Topics
        PROVE  /\ Line(t) = LineOf(Output, t)
               /\ Sent(Output, t) = {m \in 1..pushed[t] : <<t, m>> \notin dropped}
    BY DEF Line, LineOf, Sent, Output
  <1>2. QED
    BY <1>1 DEF OutputInv, InOrder, PushedInOrder

(* The lists, the queue and Kafka have the messages of every topic in the  *)
(* order in which push_message got them.                                   *)
THEOREM OutputInvariant == OutputSpec => []OutputInv
  <1>1. QED
    BY OutputInit, OutputStep, PTL DEF OutputSpec

(* push_message, produce_list and on_delivery keep the order of a topic    *)
(* and lose no message but those that fail.                                *)
THEOREM MessagesInOrder == OutputSpec => []PushedInOrder
  <1>1. QED
    BY OutputInvariant, InOrderPromise, PTL
-------------------------------------------------------------------------------
(* Where the rows are. A statement of the dict, a request and a thread     *)
(* hold rows, a table took them; KeyAt is the table that the rows at a     *)
(* place are for.                                                          *)

AnyRow == [n : Nat, key : Keys, user : Nat, id : Nat]
Entry == [key : Keys, rows : SUBSET AnyRow]

HistoryJobs == [requests : Seq(Entry), running : [Thread -> {<<>>} \cup {<<e>> : e \in Entry}],
          replies : {<<>>}, pipe : {FALSE}, reading : {FALSE}, shutdown : BOOLEAN]

KeyAt(p) ==
    CASE p[1] = "statement" -> p[2]
      [] p[1] = "request" -> job.requests[p[2]].key
      [] p[1] = "thread" -> job.running[p[2]][1].key
      [] p[1] = "table" -> p[2]

AllRows == UNION {RowsAt(p) : p \in Held \cup Taken}
Share(b, c) == Numbers(b) \cap Numbers(c) # {}

(* What the dict, the job and the tables can be.                           *)
RowsTyped ==
    /\ rows \in Nat
    /\ DOMAIN dict_sql \subseteq Keys /\ dict_sql \in [DOMAIN dict_sql -> SUBSET AnyRow]
    /\ job \in HistoryJobs
    /\ tables \in [Keys -> Seq(SUBSET AnyRow)]

(* Rows are at places of their table, under the numbers given so far.      *)
RowsKnown == \A p \in Held \cup Taken : \A r \in RowsAt(p) : r.n \in 1..rows /\ r.key = KeyAt(p)

(* What is to be written is to be written once; what a table took and a    *)
(* thread still holds is the statement the thread repeats; tables took a   *)
(* row twice only then; and a row is somewhere unless it was dropped.      *)
HeldOnce == \A p, q \in Held : Share(RowsAt(p), RowsAt(q)) => p = q
TakenAgain ==
    \A p \in Held, q \in Taken :
        Share(RowsAt(p), RowsAt(q)) =>
            p[1] = "thread" /\ RowsAt(p) = RowsAt(q) /\ RowsAt(p) \subseteq repeated
TakenTwice ==
    \A p, q \in Taken : p # q => Numbers(RowsAt(p)) \cap Numbers(RowsAt(q)) \subseteq Numbers(repeated)
AllSomewhere ==
    \A n \in 1..rows : n \in Numbers(lost \cup refused) \/ \E p \in Held \cup Taken : n \in Numbers(RowsAt(p))

RowsPlaced == RowsKnown /\ HeldOnce /\ TakenAgain /\ TakenTwice /\ AllSomewhere
RowsInv == RowsTyped /\ RowsPlaced

-------------------------------------------------------------------------------
(* Places, and the rows there, before and after a step.                    *)

HeldIs ==
    \A p : p \in Held <=> \/ \E key \in DOMAIN dict_sql : p = <<"statement", key>>
                          \/ \E i \in DOMAIN job.requests : p = <<"request", i>>
                          \/ \E t \in Running : p = <<"thread", t>>
TakenIs ==
    \A p : p \in Taken <=> \E key \in Keys : \E i \in DOMAIN tables[key] : p = <<"table", key, i>>
RowsAre ==
    /\ \A key : RowsAt(<<"statement", key>>) = dict_sql[key] /\ KeyAt(<<"statement", key>>) = key
    /\ \A i : RowsAt(<<"request", i>>) = job.requests[i].rows /\ KeyAt(<<"request", i>>) = job.requests[i].key
    /\ \A t : RowsAt(<<"thread", t>>) = job.running[t][1].rows /\ KeyAt(<<"thread", t>>) = job.running[t][1].key
    /\ \A key, i : RowsAt(<<"table", key, i>>) = tables[key][i] /\ KeyAt(<<"table", key, i>>) = key

(* The places of what is still to be written.                              *)
LEMMA HeldPlaces == HeldIs /\ HeldIs'
  <1>1. HeldIs
    BY DEF HeldIs, Held
  <1>2. HeldIs'
    BY DEF HeldIs, Held
  <1>3. QED
    BY <1>1, <1>2

(* The places of what the tables took.                                     *)
LEMMA TakenPlaces == TakenIs /\ TakenIs'
  <1>1. TakenIs
    <2>1. \A p, key : p \in {"table"} \X {key} \X DOMAIN tables[key]
                        <=> \E i \in DOMAIN tables[key] : p = <<"table", key, i>>
      OBVIOUS
    <2>2. \A p : p \in Taken <=> \E key \in Keys : p \in {"table"} \X {key} \X DOMAIN tables[key]
      BY DEF Taken
    <2>3. QED
      BY <2>1, <2>2 DEF TakenIs
  <1>2. TakenIs'
    <2>1. \A p, key : p \in {"table"} \X {key} \X DOMAIN tables'[key]
                        <=> \E i \in DOMAIN tables'[key] : p = <<"table", key, i>>
      OBVIOUS
    <2>2. \A p : p \in Taken' <=> \E key \in Keys : p \in {"table"} \X {key} \X DOMAIN tables'[key]
      BY DEF Taken
    <2>3. QED
      BY <2>1, <2>2 DEF TakenIs
  <1>3. QED
    BY <1>1, <1>2

(* The rows at each kind of place.                                         *)
LEMMA RowsOfPlaces == RowsAre /\ RowsAre'
  <1>1. RowsAre
    BY DEF RowsAre, RowsAt, KeyAt
  <1>2. RowsAre'
    BY DEF RowsAre, RowsAt, KeyAt
  <1>3. QED
    BY <1>1, <1>2

(* A number of a batch is that of one of its rows.                         *)
LEMMA NumbersOf ==
  ASSUME NEW batch
  PROVE  \A n : n \in Numbers(batch) <=> \E r \in batch : r.n = n
  <1>1. QED
    BY DEF Numbers

StoredIs == \A r : r \in StoredRows <=> \E q \in Taken : r \in RowsAt(q)

(* Stored, and StoredRows, by the places in the tables.                    *)
LEMMA StoredPlaces ==
  ASSUME tables \in [Keys -> Seq(SUBSET AnyRow)]
  PROVE  /\ \A r : \A key \in Keys : r \in Stored(key) <=> \E i \in DOMAIN tables[key] : r \in tables[key][i]
         /\ StoredIs
  <1>1. ASSUME NEW key \in Keys, NEW r
        PROVE  r \in Stored(key) <=> \E i \in DOMAIN tables[key] : r \in tables[key][i]
    <2>1. DOMAIN tables[key] = 1..Len(tables[key])
      OBVIOUS
    <2>2. r \in Stored(key) <=> \E i \in 1..Len(tables[key]) : r \in tables[key][i]
      BY <2>1 DEF Stored, ToSet
    <2>3. QED
      BY <2>1, <2>2
  <1>2. ASSUME NEW r
        PROVE  r \in StoredRows <=> \E q \in Taken : r \in RowsAt(q)
    <2>1. r \in StoredRows <=> \E key \in Keys : \E i \in DOMAIN tables[key] : r \in tables[key][i]
      BY <1>1 DEF StoredRows
    <2>2. \A key, i : RowsAt(<<"table", key, i>>) = tables[key][i]
      BY RowsOfPlaces DEF RowsAre
    <2>3. \A q \in Taken : \E key \in Keys : \E i \in DOMAIN tables[key] : q = <<"table", key, i>>
      BY TakenPlaces DEF TakenIs
    <2>4. \A key \in Keys : \A i \in DOMAIN tables[key] : <<"table", key, i>> \in Taken
      BY TakenPlaces DEF TakenIs
    <2>5. ASSUME NEW q \in Taken, r \in RowsAt(q)
          PROVE  \E key \in Keys : \E i \in DOMAIN tables[key] : r \in tables[key][i]
      BY <2>2, <2>3, <2>5
    <2>6. ASSUME NEW key \in Keys, NEW i \in DOMAIN tables[key], r \in tables[key][i]
          PROVE  \E q \in Taken : r \in RowsAt(q)
      BY <2>2, <2>4, <2>6
    <2>7. QED
      BY <2>1, <2>5, <2>6
  <1>3. QED
    BY <1>1, <1>2 DEF StoredIs

-------------------------------------------------------------------------------
(* Rows that go from place to place, each place from another, or are taken *)
(* away with note.                                                         *)
LEMMA RowsMove ==
  ASSUME RowsPlaced, UNCHANGED <<rows, tables, repeated>>,
         NEW pi \in [Held' -> Held],
         \A p, q \in Held' : pi[p] = pi[q] => p = q,
         \A p \in Held' : /\ RowsAt(p)' = RowsAt(pi[p]) /\ KeyAt(p)' = KeyAt(pi[p])
                          /\ pi[p][1] = "thread" => p[1] = "thread",
         Numbers(lost \cup refused) \subseteq Numbers(lost' \cup refused'),
         \A p \in Held : \/ \E q \in Held' : pi[q] = p
                         \/ \A r \in RowsAt(p) : r \in lost' \cup refused' \/ \E q \in Taken : r \in RowsAt(q)
  PROVE  RowsPlaced' /\ AllRows' \subseteq AllRows
  <1>1. Taken' = Taken /\ \A q \in Taken : RowsAt(q)' = RowsAt(q) /\ KeyAt(q)' = KeyAt(q)
    <2>1. \A q : q \in Taken' <=> q \in Taken
      BY TakenPlaces DEF TakenIs
    <2>2. \A key, i : /\ RowsAt(<<"table", key, i>>)' = RowsAt(<<"table", key, i>>)
                      /\ KeyAt(<<"table", key, i>>)' = KeyAt(<<"table", key, i>>)
      BY DEF RowsAt, KeyAt
    <2>3. \A q \in Taken : \E key, i : q = <<"table", key, i>>
      BY TakenPlaces DEF TakenIs
    <2>4. QED
      BY <2>1, <2>2, <2>3
  <1>2. RowsKnown'
    <2>1. ASSUME NEW p \in Held', NEW r \in RowsAt(p)'
          PROVE  r.n \in 1..rows' /\ r.key = KeyAt(p)'
      <3>1. pi[p] \in Held /\ RowsAt(p)' = RowsAt(pi[p]) /\ KeyAt(p)' = KeyAt(pi[p])
        OBVIOUS
      <3>2. QED
        BY <3>1 DEF RowsPlaced, RowsKnown
    <2>2. ASSUME NEW p \in Taken', NEW r \in RowsAt(p)'
          PROVE  r.n \in 1..rows' /\ r.key = KeyAt(p)'
      BY <1>1 DEF RowsPlaced, RowsKnown
    <2>3. QED
      BY <2>1, <2>2 DEF RowsKnown
  <1>3. HeldOnce'
    <2>1. ASSUME NEW p \in Held', NEW q \in Held', Share(RowsAt(p)', RowsAt(q)')
          PROVE  p = q
      <3>1. /\ pi[p] \in Held /\ RowsAt(p)' = RowsAt(pi[p])
            /\ pi[q] \in Held /\ RowsAt(q)' = RowsAt(pi[q])
        OBVIOUS
      <3>2. Share(RowsAt(pi[p]), RowsAt(pi[q]))
        BY <2>1, <3>1
      <3>3. pi[p] = pi[q]
        BY <3>1, <3>2 DEF RowsPlaced, HeldOnce
      <3>4. QED
        BY <3>3
    <2>2. QED
      BY <2>1 DEF HeldOnce, Share, Numbers
  <1>4. TakenAgain'
    <2>1. ASSUME NEW p \in Held', NEW q \in Taken, Share(RowsAt(p)', RowsAt(q))
          PROVE  p[1] = "thread" /\ RowsAt(p)' = RowsAt(q) /\ RowsAt(p)' \subseteq repeated
      <3>1. pi[p] \in Held /\ RowsAt(p)' = RowsAt(pi[p])
        OBVIOUS
      <3>2. Share(RowsAt(pi[p]), RowsAt(q))
        BY <2>1, <3>1
      <3>3. pi[p][1] = "thread" /\ RowsAt(pi[p]) = RowsAt(q) /\ RowsAt(pi[p]) \subseteq repeated
        BY <3>1, <3>2 DEF RowsPlaced, TakenAgain
      <3>4. QED
        BY <3>1, <3>3
    <2>2. QED
      BY <1>1, <2>1 DEF TakenAgain, Share, Numbers
  <1>5. TakenTwice'
    BY <1>1 DEF RowsPlaced, TakenTwice, Numbers
  <1>6. AllSomewhere'
    <2>1. ASSUME NEW n \in 1..rows, n \notin Numbers(lost' \cup refused')
          PROVE  \E p \in Held' \cup Taken' : n \in Numbers(RowsAt(p)')
      <3>1. PICK p \in Held \cup Taken : n \in Numbers(RowsAt(p))
        BY <2>1 DEF RowsPlaced, AllSomewhere
      <3>2. CASE p \in Taken
        BY <1>1, <3>1, <3>2
      <3>3. CASE p \in Held /\ \E q \in Held' : pi[q] = p
        <4>1. PICK q \in Held' : pi[q] = p
          BY <3>3
        <4>2. RowsAt(q)' = RowsAt(p)
          BY <4>1
        <4>3. QED
          BY <3>1, <4>1, <4>2
      <3>4. CASE p \in Held /\ ~\E q \in Held' : pi[q] = p
        <4>1. PICK r \in RowsAt(p) : r.n = n
          BY <3>1, NumbersOf
        <4>2. r \notin lost' \cup refused'
          BY <2>1, <4>1, NumbersOf
        <4>3. PICK q \in Taken : r \in RowsAt(q)
          BY <3>4, <4>1, <4>2
        <4>4. n \in Numbers(RowsAt(q))
          BY <4>1, <4>3, NumbersOf
        <4>5. QED
          BY <1>1, <4>3, <4>4
      <3>5. QED
        BY <3>1, <3>2, <3>3, <3>4
    <2>2. QED
      BY <2>1 DEF AllSomewhere, Numbers
  <1>7. AllRows' \subseteq AllRows
    <2>1. ASSUME NEW p \in Held' \cup Taken', NEW r \in RowsAt(p)'
          PROVE  \E q \in Held \cup Taken : r \in RowsAt(q)
      <3>1. CASE p \in Held'
        <4>1. pi[p] \in Held /\ RowsAt(p)' = RowsAt(pi[p])
          BY <3>1
        <4>2. QED
          BY <4>1
      <3>2. CASE p \in Taken'
        BY <1>1, <3>2
      <3>3. QED
        BY <3>1, <3>2
    <2>2. QED
      BY <2>1 DEF AllRows
  <1>8. QED
    BY <1>2, <1>3, <1>4, <1>5, <1>6, <1>7 DEF RowsPlaced

(* The fields of a job: its requests, and the entry of each thread that    *)
(* runs.                                                                   *)
LEMMA JobFields ==
  ASSUME job \in HistoryJobs
  PROVE  /\ job.requests \in Seq(Entry) /\ DOMAIN job.requests = 1..Len(job.requests)
         /\ Len(job.requests) \in Nat
         /\ \A i \in 1..Len(job.requests) : job.requests[i] \in Entry
         /\ \A t \in Thread : job.running[t] = <<>> \/ \E e \in Entry : job.running[t] = <<e>>
         /\ \A t \in Running : t \in Thread /\ job.running[t][1] \in Entry
                               /\ job.running[t] = <<job.running[t][1]>>
  <1>1. job.requests \in Seq(Entry) /\ job.running \in [Thread -> {<<>>} \cup {<<e>> : e \in Entry}]
    BY DEF HistoryJobs
  <1>2. \A t \in Thread : job.running[t] = <<>> \/ \E e \in Entry : job.running[t] = <<e>>
    BY <1>1
  <1>3. \A t \in Running : t \in Thread /\ job.running[t][1] \in Entry /\ job.running[t] = <<job.running[t][1]>>
    BY <1>2 DEF Running
  <1>4. QED
    BY <1>1, <1>2, <1>3, LenProperties

(* A thread takes the first request: its rows, and those of all the other  *)
(* requests, move up.                                                      *)
LEMMA BeginKeeps ==
  ASSUME RowsInv, NEW t \in Thread, Begin(t)
  PROVE  RowsInv' /\ AllRows' \subseteq AllRows
  <1> DEFINE reqs == job.requests
             h == Head(reqs)
  <1>1. /\ job \in HistoryJobs /\ job.running[t] = <<>> /\ reqs # <<>>
        /\ job' = [job EXCEPT !.running[t] = <<h>>, !.requests = Tail(@)]
        /\ UNCHANGED <<dict_sql, rows, tables, lost, refused, repeated>>
    BY DEF Begin, Take, RowsInv, RowsTyped, statements
  <1>2. /\ reqs \in Seq(Entry) /\ Len(reqs) \in Nat \ {0} /\ h = reqs[1] /\ h \in Entry
        /\ Tail(reqs) \in Seq(Entry) /\ Len(Tail(reqs)) = Len(reqs) - 1
        /\ \A i \in 1..Len(reqs) - 1 : Tail(reqs)[i] = reqs[i + 1]
    <2>1. reqs \in Seq(Entry)
      BY <1>1 DEF HistoryJobs
    <2>2. QED
      BY <1>1, <2>1, HeadTailProperties, EmptySeq
  <1>3. /\ job'.requests = Tail(reqs)
        /\ job'.running = [job.running EXCEPT ![t] = <<h>>]
        /\ job' \in HistoryJobs
    <2>1. job'.requests = Tail(reqs) /\ job'.running = [job.running EXCEPT ![t] = <<h>>]
      BY <1>1 DEF HistoryJobs
    <2>2. [job.running EXCEPT ![t] = <<h>>] \in [Thread -> {<<>>} \cup {<<e>> : e \in Entry}]
      BY <1>1, <1>2 DEF HistoryJobs
    <2>3. QED
      BY <1>1, <1>2, <2>1, <2>2 DEF HistoryJobs
  <1>4. /\ DOMAIN job.running = Thread /\ <<h>> # <<>> /\ <<h>>[1] = h
        /\ \A u \in Thread : job'.running[u] = IF u = t THEN <<h>> ELSE job.running[u]
    BY <1>1, <1>3 DEF HistoryJobs
  <1>5. \A u : u \in Running' <=> u \in Running \/ u = t
    BY <1>4 DEF Running
  <1>6. /\ DOMAIN reqs = 1..Len(reqs)
        /\ DOMAIN job'.requests = 1..Len(reqs) - 1
    BY <1>2, <1>3
  <1> DEFINE pi == [p \in Held' |-> IF p = <<"thread", t>> THEN <<"request", 1>>
                                    ELSE IF p[1] = "request" THEN <<"request", p[2] + 1>> ELSE p]
  <1>7. ASSUME NEW p \in Held'
        PROVE  \/ \E key \in DOMAIN dict_sql : p = <<"statement", key>> /\ pi[p] = p
               \/ \E i \in 1..Len(reqs) - 1 : p = <<"request", i>> /\ pi[p] = <<"request", i + 1>>
               \/ p = <<"thread", t>> /\ pi[p] = <<"request", 1>>
               \/ \E u \in Running : u # t /\ p = <<"thread", u>> /\ pi[p] = p
    <2>1. CASE \E key \in DOMAIN dict_sql' : p = <<"statement", key>>
      BY <1>1, <2>1
    <2>2. CASE \E i \in DOMAIN job'.requests : p = <<"request", i>>
      BY <1>6, <2>2
    <2>3. CASE \E u \in Running' : p = <<"thread", u>>
      BY <1>5, <2>3
    <2>4. QED
      BY <2>1, <2>2, <2>3, HeldPlaces DEF HeldIs
  <1>8. /\ t \notin Running
        /\ \A key \in DOMAIN dict_sql : <<"statement", key>> \in Held /\ <<"statement", key>> \in Held'
        /\ \A i \in 1..Len(reqs) : <<"request", i>> \in Held
        /\ \A i \in 1..Len(reqs) - 1 : <<"request", i>> \in Held'
        /\ <<"thread", t>> \in Held'
        /\ \A u \in Running : <<"thread", u>> \in Held /\ <<"thread", u>> \in Held'
    <2>1. t \notin Running
      BY <1>1 DEF Running
    <2>2. QED
      BY <1>1, <1>5, <1>6, <2>1, HeldPlaces DEF HeldIs
  <1>9. /\ \A key : RowsAt(<<"statement", key>>)' = RowsAt(<<"statement", key>>)
                    /\ KeyAt(<<"statement", key>>)' = KeyAt(<<"statement", key>>)
        /\ \A i \in 1..Len(reqs) - 1 : RowsAt(<<"request", i>>)' = RowsAt(<<"request", i + 1>>)
                    /\ KeyAt(<<"request", i>>)' = KeyAt(<<"request", i + 1>>)
        /\ RowsAt(<<"thread", t>>)' = RowsAt(<<"request", 1>>)
        /\ KeyAt(<<"thread", t>>)' = KeyAt(<<"request", 1>>)
        /\ \A u \in Running : RowsAt(<<"thread", u>>)' = RowsAt(<<"thread", u>>)
                    /\ KeyAt(<<"thread", u>>)' = KeyAt(<<"thread", u>>)
    <2>1. \A u \in Running : u \in Thread /\ u # t
      BY <1>8 DEF Running
    <2>2. \A u \in Running : job'.running[u] = job.running[u]
      BY <1>4, <2>1
    <2>3. job'.running[t][1] = reqs[1]
      BY <1>2, <1>4
    <2>4. \A i \in 1..Len(reqs) - 1 : job'.requests[i] = job.requests[i + 1]
      BY <1>2, <1>3
    <2>5. \A key : RowsAt(<<"statement", key>>)' = RowsAt(<<"statement", key>>)
                    /\ KeyAt(<<"statement", key>>)' = KeyAt(<<"statement", key>>)
      BY <1>1 DEF RowsAt, KeyAt
    <2>6. \A i \in 1..Len(reqs) - 1 : RowsAt(<<"request", i>>)' = RowsAt(<<"request", i + 1>>)
                    /\ KeyAt(<<"request", i>>)' = KeyAt(<<"request", i + 1>>)
      <3>1. \A i : /\ RowsAt(<<"request", i>>)' = job'.requests[i].rows
                   /\ KeyAt(<<"request", i>>)' = job'.requests[i].key
                   /\ RowsAt(<<"request", i>>) = job.requests[i].rows
                   /\ KeyAt(<<"request", i>>) = job.requests[i].key
        BY RowsOfPlaces DEF RowsAre
      <3>2. \A i \in 1..Len(reqs) - 1 : RowsAt(<<"request", i>>)' = job.requests[i + 1].rows
                    /\ KeyAt(<<"request", i>>)' = job.requests[i + 1].key
        BY <2>4, <3>1
      <3>3. QED
        BY <3>1, <3>2
    <2>7. RowsAt(<<"thread", t>>)' = RowsAt(<<"request", 1>>)
          /\ KeyAt(<<"thread", t>>)' = KeyAt(<<"request", 1>>)
      BY <2>3 DEF RowsAt, KeyAt
    <2>8. \A u \in Running : RowsAt(<<"thread", u>>)' = RowsAt(<<"thread", u>>)
                    /\ KeyAt(<<"thread", u>>)' = KeyAt(<<"thread", u>>)
      BY <2>2 DEF RowsAt, KeyAt
    <2>9. QED
      BY <2>5, <2>6, <2>7, <2>8
  <1>10. pi \in [Held' -> Held]
    <2>1. \A i \in 1..Len(reqs) - 1 : i + 1 \in 1..Len(reqs)
      BY <1>2
    <2>2. 1 \in 1..Len(reqs)
      BY <1>2
    <2>3. ASSUME NEW p \in Held' PROVE pi[p] \in Held
      <3>1. CASE \E key \in DOMAIN dict_sql : p = <<"statement", key>> /\ pi[p] = p
        BY <1>8, <3>1
      <3>2. CASE \E i \in 1..Len(reqs) - 1 : p = <<"request", i>> /\ pi[p] = <<"request", i + 1>>
        BY <1>8, <2>1, <3>2
      <3>3. CASE p = <<"thread", t>> /\ pi[p] = <<"request", 1>>
        BY <1>8, <2>2, <3>3
      <3>4. CASE \E u \in Running : u # t /\ p = <<"thread", u>> /\ pi[p] = p
        BY <1>8, <3>4
      <3>5. QED
        BY <1>7, <3>1, <3>2, <3>3, <3>4
    <2>4. QED
      BY <2>3
  <1> HIDE DEF pi
  <1>11. ASSUME NEW p \in Held', NEW q \in Held', pi[p] = pi[q]
         PROVE  p = q
    <2>1. \A i, j \in 1..Len(reqs) - 1 : i + 1 # 1 /\ (i + 1 = j + 1 => i = j)
      BY <1>2
    <2>2. CASE p[1] = "request"
      <3>1. PICK i \in 1..Len(reqs) - 1 : p = <<"request", i>> /\ pi[p] = <<"request", i + 1>>
        BY <1>7, <2>2
      <3>2. QED
        BY <1>7, <1>11, <2>1, <3>1
    <2>3. CASE p = <<"thread", t>>
      BY <1>7, <1>11, <2>1, <2>3
    <2>4. CASE p[1] # "request" /\ p # <<"thread", t>>
      BY <1>7, <1>11, <2>4
    <2>5. QED
      BY <2>2, <2>3, <2>4
  <1>12. ASSUME NEW p \in Held'
         PROVE  /\ RowsAt(p)' = RowsAt(pi[p]) /\ KeyAt(p)' = KeyAt(pi[p])
                /\ pi[p][1] = "thread" => p[1] = "thread"
    BY <1>7, <1>9
  <1>13. ASSUME NEW p \in Held
         PROVE  \E q \in Held' : pi[q] = p
    <2>1. CASE \E key \in DOMAIN dict_sql : p = <<"statement", key>>
      <3>1. p \in Held' /\ pi[p] = p
        BY <1>7, <1>8, <2>1
      <3>2. QED
        BY <3>1
    <2>2. CASE \E u \in Running : p = <<"thread", u>>
      <3>1. p \in Held' /\ pi[p] = p
        BY <1>7, <1>8, <2>2
      <3>2. QED
        BY <3>1
    <2>3. CASE p = <<"request", 1>>
      <3>1. pi[<<"thread", t>>] = p
        BY <1>7, <1>8, <2>3
      <3>2. QED
        BY <1>8, <3>1
    <2>4. ASSUME NEW i \in 1..Len(reqs), i # 1, p = <<"request", i>>
          PROVE  \E q \in Held' : pi[q] = p
      <3>1. i - 1 \in 1..Len(reqs) - 1 /\ (i - 1) + 1 = i
        BY <1>2, <2>4
      <3>2. <<"request", i - 1>> \in Held'
        BY <1>8, <3>1
      <3>3. pi[<<"request", i - 1>>] = <<"request", (i - 1) + 1>>
        BY <1>7, <3>2
      <3>4. QED
        BY <2>4, <3>1, <3>2, <3>3
    <2>5. QED
      BY <1>6, <2>1, <2>2, <2>3, <2>4, HeldPlaces DEF HeldIs
  <1>14. RowsPlaced' /\ AllRows' \subseteq AllRows
    <2>1. RowsPlaced /\ UNCHANGED <<rows, tables, repeated>>
          /\ Numbers(lost \cup refused) \subseteq Numbers(lost' \cup refused')
      BY <1>1 DEF RowsInv
    <2>2. QED
      BY <1>10, <1>11, <1>12, <1>13, <2>1, RowsMove
  <1>15. RowsTyped'
    BY <1>1, <1>3 DEF RowsInv, RowsTyped
  <1>16. QED
    BY <1>14, <1>15 DEF RowsInv

(* The iterator comes to each table at a place of its own.                 *)
LEMMA KeysPlaced ==
  \A k, l \in Keys : Place(k) \in 1..5 * HISTORY_HASH_NUM /\ (Place(k) = Place(l) => k = l)
  <1>1. HISTORY_HASH_NUM \in Nat
    BY OutputAssumption
  <1> DEFINE number(type) == CHOOSE i \in DOMAIN Types : Types[i] = type
  <1>2. DOMAIN Types = 1..5 /\ Len(Types) = 5
    BY DEF Types
  <1>3. ASSUME NEW t \in ToSet(Types)
        PROVE  number(t) \in 1..5 /\ Types[number(t)] = t
    <2>1. \E i \in DOMAIN Types : Types[i] = t
      BY DEF ToSet
    <2>2. QED
      BY <1>2, <2>1
  <1> HIDE DEF number
  <1>4. ASSUME NEW k \in Keys, NEW l \in Keys
        PROVE  Place(k) \in 1..5 * HISTORY_HASH_NUM /\ (Place(k) = Place(l) => k = l)
    <2>1. /\ k = <<k[1], k[2]>> /\ k[1] \in ToSet(Types) /\ k[2] \in 0..HISTORY_HASH_NUM - 1
          /\ l = <<l[1], l[2]>> /\ l[1] \in ToSet(Types) /\ l[2] \in 0..HISTORY_HASH_NUM - 1
      BY DEF Keys
    <2>2. Place(k) = 5 * k[2] + number(k[1]) /\ Place(l) = 5 * l[2] + number(l[1])
      BY <1>2 DEF Place, number
    <2>3. number(k[1]) \in 1..5 /\ number(l[1]) \in 1..5
      BY <1>3, <2>1
    <2>4. k[2] \in Nat /\ l[2] \in Nat /\ k[2] + 1 <= HISTORY_HASH_NUM
      BY <1>1, <2>1
    <2>5. Place(k) \in 1..5 * HISTORY_HASH_NUM
      BY <1>1, <2>2, <2>3, <2>4
    <2>6. Place(k) = Place(l) => number(k[1]) = number(l[1]) /\ k[2] = l[2]
      BY <2>2, <2>3, <2>4
    <2>7. QED
      BY <1>3, <2>1, <2>5, <2>6
  <1>5. QED
    BY <1>4

UpTo(S, key) == {k \in S : Place(k) <= Place(key)}
RankOf(S) == [key \in S |-> Cardinality(UpTo(S, key))]

(* on_timer comes to each statement once.                                  *)
LEMMA KeysRanked ==
  ASSUME NEW S, S \subseteq Keys
  PROVE  /\ Cardinality(S) \in Nat
         /\ \A k, l \in S : RankOf(S)[k] = RankOf(S)[l] => k = l
         /\ \A n \in 1..Cardinality(S) : \E k \in S : RankOf(S)[k] = n
         /\ \A k \in S : RankOf(S)[k] \in 1..Cardinality(S)
  <1> DEFINE N == Cardinality(S)
             f == RankOf(S)
  <1>1. IsFiniteSet(S)
    <2> DEFINE top == 5 * HISTORY_HASH_NUM
               g == [key \in S |-> Place(key)]
    <2>1. top \in Nat
      BY OutputAssumption
    <2>2. g \in [S -> 1..top]
      BY KeysPlaced
    <2>3. \A k, l \in S : g[k] = g[l] => k = l
      BY KeysPlaced
    <2>4. g \in Injection(S, 1..top)
      BY <2>2, <2>3 DEF Injection, IsInjective
    <2>5. IsFiniteSet(1..top)
      BY <2>1, FS_Interval
    <2>6. QED
      BY <2>4, <2>5, FS_Injection
  <1>2. \A k, l \in S : Place(k) \in Nat /\ (Place(k) = Place(l) => k = l)
    <2>1. 5 * HISTORY_HASH_NUM \in Nat
      BY OutputAssumption
    <2>2. \A n \in 1..5 * HISTORY_HASH_NUM : n \in Nat
      BY <2>1
    <2>3. QED
      BY <2>2, KeysPlaced
  <1>3. ASSUME NEW i \in S
        PROVE  /\ IsFiniteSet(UpTo(S, i)) /\ Cardinality(UpTo(S, i)) \in Nat
               /\ Cardinality(UpTo(S, i)) <= N /\ Cardinality(UpTo(S, i)) # 0
               /\ i \in UpTo(S, i)
    <2>1. UpTo(S, i) \in SUBSET S
      BY DEF UpTo
    <2>2. IsFiniteSet(UpTo(S, i)) /\ Cardinality(UpTo(S, i)) <= N
      BY <1>1, <2>1, FS_Subset
    <2>3. i \in UpTo(S, i)
      BY <1>2 DEF UpTo
    <2>4. Cardinality(UpTo(S, i)) # 0
      BY <2>2, <2>3, FS_EmptySet
    <2>5. QED
      BY <2>2, <2>3, <2>4, FS_CardinalityType
  <1>4. N \in Nat
    BY <1>1, FS_CardinalityType
  <1>5. f \in [S -> 1..N]
    <2>1. \A i \in S : Cardinality(UpTo(S, i)) \in 1..N
      BY <1>3, <1>4
    <2>2. QED
      BY <2>1 DEF RankOf
  <1>6. ASSUME NEW i \in S, NEW j \in S, Place(i) < Place(j)
        PROVE  f[i] < f[j]
    <2>1. UpTo(S, i) \in SUBSET UpTo(S, j) /\ UpTo(S, i) # UpTo(S, j)
      <3>1. j \notin UpTo(S, i)
        BY <1>2, <1>6 DEF UpTo
      <3>2. j \in UpTo(S, j)
        BY <1>3
      <3>3. ASSUME NEW k \in UpTo(S, i) PROVE k \in UpTo(S, j)
        <4>1. k \in S /\ Place(k) <= Place(i) /\ Place(k) \in Nat /\ Place(i) \in Nat /\ Place(j) \in Nat
          BY <1>2 DEF UpTo
        <4>2. Place(k) <= Place(j)
          BY <1>6, <4>1
        <4>3. QED
          BY <4>1, <4>2 DEF UpTo
      <3>4. QED
        BY <3>1, <3>2, <3>3
    <2>2. /\ Cardinality(UpTo(S, i)) <= Cardinality(UpTo(S, j))
          /\ Cardinality(UpTo(S, i)) # Cardinality(UpTo(S, j))
      BY <1>3, <2>1, FS_Subset
    <2>3. QED
      BY <1>3, <2>2 DEF RankOf
  <1>7. \A i, j \in S : f[i] = f[j] => i = j
    <2> TAKE i, j \in S
    <2>1. Place(i) \in Nat /\ Place(j) \in Nat /\ f[i] \in Nat /\ f[j] \in Nat
      BY <1>2, <1>5
    <2>2. CASE Place(i) < Place(j)
      BY <1>6, <2>1, <2>2
    <2>3. CASE Place(j) < Place(i)
      BY <1>6, <2>1, <2>3
    <2>4. QED
      BY <1>2, <2>1, <2>2, <2>3
  <1>8. f \in Surjection(S, 1..N)
    <2>1. f \in Injection(S, 1..N)
      BY <1>5, <1>7 DEF Injection, IsInjective
    <2>2. IsFiniteSet(1..N) /\ Cardinality(1..N) = N
      <3>1. /\ IsFiniteSet(1..N)
            /\ Cardinality(1..N) = IF 1 > N THEN 0 ELSE N - 1 + 1
        BY <1>4, FS_Interval
      <3>2. QED
        BY <1>4, <3>1
    <2>3. QED
      BY <2>1, <2>2, FS_Injection
  <1>9. QED
    BY <1>4, <1>5, <1>7, <1>8 DEF Surjection

(* Due counts the statements of the dict: each has its turn, once.         *)
LEMMA DueOnce ==
  ASSUME DOMAIN dict_sql \subseteq Keys
  PROVE  /\ Cardinality(DOMAIN dict_sql) \in Nat
         /\ \A i \in 1..Cardinality(DOMAIN dict_sql) : Due(i) \in DOMAIN dict_sql
         /\ \A i, j \in 1..Cardinality(DOMAIN dict_sql) : Due(i) = Due(j) => i = j
         /\ \A key \in DOMAIN dict_sql : \E i \in 1..Cardinality(DOMAIN dict_sql) : Due(i) = key
  <1> DEFINE S == DOMAIN dict_sql
             f == RankOf(S)
  <1>1. \A i : Due(i) = CHOOSE key \in S : f[key] = i
    BY DEF Due, RankOf, UpTo
  <1>2. /\ Cardinality(S) \in Nat
        /\ \A k, l \in S : f[k] = f[l] => k = l
        /\ \A n \in 1..Cardinality(S) : \E k \in S : f[k] = n
        /\ \A k \in S : f[k] \in 1..Cardinality(S)
    BY KeysRanked
  <1> HIDE DEF f
  <1>3. \A i \in 1..Cardinality(S) : Due(i) \in S /\ f[Due(i)] = i
    BY <1>1, <1>2
  <1>4. QED
    BY <1>2, <1>3

(* on_timer and fini_history turn every statement into a request.          *)
LEMMA FlushedKeeps ==
  ASSUME RowsInv, Flushed, dict_sql' = <<>>, UNCHANGED <<rows, tables, lost, refused, repeated>>
  PROVE  RowsInv' /\ AllRows' \subseteq AllRows
  <1> DEFINE reqs == job.requests
             L == Len(reqs)
             S == DOMAIN dict_sql
             N == Cardinality(S)
             due == [i \in 1..N |-> [key |-> Due(i), rows |-> dict_sql[Due(i)]]]
  <1>1. /\ job \in HistoryJobs /\ S \subseteq Keys /\ dict_sql \in [S -> SUBSET AnyRow]
        /\ job' = [job EXCEPT !.requests = reqs \o due]
    BY DEF RowsInv, RowsTyped, Flushed, nw_job_add
  <1> DEFINE d == [i \in 1..N |-> Due(i)]
  <1>2. /\ N \in Nat /\ \A i \in 1..N : Due(i) \in S
        /\ \A i, j \in 1..N : Due(i) = Due(j) => i = j
        /\ \A key \in S : \E i \in 1..N : Due(i) = key
    BY <1>1, DueOnce
  <1>2a. /\ N \in Nat /\ \A i \in 1..N : d[i] \in S /\ d[i] = Due(i)
         /\ \A i, j \in 1..N : d[i] = d[j] => i = j
         /\ \A key \in S : \E i \in 1..N : d[i] = key
    BY <1>2
  <1>3. due \in Seq(Entry) /\ Len(due) = N
    <2>1. \A i \in 1..N : due[i] \in Entry
      BY <1>1, <1>2 DEF Entry
    <2>2. QED
      BY <1>2, <2>1
  <1>4. \A i \in 1..N : due[i].key = d[i] /\ due[i].rows = dict_sql[d[i]]
    OBVIOUS
  <1>5. reqs \in Seq(Entry) /\ L \in Nat /\ DOMAIN reqs = 1..L
    BY <1>1, JobFields
  <1> HIDE DEF due, N, d
  <1>6. /\ reqs \o due \in Seq(Entry) /\ Len(reqs \o due) = L + N
        /\ \A i \in 1..L : (reqs \o due)[i] = reqs[i]
        /\ \A i \in 1..N : (reqs \o due)[L + i] = due[i]
    <2>1. /\ reqs \o due \in Seq(Entry) /\ Len(reqs \o due) = L + N
          /\ \A i \in 1..L + N : (reqs \o due)[i] = IF i <= L THEN reqs[i] ELSE due[i - L]
      BY <1>3, <1>5, ConcatProperties
    <2>2. \A i \in 1..L : i \in 1..L + N /\ i <= L
      BY <1>2a, <1>5
    <2>3. \A i \in 1..N : L + i \in 1..L + N /\ ~(L + i <= L) /\ L + i - L = i
      BY <1>2a, <1>5
    <2>4. QED
      BY <2>1, <2>2, <2>3
  <1>7. /\ job'.requests = reqs \o due /\ job'.running = job.running /\ job' \in HistoryJobs
        /\ DOMAIN job'.requests = 1..L + N
    <2>1. job'.requests = reqs \o due /\ job'.running = job.running
      BY <1>1 DEF HistoryJobs
    <2>2. job' \in HistoryJobs
      BY <1>1, <1>6 DEF HistoryJobs
    <2>3. DOMAIN (reqs \o due) = 1..L + N
      BY <1>6
    <2>4. QED
      BY <2>1, <2>2, <2>3
  <1>8. Running' = Running /\ DOMAIN dict_sql' = {}
    BY <1>7 DEF Running
  <1> DEFINE pi == [p \in Held' |-> IF p[1] = "request" /\ p[2] \notin 1..L
                                    THEN <<"statement", d[p[2] - L]>> ELSE p]
  <1>9. ASSUME NEW p \in Held'
        PROVE  \/ \E i \in 1..L : p = <<"request", i>> /\ pi[p] = p
               \/ \E i \in 1..N : p = <<"request", L + i>> /\ pi[p] = <<"statement", d[i]>>
               \/ \E u \in Running : p = <<"thread", u>> /\ pi[p] = p
    <2>1. CASE \E i \in DOMAIN job'.requests : p = <<"request", i>>
      <3>1. PICK i \in 1..L + N : p = <<"request", i>>
        BY <1>7, <2>1
      <3>2. CASE i \in 1..L
        BY <3>1, <3>2
      <3>3. CASE i \notin 1..L
        <4>1. i - L \in 1..N /\ L + (i - L) = i
          BY <1>2a, <1>5, <3>3
        <4>2. pi[p] = <<"statement", d[i - L]>>
          BY <3>1, <3>3
        <4>3. p = <<"request", L + (i - L)>>
          BY <3>1, <4>1
        <4>4. QED
          BY <4>1, <4>2, <4>3
      <3>4. QED
        BY <3>2, <3>3
    <2>2. CASE \E u \in Running' : p = <<"thread", u>>
      BY <1>8, <2>2
    <2>3. QED
      BY <1>8, <2>1, <2>2, HeldPlaces DEF HeldIs
  <1>10. /\ \A key \in S : <<"statement", key>> \in Held
         /\ \A i \in 1..L : <<"request", i>> \in Held /\ <<"request", i>> \in Held'
         /\ \A i \in 1..N : <<"request", L + i>> \in Held'
         /\ \A u \in Running : <<"thread", u>> \in Held /\ <<"thread", u>> \in Held'
    <2>1. \A i \in 1..N : L + i \in 1..L + N
      BY <1>2a, <1>5
    <2>2. \A i \in 1..L : i \in 1..L + N
      BY <1>2a, <1>5
    <2>3. QED
      BY <1>5, <1>7, <1>8, <2>1, <2>2, HeldPlaces DEF HeldIs
  <1>11. /\ \A i \in 1..L : RowsAt(<<"request", i>>)' = RowsAt(<<"request", i>>)
                            /\ KeyAt(<<"request", i>>)' = KeyAt(<<"request", i>>)
         /\ \A j : \A i \in 1..N : j = L + i => /\ RowsAt(<<"request", j>>)' = RowsAt(<<"statement", d[i]>>)
                                            /\ KeyAt(<<"request", j>>)' = KeyAt(<<"statement", d[i]>>)
         /\ \A u \in Running : RowsAt(<<"thread", u>>)' = RowsAt(<<"thread", u>>)
                               /\ KeyAt(<<"thread", u>>)' = KeyAt(<<"thread", u>>)
    <2>1. \A i : /\ RowsAt(<<"request", i>>)' = job'.requests[i].rows
                 /\ KeyAt(<<"request", i>>)' = job'.requests[i].key
                 /\ RowsAt(<<"request", i>>) = job.requests[i].rows
                 /\ KeyAt(<<"request", i>>) = job.requests[i].key
                 /\ RowsAt(<<"statement", d[i]>>) = dict_sql[d[i]]
                 /\ KeyAt(<<"statement", d[i]>>) = d[i]
      BY RowsOfPlaces DEF RowsAre
    <2>2. \A i \in 1..L : job'.requests[i] = job.requests[i]
      BY <1>6, <1>7
    <2>3. \A i \in 1..N : job'.requests[L + i] = due[i]
      BY <1>6, <1>7
    <2>4. \A u : RowsAt(<<"thread", u>>)' = RowsAt(<<"thread", u>>)
                 /\ KeyAt(<<"thread", u>>)' = KeyAt(<<"thread", u>>)
      BY <1>7 DEF RowsAt, KeyAt
    <2>5. \A j : \A i \in 1..N : j = L + i => /\ RowsAt(<<"request", j>>)' = RowsAt(<<"statement", d[i]>>)
                                             /\ KeyAt(<<"request", j>>)' = KeyAt(<<"statement", d[i]>>)
      BY <1>4, <2>1, <2>3
    <2>6. QED
      BY <2>1, <2>2, <2>4, <2>5
  <1>12. pi \in [Held' -> Held]
    <2>1. \A p \in Held' : pi[p] \in Held
      BY <1>2a, <1>9, <1>10
    <2>2. QED
      BY <2>1
  <1> HIDE DEF pi
  <1>13. ASSUME NEW p \in Held', NEW q \in Held', pi[p] = pi[q]
         PROVE  p = q
    <2>1. CASE \E i \in 1..N : p = <<"request", L + i>> /\ pi[p] = <<"statement", d[i]>>
      <3>1. PICK i \in 1..N : p = <<"request", L + i>> /\ pi[p] = <<"statement", d[i]>>
        BY <2>1
      <3>2. PICK j \in 1..N : q = <<"request", L + j>> /\ pi[q] = <<"statement", d[j]>>
        BY <1>9, <1>13, <3>1
      <3>3. i = j
        BY <1>2a, <1>13, <3>1, <3>2
      <3>4. QED
        BY <3>1, <3>2, <3>3
    <2>2. CASE pi[p] = p /\ p[1] # "statement"
      <3>1. pi[q] = q
        <4>1. \A x : p # <<"statement", x>>
          BY <2>2
        <4>2. QED
          BY <1>9, <1>13, <2>2, <4>1
      <3>2. QED
        BY <1>13, <2>2, <3>1
    <2>3. QED
      BY <1>9, <2>1, <2>2
  <1>14. ASSUME NEW p \in Held'
         PROVE  /\ RowsAt(p)' = RowsAt(pi[p]) /\ KeyAt(p)' = KeyAt(pi[p])
                /\ pi[p][1] = "thread" => p[1] = "thread"
    <2>1. CASE \E i \in 1..L : p = <<"request", i>> /\ pi[p] = p
      BY <1>11, <2>1
    <2>2. CASE \E i \in 1..N : p = <<"request", L + i>> /\ pi[p] = <<"statement", d[i]>>
      <3>1. PICK i \in 1..N : \E j : j = L + i /\ p = <<"request", j>> /\ pi[p] = <<"statement", d[i]>>
        BY <2>2
      <3>1a. PICK j : j = L + i /\ p = <<"request", j>>
        BY <3>1
      <3>2. /\ RowsAt(<<"request", j>>)' = RowsAt(<<"statement", d[i]>>)
            /\ KeyAt(<<"request", j>>)' = KeyAt(<<"statement", d[i]>>)
        BY <1>11, <3>1a
      <3>3. QED
        BY <3>1, <3>1a, <3>2
    <2>3. CASE \E u \in Running : p = <<"thread", u>> /\ pi[p] = p
      BY <1>11, <2>3
    <2>4. QED
      BY <1>9, <2>1, <2>2, <2>3
  <1>15. ASSUME NEW p \in Held
         PROVE  \E q \in Held' : pi[q] = p
    <2>1. CASE \E key \in S : p = <<"statement", key>>
      <3>1. PICK i \in 1..N : p = <<"statement", d[i]>>
        BY <1>2a, <2>1
      <3>2. <<"request", L + i>> \in Held'
        BY <1>10
      <3>3. pi[<<"request", L + i>>] = <<"statement", d[i]>>
        <4>1. ~\E j \in 1..L : L + i = j
          BY <1>2a, <1>5
        <4>2. PICK j \in 1..N : <<"request", L + i>> = <<"request", L + j>>
                                /\ pi[<<"request", L + i>>] = <<"statement", d[j]>>
          BY <1>9, <3>2, <4>1
        <4>3. L + i = L + j
          BY <4>2
        <4>4. i = j
          BY <1>2a, <1>5, <4>3
        <4>5. QED
          BY <4>2, <4>4
      <3>4. QED
        BY <3>1, <3>2, <3>3
    <2>2. CASE \E i \in 1..L : p = <<"request", i>>
      <3>1. PICK i \in 1..L : p = <<"request", i>>
        BY <2>2
      <3>2. p \in Held' /\ \A j \in 1..N : i # L + j
        BY <1>2a, <1>5, <1>10, <3>1
      <3>3. pi[p] = p
        BY <1>9, <3>1, <3>2
      <3>4. QED
        BY <3>2, <3>3
    <2>3. CASE \E u \in Running : p = <<"thread", u>>
      <3>1. p \in Held' /\ pi[p] = p
        BY <1>9, <1>10, <2>3
      <3>2. QED
        BY <3>1
    <2>4. QED
      BY <1>5, <2>1, <2>2, <2>3, HeldPlaces DEF HeldIs
  <1>16. RowsPlaced' /\ AllRows' \subseteq AllRows
    <2>1. RowsPlaced /\ Numbers(lost \cup refused) \subseteq Numbers(lost' \cup refused')
      BY DEF RowsInv
    <2>2. QED
      BY <1>12, <1>13, <1>14, <1>15, <2>1, RowsMove
  <1>17. RowsTyped'
    BY <1>7, <1>8 DEF RowsInv, RowsTyped
  <1>18. QED
    BY <1>16, <1>17 DEF RowsInv

(* The rows of a thread go to a table, or are there, or are refused.       *)
LEMMA ThreadEnds ==
  ASSUME RowsPlaced, NEW p0 \in Held, p0[1] = "thread", NEW q0,
         Held' \subseteq Held, Held \subseteq Held' \cup {p0},
         \A p \in Held' : RowsAt(p)' = RowsAt(p) /\ KeyAt(p)' = KeyAt(p),
         Taken \subseteq Taken', Taken' \subseteq Taken \cup {q0},
         \A q \in Taken : RowsAt(q)' = RowsAt(q) /\ KeyAt(q)' = KeyAt(q),
         q0 \in Taken' \ Taken => RowsAt(q0)' = RowsAt(p0) /\ KeyAt(q0)' = KeyAt(p0),
         rows' = rows, lost' = lost, refused \subseteq refused', repeated \subseteq repeated',
         p0 \in Held' => RowsAt(p0) \subseteq repeated',
         p0 \notin Held' => \/ q0 \in Taken' \ Taken
                            \/ \A r \in RowsAt(p0) : r \in refused' \/ \E q \in Taken : r \in RowsAt(q)
  PROVE  RowsPlaced' /\ AllRows' \subseteq AllRows
  <1>1. \A n : /\ n \in Numbers(repeated) => n \in Numbers(repeated')
               /\ n \in Numbers(lost \cup refused) => n \in Numbers(lost' \cup refused')
    BY NumbersOf
  <1>2. \A p \in Held' : p \in Held
    OBVIOUS
  <1>3. RowsKnown'
    <2>1. ASSUME NEW p \in Held', NEW r \in RowsAt(p)'
          PROVE  r.n \in 1..rows' /\ r.key = KeyAt(p)'
      BY DEF RowsPlaced, RowsKnown
    <2>2. ASSUME NEW p \in Taken', NEW r \in RowsAt(p)'
          PROVE  r.n \in 1..rows' /\ r.key = KeyAt(p)'
      <3>1. CASE p \in Taken
        BY <3>1 DEF RowsPlaced, RowsKnown
      <3>2. CASE p = q0 /\ q0 \notin Taken
        BY <3>2 DEF RowsPlaced, RowsKnown
      <3>3. QED
        BY <3>1, <3>2
    <2>3. QED
      BY <2>1, <2>2 DEF RowsKnown
  <1>4. HeldOnce'
    <2>1. ASSUME NEW p \in Held', NEW q \in Held', Share(RowsAt(p)', RowsAt(q)')
          PROVE  p = q
      <3>1. Share(RowsAt(p), RowsAt(q))
        BY <2>1
      <3>2. QED
        BY <1>2, <3>1 DEF RowsPlaced, HeldOnce
    <2>2. QED
      BY <2>1 DEF HeldOnce, Share, Numbers
  <1>5. TakenAgain'
    <2>1. ASSUME NEW p \in Held', NEW q \in Taken', Share(RowsAt(p)', RowsAt(q)')
          PROVE  p[1] = "thread" /\ RowsAt(p)' = RowsAt(q)' /\ RowsAt(p)' \subseteq repeated'
      <3>1. CASE q \in Taken
        <4>1. Share(RowsAt(p), RowsAt(q))
          BY <2>1, <3>1
        <4>2. p[1] = "thread" /\ RowsAt(p) = RowsAt(q) /\ RowsAt(p) \subseteq repeated
          BY <1>2, <3>1, <4>1 DEF RowsPlaced, TakenAgain
        <4>3. QED
          BY <3>1, <4>2
      <3>2. CASE q = q0 /\ q0 \notin Taken
        <4>1. Share(RowsAt(p), RowsAt(p0))
          BY <2>1, <3>2
        <4>2. p = p0
          BY <1>2, <4>1 DEF RowsPlaced, HeldOnce
        <4>3. QED
          BY <3>2, <4>2
      <3>3. QED
        BY <3>1, <3>2
    <2>2. QED
      BY <2>1 DEF TakenAgain, Share, Numbers
  <1>6. TakenTwice'
    <2>1. ASSUME NEW p \in Taken', NEW q \in Taken, p # q, NEW n,
                 n \in Numbers(RowsAt(p)'), n \in Numbers(RowsAt(q))
          PROVE  n \in Numbers(repeated')
      <3>1. CASE p \in Taken
        BY <1>1, <2>1, <3>1 DEF RowsPlaced, TakenTwice
      <3>2. CASE p = q0 /\ q0 \notin Taken
        <4>1. n \in Numbers(RowsAt(p0))
          BY <2>1, <3>2
        <4>2. Share(RowsAt(p0), RowsAt(q))
          BY <2>1, <4>1 DEF Share
        <4>3. RowsAt(p0) \subseteq repeated
          BY <4>2 DEF RowsPlaced, TakenAgain
        <4>4. QED
          BY <1>1, <4>1, <4>3, NumbersOf
      <3>3. QED
        BY <3>1, <3>2
    <2>2. ASSUME NEW p \in Taken', NEW q \in Taken', p # q
          PROVE  \A n : n \in Numbers(RowsAt(p)') /\ n \in Numbers(RowsAt(q)') => n \in Numbers(repeated')
      <3>1. CASE q \in Taken
        BY <2>1, <2>2, <3>1
      <3>2. CASE p \in Taken
        BY <2>1, <2>2, <3>2
      <3>3. QED
        BY <2>2, <3>1, <3>2
    <2>3. QED
      BY <2>2 DEF TakenTwice, Numbers
  <1>7. AllSomewhere'
    <2>1. ASSUME NEW n \in 1..rows, n \notin Numbers(lost' \cup refused')
          PROVE  \E p \in Held' \cup Taken' : n \in Numbers(RowsAt(p)')
      <3>1. PICK p \in Held \cup Taken : n \in Numbers(RowsAt(p))
        BY <1>1, <2>1 DEF RowsPlaced, AllSomewhere
      <3>2. CASE p \in Taken \/ p \in Held'
        BY <3>1, <3>2
      <3>3. CASE p = p0 /\ p0 \notin Held' /\ q0 \in Taken' \ Taken
        BY <3>1, <3>3
      <3>4. CASE p = p0 /\ p0 \notin Held' /\ ~(q0 \in Taken' \ Taken)
        <4>1. PICK r \in RowsAt(p0) : r.n = n
          BY <3>1, <3>4, NumbersOf
        <4>2. r \notin refused'
          BY <2>1, <4>1, NumbersOf
        <4>3. PICK q \in Taken : r \in RowsAt(q)
          BY <3>4, <4>1, <4>2
        <4>4. n \in Numbers(RowsAt(q))
          BY <4>1, <4>3, NumbersOf
        <4>5. QED
          BY <4>3, <4>4
      <3>5. QED
        BY <3>1, <3>2, <3>3, <3>4
    <2>2. QED
      BY <2>1 DEF AllSomewhere, Numbers
  <1>8. AllRows' \subseteq AllRows
    <2>1. ASSUME NEW p \in Held' \cup Taken', NEW r \in RowsAt(p)'
          PROVE  \E q \in Held \cup Taken : r \in RowsAt(q)
      <3>1. CASE p \in Held'
        BY <3>1
      <3>2. CASE p \in Taken
        BY <3>2
      <3>3. CASE p = q0 /\ q0 \in Taken' \ Taken
        BY <3>3
      <3>4. QED
        BY <3>1, <3>2, <3>3
    <2>2. QED
      BY <2>1 DEF AllRows
  <1>9. QED
    BY <1>3, <1>4, <1>5, <1>6, <1>7, <1>8 DEF RowsPlaced

(* A statement that is executed is one more of its table, one that is      *)
(* refused is none.                                                        *)
LEMMA ExecutedTakes ==
  ASSUME tables \in [Keys -> Seq(SUBSET AnyRow)], NEW e \in Entry, Executed(e)
  PROVE  \E q0 :
           /\ tables' \in [Keys -> Seq(SUBSET AnyRow)]
           /\ Taken \subseteq Taken' /\ Taken' \subseteq Taken \cup {q0}
           /\ \A q \in Taken : RowsAt(q)' = RowsAt(q) /\ KeyAt(q)' = KeyAt(q)
           /\ q0 \in Taken' \ Taken => RowsAt(q0)' = e.rows /\ KeyAt(q0)' = e.key
           /\ Duplicate(e) \/ q0 \in Taken' \ Taken
  <1>0. e.key \in Keys /\ e.rows \in SUBSET AnyRow
    BY DEF Entry
  <1>1. \A key, i : /\ RowsAt(<<"table", key, i>>)' = tables'[key][i] /\ KeyAt(<<"table", key, i>>)' = key
                    /\ RowsAt(<<"table", key, i>>) = tables[key][i] /\ KeyAt(<<"table", key, i>>) = key
    BY DEF RowsAt, KeyAt
  <1>2. \A q : /\ q \in Taken <=> \E key \in Keys : \E i \in DOMAIN tables[key] : q = <<"table", key, i>>
               /\ q \in Taken' <=> \E key \in Keys : \E i \in DOMAIN tables'[key] : q = <<"table", key, i>>
    BY TakenPlaces DEF TakenIs
  <1>3. CASE Duplicate(e)
    <2>1. tables' = tables
      BY <1>3 DEF Executed
    <2>2. Taken' = Taken /\ \A q \in Taken : RowsAt(q)' = RowsAt(q) /\ KeyAt(q)' = KeyAt(q)
      <3>1. \A key, i : /\ RowsAt(<<"table", key, i>>)' = RowsAt(<<"table", key, i>>)
                        /\ KeyAt(<<"table", key, i>>)' = KeyAt(<<"table", key, i>>)
        BY <2>1 DEF RowsAt, KeyAt
      <3>2. \A q : q \in Taken' <=> q \in Taken
        BY <1>2, <2>1
      <3>3. \A q \in Taken : \E key, i : q = <<"table", key, i>>
        BY <1>2
      <3>4. \A q \in Taken : RowsAt(q)' = RowsAt(q) /\ KeyAt(q)' = KeyAt(q)
        BY <3>1, <3>3
      <3>5. Taken' = Taken
        BY <3>2
      <3>6. QED
        BY <3>4, <3>5
    <2>3. QED
      BY <1>3, <2>1, <2>2
  <1>4. CASE ~Duplicate(e)
    <2> DEFINE s == tables[e.key]
               L == Len(s)
    <2>1. /\ s \in Seq(SUBSET AnyRow) /\ L \in Nat /\ DOMAIN s = 1..L
          /\ Append(s, e.rows) \in Seq(SUBSET AnyRow)
          /\ DOMAIN Append(s, e.rows) = 1..L + 1
          /\ \A i \in 1..L : Append(s, e.rows)[i] = s[i]
          /\ Append(s, e.rows)[L + 1] = e.rows
      BY <1>0
    <2>2. /\ tables' = [tables EXCEPT ![e.key] = Append(s, e.rows)]
          /\ tables' \in [Keys -> Seq(SUBSET AnyRow)]
          /\ tables'[e.key] = Append(s, e.rows)
          /\ \A key \in Keys : key # e.key => tables'[key] = tables[key]
      BY <1>0, <1>4, <2>1 DEF Executed
    <2>3. PICK j : j = L + 1
      OBVIOUS
    <2> DEFINE q0 == <<"table", e.key, j>>
    <2> HIDE DEF s, L
    <2>4. /\ q0 \notin Taken
          /\ q0 \in Taken'
      <3>1. ~\E i \in 1..L : i = j
        BY <2>1, <2>3
      <3>2. j \in 1..L + 1
        BY <2>1, <2>3
      <3>3. DOMAIN tables[e.key] = 1..L /\ DOMAIN tables'[e.key] = 1..L + 1
        BY <2>1, <2>2 DEF s
      <3>4. q0 \in Taken'
        BY <1>0, <1>2, <3>2, <3>3
      <3>5. ASSUME q0 \in Taken PROVE FALSE
        <4>1. PICK key \in Keys : \E i \in DOMAIN tables[key] : q0 = <<"table", key, i>>
          BY <1>2, <3>5
        <4>2. PICK i \in DOMAIN tables[key] : q0 = <<"table", key, i>>
          BY <4>1
        <4>3. key = e.key /\ i = j
          BY <4>2
        <4>4. QED
          BY <3>1, <3>3, <4>2, <4>3
      <3>6. QED
        BY <3>4, <3>5
    <2>5. ASSUME NEW q \in Taken
          PROVE  q \in Taken' /\ RowsAt(q)' = RowsAt(q) /\ KeyAt(q)' = KeyAt(q)
      <3>1. PICK key \in Keys : \E i \in DOMAIN tables[key] : q = <<"table", key, i>>
        BY <1>2
      <3>2. PICK i \in DOMAIN tables[key] : q = <<"table", key, i>>
        BY <3>1
      <3>3. i \in DOMAIN tables'[key] /\ tables'[key][i] = tables[key][i]
        <4>1. CASE key = e.key
          <5>1. i \in 1..L
            BY <2>1, <3>2, <4>1 DEF s
          <5>2. i \in 1..L + 1
            BY <2>1, <5>1
          <5>3. QED
            BY <2>1, <2>2, <4>1, <5>1, <5>2 DEF s
        <4>2. CASE key # e.key
          BY <2>2, <3>2, <4>2
        <4>3. QED
          BY <4>1, <4>2
      <3>4. QED
        BY <1>1, <1>2, <3>2, <3>3
    <2>6. ASSUME NEW q \in Taken'
          PROVE  q \in Taken \/ q = q0
      <3>1. PICK key \in Keys : \E i \in DOMAIN tables'[key] : q = <<"table", key, i>>
        BY <1>2
      <3>2. PICK i \in DOMAIN tables'[key] : q = <<"table", key, i>>
        BY <3>1
      <3>3. CASE key = e.key
        <4>1. i \in 1..L + 1
          BY <2>1, <2>2, <3>2, <3>3
        <4>2. i \in 1..L \/ i = j
          BY <2>1, <2>3, <4>1
        <4>3. CASE i \in 1..L
          <5>1. i \in DOMAIN tables[key]
            BY <2>1, <3>3, <4>3 DEF s
          <5>2. QED
            BY <1>2, <3>2, <5>1
        <4>4. QED
          BY <3>2, <3>3, <4>2, <4>3
      <3>4. CASE key # e.key
        BY <1>2, <2>2, <3>2, <3>4
      <3>5. QED
        BY <3>3, <3>4
    <2>7. RowsAt(q0)' = e.rows /\ KeyAt(q0)' = e.key
      <3>1. tables'[e.key][j] = e.rows
        BY <2>1, <2>2, <2>3
      <3>2. QED
        BY <1>1, <3>1
    <2>8. QED
      BY <2>2, <2>4, <2>5, <2>6, <2>7
  <1>5. QED
    BY <1>3, <1>4

(* Statements and requests that stay where they are.                       *)
LEMMA RowsStand ==
  ASSUME RowsInv, job' \in HistoryJobs, job'.requests = job.requests, job'.running = job.running,
         UNCHANGED <<dict_sql, rows, tables, lost, refused, repeated>>
  PROVE  RowsInv' /\ AllRows' \subseteq AllRows
  <1> DEFINE pi == [p \in Held' |-> p]
  <1>1. Running' = Running
    BY DEF Running
  <1>2. \A p : p \in Held' <=> p \in Held
    BY <1>1, HeldPlaces DEF HeldIs
  <1>3. ASSUME NEW p \in Held
        PROVE  RowsAt(p)' = RowsAt(p) /\ KeyAt(p)' = KeyAt(p)
    <2>1. \A x : /\ RowsAt(<<"statement", x>>)' = RowsAt(<<"statement", x>>)
                 /\ KeyAt(<<"statement", x>>)' = KeyAt(<<"statement", x>>)
                 /\ RowsAt(<<"request", x>>)' = RowsAt(<<"request", x>>)
                 /\ KeyAt(<<"request", x>>)' = KeyAt(<<"request", x>>)
                 /\ RowsAt(<<"thread", x>>)' = RowsAt(<<"thread", x>>)
                 /\ KeyAt(<<"thread", x>>)' = KeyAt(<<"thread", x>>)
      BY DEF RowsAt, KeyAt
    <2>2. QED
      BY <2>1, HeldPlaces DEF HeldIs
  <1>4. pi \in [Held' -> Held]
    BY <1>2
  <1>5. /\ \A p, q \in Held' : pi[p] = pi[q] => p = q
        /\ \A p \in Held' : /\ RowsAt(p)' = RowsAt(pi[p]) /\ KeyAt(p)' = KeyAt(pi[p])
                            /\ pi[p][1] = "thread" => p[1] = "thread"
        /\ \A p \in Held : \E q \in Held' : pi[q] = p
    BY <1>2, <1>3
  <1> HIDE DEF pi
  <1>6. RowsPlaced' /\ AllRows' \subseteq AllRows
    <2>1. RowsPlaced /\ Numbers(lost \cup refused) \subseteq Numbers(lost' \cup refused')
      BY DEF RowsInv
    <2>2. QED
      BY <1>4, <1>5, <2>1, RowsMove
  <1>7. RowsTyped'
    BY DEF RowsInv, RowsTyped
  <1>8. QED
    BY <1>6, <1>7 DEF RowsInv

(* What a restart drops is noted, unless it is stored.                     *)
LEMMA RestartKeeps ==
  ASSUME RowsInv, NEW at, Restarted(at)
  PROVE  RowsInv' /\ AllRows' \subseteq AllRows
  <1> DEFINE pi == [p \in Held' |-> p]
  <1>1. /\ dict_sql' = <<>> /\ Recreated /\ UNCHANGED <<rows, tables, refused, repeated>>
        /\ lost' = lost \cup StatementRows \cup (PendingRows \ StoredRows)
    BY DEF Restarted
  <1>2. /\ DOMAIN dict_sql' = {} /\ dict_sql' \in [DOMAIN dict_sql' -> SUBSET AnyRow]
        /\ job' \in HistoryJobs /\ DOMAIN job'.requests = {} /\ \A t \in Thread : job'.running[t] = <<>>
    BY <1>1 DEF Recreated, HistoryJobs
  <1>3. Held' = {}
    <2>1. Running' = {}
      BY <1>2 DEF Running
    <2>2. QED
      BY <1>2, <2>1, HeldPlaces DEF HeldIs
  <1>4. ASSUME NEW p \in Held, NEW r \in RowsAt(p)
        PROVE  r \in lost' \cup refused' \/ \E q \in Taken : r \in RowsAt(q)
    <2>1. job \in HistoryJobs /\ tables \in [Keys -> Seq(SUBSET AnyRow)]
      BY DEF RowsInv, RowsTyped
    <2>2. \A e \in Pending : e.rows \subseteq lost' \cup StoredRows
      BY <1>1 DEF PendingRows
    <2>3. CASE \E key \in DOMAIN dict_sql : p = <<"statement", key>>
      <3>1. PICK key \in DOMAIN dict_sql : p = <<"statement", key>>
        BY <2>3
      <3>2. r \in dict_sql[key]
        BY <3>1, RowsOfPlaces DEF RowsAre
      <3>3. QED
        BY <1>1, <3>2 DEF StatementRows
    <2>4. CASE \E i \in DOMAIN job.requests : p = <<"request", i>>
      <3>1. PICK i \in DOMAIN job.requests : p = <<"request", i>>
        BY <2>4
      <3>2. r \in job.requests[i].rows
        BY <3>1, RowsOfPlaces DEF RowsAre
      <3>3. job.requests[i] \in Pending
        BY <2>1, JobFields DEF Pending, ToSet
      <3>4. QED
        BY <2>1, <2>2, <3>2, <3>3, StoredPlaces DEF StoredIs
    <2>5. CASE \E t \in Running : p = <<"thread", t>>
      <3>1. PICK t \in Running : p = <<"thread", t>>
        BY <2>5
      <3>2. r \in job.running[t][1].rows
        BY <3>1, RowsOfPlaces DEF RowsAre
      <3>3. job.running[t][1] \in Pending
        BY DEF Pending
      <3>4. QED
        BY <2>1, <2>2, <3>2, <3>3, StoredPlaces DEF StoredIs
    <2>6. QED
      BY <2>3, <2>4, <2>5, HeldPlaces DEF HeldIs
  <1>5. RowsPlaced' /\ AllRows' \subseteq AllRows
    <2>1. RowsPlaced /\ Numbers(lost \cup refused) \subseteq Numbers(lost' \cup refused')
      BY <1>1, NumbersOf DEF RowsInv
    <2>2. pi \in [Held' -> Held]
      BY <1>3
    <2> HIDE DEF pi
    <2>3. /\ \A p, q \in Held' : pi[p] = pi[q] => p = q
          /\ \A p \in Held' : /\ RowsAt(p)' = RowsAt(pi[p]) /\ KeyAt(p)' = KeyAt(pi[p])
                              /\ pi[p][1] = "thread" => p[1] = "thread"
      BY <1>3
    <2>4. QED
      BY <1>1, <1>4, <2>1, <2>2, <2>3, RowsMove
  <1>6. RowsTyped'
    BY <1>1, <1>2 DEF RowsInv, RowsTyped
  <1>7. QED
    BY <1>5, <1>6 DEF RowsInv

(* on_job executes a statement, once or again.                             *)
LEMMA HistoryJobKeeps ==
  ASSUME RowsInv, NEW t \in Thread, on_history_job(t)
  PROVE  RowsInv' /\ AllRows' \subseteq AllRows
  <1>1. /\ t \in Running /\ job \in HistoryJobs /\ tables \in [Keys -> Seq(SUBSET AnyRow)]
        /\ UNCHANGED <<dict_sql, rows, lost>>
    BY DEF on_history_job, RowsInv, RowsTyped, statements
  <1>2. PICK e \in Entry : e = job.running[t][1]
    BY <1>1, JobFields
  <1> DEFINE p0 == <<"thread", t>>
             more == IF Duplicate(e) THEN e.rows \ Stored(e.key) ELSE {}
  <1>3. /\ Executed(e)
        /\ \/ DoneUnanswered(t) /\ refused' = refused \cup more /\ repeated' = repeated
           \/ job' = job /\ refused' = refused /\ repeated' = repeated \cup e.rows
    BY <1>2 DEF on_history_job
  <1>4. p0 \in Held /\ p0[1] = "thread" /\ RowsAt(p0) = e.rows /\ KeyAt(p0) = e.key
    <2>1. p0 \in Held
      BY <1>1, HeldPlaces DEF HeldIs
    <2>2. RowsAt(p0) = e.rows /\ KeyAt(p0) = e.key
      BY <1>2, RowsOfPlaces DEF RowsAre
    <2>3. QED
      BY <2>1, <2>2
  <1>5. PICK q0 :
           /\ tables' \in [Keys -> Seq(SUBSET AnyRow)]
           /\ Taken \subseteq Taken' /\ Taken' \subseteq Taken \cup {q0}
           /\ \A q \in Taken : RowsAt(q)' = RowsAt(q) /\ KeyAt(q)' = KeyAt(q)
           /\ q0 \in Taken' \ Taken => RowsAt(q0)' = e.rows /\ KeyAt(q0)' = e.key
           /\ Duplicate(e) \/ q0 \in Taken' \ Taken
    BY <1>1, <1>3, ExecutedTakes
  <1>6. /\ job' \in HistoryJobs /\ job'.requests = job.requests
        /\ \A u \in Thread : job'.running[u] = job.running[u] \/ (u = t /\ job'.running[u] = <<>>)
        /\ DoneUnanswered(t) => job'.running[t] = <<>>
    <2>1. CASE DoneUnanswered(t)
      <3>1. job' = [job EXCEPT !.running[t] = <<>>]
        BY <2>1 DEF DoneUnanswered
      <3>2. job'.running = [job.running EXCEPT ![t] = <<>>] /\ job'.requests = job.requests
        BY <1>1, <3>1 DEF HistoryJobs
      <3>3. job'.running \in [Thread -> {<<>>} \cup {<<x>> : x \in Entry}]
        BY <1>1, <3>2 DEF HistoryJobs
      <3>4. job' \in HistoryJobs
        BY <1>1, <3>1, <3>2, <3>3 DEF HistoryJobs
      <3>5. \A u \in Thread : job'.running[u] = IF u = t THEN <<>> ELSE job.running[u]
        BY <1>1, <3>2 DEF HistoryJobs
      <3>6. QED
        BY <3>2, <3>4, <3>5
    <2>2. CASE job' = job
      <3>1. ASSUME DoneUnanswered(t) PROVE job'.running[t] = <<>>
        <4>1. job'.running = [job.running EXCEPT ![t] = <<>>]
          BY <1>1, <3>1 DEF DoneUnanswered, HistoryJobs
        <4>2. QED
          BY <1>1, <4>1 DEF HistoryJobs
      <3>2. QED
        BY <1>1, <2>2, <3>1
    <2>3. QED
      BY <1>3, <2>1, <2>2
  <1>7. \A u : /\ u \in Running' => u \in Running /\ job'.running[u] = job.running[u]
               /\ u \in Running /\ u # t => u \in Running'
    BY <1>6 DEF Running
  <1>8. t \in Running' <=> ~DoneUnanswered(t)
    <2>1. ASSUME job' = job PROVE ~DoneUnanswered(t)
      BY <1>1, <1>6, <2>1 DEF Running
    <2>2. QED
      BY <1>1, <1>3, <1>6, <2>1 DEF Running
  <1>9. Held' \subseteq Held /\ Held \subseteq Held' \cup {p0} /\ (p0 \in Held' <=> ~DoneUnanswered(t))
    BY <1>1, <1>6, <1>7, <1>8, HeldPlaces DEF HeldIs
  <1>10. ASSUME NEW p \in Held'
         PROVE  RowsAt(p)' = RowsAt(p) /\ KeyAt(p)' = KeyAt(p)
    <2>1. /\ \A x : /\ RowsAt(<<"statement", x>>)' = RowsAt(<<"statement", x>>)
                    /\ KeyAt(<<"statement", x>>)' = KeyAt(<<"statement", x>>)
                    /\ RowsAt(<<"request", x>>)' = RowsAt(<<"request", x>>)
                    /\ KeyAt(<<"request", x>>)' = KeyAt(<<"request", x>>)
          /\ \A x \in Running' : /\ RowsAt(<<"thread", x>>)' = RowsAt(<<"thread", x>>)
                                 /\ KeyAt(<<"thread", x>>)' = KeyAt(<<"thread", x>>)
      BY <1>1, <1>6, <1>7, RowsOfPlaces DEF RowsAre
    <2>2. QED
      BY <2>1, HeldPlaces DEF HeldIs
  <1>11. DoneUnanswered(t) => refused' = refused \cup more /\ repeated' = repeated
    <2>1. ASSUME job' = job PROVE ~DoneUnanswered(t)
      BY <1>1, <1>6, <2>1 DEF Running
    <2>2. QED
      BY <1>3, <2>1
  <1>12. RowsPlaced' /\ AllRows' \subseteq AllRows
    <2>1. RowsPlaced /\ refused \subseteq refused' /\ repeated \subseteq repeated'
      BY <1>3 DEF RowsInv
    <2>2. p0 \in Held' => RowsAt(p0) \subseteq repeated'
      BY <1>3, <1>4, <1>9
    <2>3. ASSUME p0 \notin Held', Duplicate(e), NEW r \in RowsAt(p0)
          PROVE  r \in refused' \/ \E q \in Taken : r \in RowsAt(q)
      <3>1. r \in refused' \/ r \in Stored(e.key)
        BY <1>4, <1>9, <1>11, <2>3
      <3>2. Stored(e.key) \subseteq StoredRows
        BY DEF StoredRows, Entry
      <3>3. QED
        BY <1>1, <3>1, <3>2, StoredPlaces DEF StoredIs
    <2> HIDE DEF p0, more
    <2>4. q0 \in Taken' \ Taken => RowsAt(q0)' = RowsAt(p0) /\ KeyAt(q0)' = KeyAt(p0)
      BY <1>4, <1>5
    <2>5. p0 \notin Held' => \/ q0 \in Taken' \ Taken
                             \/ \A r \in RowsAt(p0) : r \in refused' \/ \E q \in Taken : r \in RowsAt(q)
      BY <1>5, <2>3
    <2>6. QED
      BY <1>1, <1>4, <1>5, <1>9, <1>10, <2>1, <2>2, <2>4, <2>5, ThreadEnds
  <1>13. RowsTyped'
    BY <1>1, <1>5, <1>6 DEF RowsInv, RowsTyped
  <1>14. QED
    BY <1>12, <1>13 DEF RowsInv

(* The rows that a command appends, with their numbers.                    *)
Fresh(new) == {[new[i] EXCEPT !.n = rows + i] : i \in DOMAIN new}

(* They have the next numbers, one each, and are otherwise what the        *)
(* command appends.                                                        *)
LEMMA FreshRows ==
  ASSUME RowsTyped, NEW new \in Seq(AnyRow), Append_(new)
  PROVE  /\ rows' \in Nat /\ rows' = rows + Len(new) /\ Len(new) \in Nat
         /\ dict_sql' = AppendedTo(dict_sql, Fresh(new))
         /\ \A i \in 1..Len(new) : [new[i] EXCEPT !.n = rows + i] \in Fresh(new)
         /\ \A r \in Fresh(new) : /\ r \in AnyRow /\ r.n \in rows + 1..rows'
                                  /\ \E i \in 1..Len(new) :
                                       r.n = rows + i /\ r.key = new[i].key /\ r.id = new[i].id
         /\ \A r, s \in Fresh(new) : r.n = s.n => r = s
         /\ \A n \in rows + 1..rows' : \E r \in Fresh(new) : r.n = n
  <1>1. /\ rows \in Nat /\ Len(new) \in Nat /\ DOMAIN new = 1..Len(new) /\ rows' = rows + Len(new)
        /\ dict_sql' = AppendedTo(dict_sql, Fresh(new))
        /\ \A i \in 1..Len(new) : new[i] \in AnyRow
    BY DEF RowsTyped, Append_, Fresh
  <1> DEFINE row(i) == [new[i] EXCEPT !.n = rows + i]
  <1>2. ASSUME NEW i \in 1..Len(new)
        PROVE  /\ row(i) \in AnyRow /\ row(i).n = rows + i
               /\ row(i).key = new[i].key /\ row(i).id = new[i].id
               /\ row(i).n \in rows + 1..rows'
    <2>1. new[i] \in AnyRow /\ rows + i \in Nat
      BY <1>1
    <2>2. row(i) \in AnyRow /\ row(i).n = rows + i /\ row(i).key = new[i].key /\ row(i).id = new[i].id
      BY <2>1 DEF AnyRow
    <2>3. QED
      BY <1>1, <2>2
  <1>3. \A r : r \in Fresh(new) <=> \E i \in 1..Len(new) : r = row(i)
    BY <1>1 DEF Fresh
  <1> HIDE DEF row
  <1>4. \A i \in 1..Len(new) : row(i) \in Fresh(new)
    BY <1>3
  <1>5. \A r \in Fresh(new) : /\ r \in AnyRow /\ r.n \in rows + 1..rows'
                              /\ \E i \in 1..Len(new) :
                                   r.n = rows + i /\ r.key = new[i].key /\ r.id = new[i].id
    BY <1>2, <1>3
  <1>6. \A r, s \in Fresh(new) : r.n = s.n => r = s
    <2> TAKE r, s \in Fresh(new)
    <2> HAVE r.n = s.n
    <2>1. PICK i \in 1..Len(new), j \in 1..Len(new) : r = row(i) /\ s = row(j)
      BY <1>3
    <2>2. rows + i = rows + j
      BY <1>2, <2>1
    <2>3. i = j
      BY <1>1, <2>2
    <2>4. QED
      BY <2>1, <2>3
  <1>7. \A n \in rows + 1..rows' : \E r \in Fresh(new) : r.n = n
    <2> TAKE n \in rows + 1..rows'
    <2>1. n - rows \in 1..Len(new) /\ rows + (n - rows) = n
      BY <1>1
    <2>2. row(n - rows) \in Fresh(new) /\ row(n - rows).n = n
      BY <1>2, <1>4, <2>1
    <2>3. QED
      BY <2>2
  <1>8. rows' \in Nat
    BY <1>1
  <1>9. QED
    BY <1>1, <1>4, <1>5, <1>6, <1>7, <1>8 DEF row

(* append_sql adds rows to statements of the dict, and to no other place.  *)
LEMMA AppendKeeps ==
  ASSUME RowsInv, NEW new \in Seq(AnyRow), Append_(new),
         UNCHANGED <<job, tables, lost, refused, repeated>>
  PROVE  RowsInv' /\ AllRows' \subseteq AllRows \cup Fresh(new)
  <1>1. PICK F : F = Fresh(new)
    OBVIOUS
  <1>2. /\ rows \in Nat /\ rows' \in Nat /\ rows <= rows'
        /\ dict_sql' = AppendedTo(dict_sql, F)
        /\ \A r \in F : r \in AnyRow /\ r.key \in Keys /\ r.n \in rows + 1..rows'
        /\ \A r, s \in F : r.n = s.n => r = s
        /\ \A n \in rows + 1..rows' : \E r \in F : r.n = n
    <2>1. RowsTyped /\ rows \in Nat
      BY DEF RowsInv, RowsTyped
    <2>2. /\ rows' \in Nat /\ rows' = rows + Len(new) /\ Len(new) \in Nat
          /\ dict_sql' = AppendedTo(dict_sql, F)
          /\ \A r \in F : r \in AnyRow /\ r.n \in rows + 1..rows'
          /\ \A r, s \in F : r.n = s.n => r = s
          /\ \A n \in rows + 1..rows' : \E r \in F : r.n = n
      BY <1>1, <2>1, FreshRows
    <2>3. \A r \in AnyRow : r.key \in Keys
      BY DEF AnyRow
    <2>4. QED
      BY <2>1, <2>2, <2>3
  <1>3. /\ DOMAIN dict_sql' = DOMAIN dict_sql \cup {r.key : r \in F}
        /\ \A key \in DOMAIN dict_sql' : \A r : r \in dict_sql'[key] <=>
             \/ key \in DOMAIN dict_sql /\ r \in dict_sql[key]
             \/ r \in F /\ r.key = key
    BY <1>2 DEF AppendedTo
  <1>4. Running' = Running
    BY DEF Running
  <1>5. \A p : /\ p \in Held => p \in Held'
               /\ p \in Held' /\ p \notin Held => \E r \in F : p = <<"statement", r.key>>
    BY <1>3, <1>4, HeldPlaces DEF HeldIs
  <1>6. \A r \in F : <<"statement", r.key>> \in Held'
    BY <1>3, HeldPlaces DEF HeldIs
  <1>7. ASSUME NEW p \in Held', NEW r
        PROVE  /\ r \in RowsAt(p)' <=> \/ p \in Held /\ r \in RowsAt(p)
                                       \/ r \in F /\ p = <<"statement", r.key>>
               /\ KeyAt(p)' = KeyAt(p)
    <2>1. CASE \E key \in DOMAIN dict_sql' : p = <<"statement", key>>
      <3>1. PICK key \in DOMAIN dict_sql' : p = <<"statement", key>>
        BY <2>1
      <3>2. /\ RowsAt(p) = dict_sql[key] /\ RowsAt(p)' = dict_sql'[key]
            /\ KeyAt(p) = key /\ KeyAt(p)' = key
        BY <3>1, RowsOfPlaces DEF RowsAre
      <3>3. p \in Held <=> key \in DOMAIN dict_sql
        BY <3>1, HeldPlaces DEF HeldIs
      <3>4. p = <<"statement", r.key>> <=> r.key = key
        BY <3>1
      <3>5. QED
        BY <1>3, <3>2, <3>3, <3>4
    <2>2. CASE \E x : p = <<"request", x>> \/ p = <<"thread", x>>
      <3>1. \A x : /\ RowsAt(<<"request", x>>)' = RowsAt(<<"request", x>>)
                   /\ KeyAt(<<"request", x>>)' = KeyAt(<<"request", x>>)
                   /\ RowsAt(<<"thread", x>>)' = RowsAt(<<"thread", x>>)
                   /\ KeyAt(<<"thread", x>>)' = KeyAt(<<"thread", x>>)
        BY DEF RowsAt, KeyAt
      <3>2. RowsAt(p)' = RowsAt(p) /\ KeyAt(p)' = KeyAt(p)
        BY <2>2, <3>1
      <3>3. p # <<"statement", r.key>> /\ p \in Held
        BY <1>5, <2>2
      <3>4. QED
        BY <3>2, <3>3
    <2>3. QED
      BY <2>1, <2>2, HeldPlaces DEF HeldIs
  <1>8. Taken' = Taken /\ \A q \in Taken : RowsAt(q)' = RowsAt(q) /\ KeyAt(q)' = KeyAt(q)
    <2>1. \A q : q \in Taken' <=> q \in Taken
      BY TakenPlaces DEF TakenIs
    <2>2. \A key, i : /\ RowsAt(<<"table", key, i>>)' = RowsAt(<<"table", key, i>>)
                      /\ KeyAt(<<"table", key, i>>)' = KeyAt(<<"table", key, i>>)
      BY DEF RowsAt, KeyAt
    <2>3. \A q \in Taken : \E key, i : q = <<"table", key, i>>
      BY TakenPlaces DEF TakenIs
    <2>4. \A q \in Taken : RowsAt(q)' = RowsAt(q) /\ KeyAt(q)' = KeyAt(q)
      BY <2>2, <2>3
    <2>5. QED
      BY <2>1, <2>4
  <1>9. \A p \in Held \cup Taken : \A r \in RowsAt(p) : r.n \in 1..rows /\ r.key = KeyAt(p)
    BY DEF RowsInv, RowsPlaced, RowsKnown
  <1>10. \A n \in 1..rows : n \in 1..rows' /\ n \notin rows + 1..rows'
    BY <1>2
  <1>11. RowsKnown'
    <2>1. ASSUME NEW p \in Held', NEW r \in RowsAt(p)'
          PROVE  r.n \in 1..rows' /\ r.key = KeyAt(p)'
      <3>1. CASE p \in Held /\ r \in RowsAt(p)
        BY <1>7, <1>9, <1>10, <3>1
      <3>2. CASE r \in F /\ p = <<"statement", r.key>>
        <4>1. KeyAt(p) = r.key
          BY <3>2, RowsOfPlaces DEF RowsAre
        <4>2. r.n \in 1..rows'
          BY <1>2, <3>2
        <4>3. QED
          BY <1>7, <4>1, <4>2
      <3>3. QED
        BY <1>7, <3>1, <3>2
    <2>2. ASSUME NEW p \in Taken', NEW r \in RowsAt(p)'
          PROVE  r.n \in 1..rows' /\ r.key = KeyAt(p)'
      BY <1>8, <1>9, <1>10
    <2>3. QED
      BY <2>1, <2>2 DEF RowsKnown
  <1>12. HeldOnce'
    <2>1. ASSUME NEW p \in Held', NEW q \in Held', NEW r \in RowsAt(p)', NEW s \in RowsAt(q)', r.n = s.n
          PROVE  p = q
      <3>1. CASE p \in Held /\ r \in RowsAt(p) /\ q \in Held /\ s \in RowsAt(q)
        <4>1. Share(RowsAt(p), RowsAt(q))
          BY <2>1, <3>1, NumbersOf DEF Share
        <4>2. QED
          BY <3>1, <4>1 DEF RowsInv, RowsPlaced, HeldOnce
      <3>2. CASE r \in F /\ p = <<"statement", r.key>> /\ s \in F /\ q = <<"statement", s.key>>
        BY <1>2, <2>1, <3>2
      <3>3. CASE p \in Held /\ r \in RowsAt(p) /\ s \in F
        BY <1>2, <1>9, <1>10, <2>1, <3>3
      <3>4. CASE q \in Held /\ s \in RowsAt(q) /\ r \in F
        BY <1>2, <1>9, <1>10, <2>1, <3>4
      <3>5. QED
        BY <1>7, <3>1, <3>2, <3>3, <3>4
    <2>2. ASSUME NEW p \in Held', NEW q \in Held', Share(RowsAt(p)', RowsAt(q)')
          PROVE  p = q
      <3>1. PICK r \in RowsAt(p)', s \in RowsAt(q)' : r.n = s.n
        BY <2>2, NumbersOf DEF Share
      <3>2. QED
        BY <2>1, <3>1
    <2>3. QED
      BY <2>2 DEF HeldOnce, Share, Numbers
  <1>13. TakenAgain'
    <2>1. ASSUME NEW p \in Held', NEW q \in Taken, Share(RowsAt(p)', RowsAt(q))
          PROVE  p[1] = "thread" /\ RowsAt(p)' = RowsAt(q) /\ RowsAt(p)' \subseteq repeated
      <3>1. PICK r \in RowsAt(p)', s \in RowsAt(q) : r.n = s.n
        BY <2>1, NumbersOf DEF Share
      <3>2. r \notin F
        BY <1>2, <1>9, <1>10, <3>1
      <3>3. p \in Held /\ r \in RowsAt(p)
        BY <1>7, <3>1, <3>2
      <3>4. Share(RowsAt(p), RowsAt(q))
        BY <3>1, <3>3, NumbersOf DEF Share
      <3>5. p[1] = "thread" /\ RowsAt(p) = RowsAt(q) /\ RowsAt(p) \subseteq repeated
        BY <3>3, <3>4 DEF RowsInv, RowsPlaced, TakenAgain
      <3>6. RowsAt(p)' = RowsAt(p)
        <4>1. \A x : p # <<"statement", x>>
          BY <3>5
        <4>2. \A x : x \in RowsAt(p)' <=> x \in RowsAt(p)
          BY <1>7, <3>3, <4>1
        <4>3. \E x : p = <<"thread", x>>
          BY <3>3, <3>5, HeldPlaces DEF HeldIs
        <4>4. RowsAt(p)' = RowsAt(p)
          BY <4>3 DEF RowsAt
        <4>5. QED
          BY <4>4
      <3>7. QED
        BY <3>5, <3>6
    <2>2. QED
      BY <1>8, <2>1 DEF TakenAgain, Share, Numbers
  <1>14. TakenTwice'
    BY <1>8 DEF RowsInv, RowsPlaced, TakenTwice, Numbers
  <1>15. AllSomewhere'
    <2>1. ASSUME NEW n \in 1..rows', n \notin Numbers(lost \cup refused)
          PROVE  \E p \in Held' \cup Taken' : n \in Numbers(RowsAt(p)')
      <3>1. CASE n \in 1..rows
        <4>1. PICK p \in Held \cup Taken : n \in Numbers(RowsAt(p))
          BY <2>1, <3>1 DEF RowsInv, RowsPlaced, AllSomewhere
        <4>2. PICK r \in RowsAt(p) : r.n = n
          BY <4>1, NumbersOf
        <4>3. p \in Held' \cup Taken' /\ r \in RowsAt(p)'
          BY <1>5, <1>7, <1>8, <4>2
        <4>4. QED
          BY <4>2, <4>3, NumbersOf
      <3>2. CASE n \in rows + 1..rows'
        <4>1. PICK r \in F : r.n = n
          BY <1>2, <3>2
        <4>2. <<"statement", r.key>> \in Held'
          BY <1>6
        <4>3. PICK p \in Held' : p = <<"statement", r.key>>
          BY <4>2
        <4>4. r \in RowsAt(p)'
          BY <1>7, <4>1, <4>3
        <4>5. QED
          BY <4>1, <4>4, NumbersOf
      <3>3. QED
        BY <1>2, <3>1, <3>2
    <2>2. QED
      BY <2>1 DEF AllSomewhere, Numbers
  <1>16. RowsTyped'
    <2>1. DOMAIN dict_sql' \subseteq Keys
      BY <1>2, <1>3 DEF RowsInv, RowsTyped
    <2>2. dict_sql' \in [DOMAIN dict_sql' -> SUBSET AnyRow]
      <3>1. \A key \in DOMAIN dict_sql : dict_sql[key] \in SUBSET AnyRow
        BY DEF RowsInv, RowsTyped
      <3>2. \A key \in DOMAIN dict_sql' : dict_sql'[key] \in SUBSET AnyRow
        BY <1>2, <1>3, <3>1
      <3>3. dict_sql' = [key \in DOMAIN dict_sql' |-> dict_sql'[key]]
        BY <1>2 DEF AppendedTo
      <3>4. QED
        BY <3>2, <3>3
    <2>3. QED
      BY <1>2, <2>1, <2>2 DEF RowsInv, RowsTyped
  <1>17. AllRows' \subseteq AllRows \cup F
    <2>1. ASSUME NEW p \in Held' \cup Taken', NEW r \in RowsAt(p)'
          PROVE  r \in F \/ \E q \in Held \cup Taken : r \in RowsAt(q)
      <3>1. CASE p \in Held'
        BY <1>7, <3>1
      <3>2. CASE p \in Taken'
        BY <1>8, <3>2
      <3>3. QED
        BY <3>1, <3>2
    <2>2. QED
      BY <2>1 DEF AllRows
  <1>18. QED
    BY <1>1, <1>11, <1>12, <1>13, <1>14, <1>15, <1>16, <1>17 DEF RowsInv, RowsPlaced

-------------------------------------------------------------------------------
(* The ids of the orders, and the rows that have them for a key. Every     *)
(* state of the operation log has open orders with ids up to its own, no   *)
(* more than there are now.                                                *)
OpenOrders(open, n) ==
    /\ n \in Nat /\ DOMAIN open \subseteq 1..n
    /\ open \in [DOMAIN open -> [user : Users, dealt : BOOLEAN]]

IdsTyped ==
    /\ OpenOrders(orders, ids)
    /\ \A at \in log : OpenOrders(at.orders, at.ids) /\ at.ids <= ids

(* Until an id is given again, a row with an order for its key is of an    *)
(* order that is over, no other row has that key, and nothing was refused. *)
KeysOnce ==
    again = {} =>
        /\ \A r \in AllRows : PrimaryKey(r.key) => r.id \in 1..ids /\ r.id \notin DOMAIN orders
        /\ \A r, s \in AllRows : PrimaryKey(r.key) /\ r.key = s.key /\ r.id = s.id => r = s
        /\ refused = {}

IdsInv == IdsTyped /\ KeysOnce

(* Rows of a command, of which those with a primary key have ids of F.     *)
Fit(new, F) ==
    /\ new \in Seq(AnyRow)
    /\ \A i \in 1..Len(new) : PrimaryKey(new[i].key) => new[i].id \in F
    /\ \A i, j \in 1..Len(new) :
         PrimaryKey(new[i].key) /\ new[i].key = new[j].key /\ new[i].id = new[j].id => i = j

(* A row is for the table of its type that its number is hashed to.        *)
LEMMA RowTyped ==
  ASSUME NEW type \in ToSet(Types), NEW hashed \in Nat, NEW user \in Nat, NEW id \in Nat
  PROVE  /\ Row(type, hashed, user, id) \in AnyRow
         /\ Row(type, hashed, user, id).key[1] = type
         /\ Row(type, hashed, user, id).id = id
  <1>1. HISTORY_HASH_NUM \in Nat \ {0}
    BY OutputAssumption
  <1>2. hashed % HISTORY_HASH_NUM \in 0..HISTORY_HASH_NUM - 1
    BY <1>1
  <1>3. <<type, hashed % HISTORY_HASH_NUM>> \in Keys
    BY <1>2 DEF Keys
  <1>4. QED
    BY <1>3 DEF Row, AnyRow

(* The types of the tables that rows are for.                              *)
LEMMA TypesAre ==
  /\ "user_balance" \in ToSet(Types) /\ "user_order" \in ToSet(Types) /\ "user_deal" \in ToSet(Types)
  /\ "order_detail" \in ToSet(Types) /\ "order_deal" \in ToSet(Types)
  <1>1. DOMAIN Types = 1..5 /\ Types[1] = "user_balance" /\ Types[2] = "user_order"
        /\ Types[3] = "user_deal" /\ Types[4] = "order_detail" /\ Types[5] = "order_deal"
    BY DEF Types
  <1>2. QED
    BY <1>1 DEF ToSet

(* Rows of different orders, one batch after the other.                    *)
LEMMA FitTogether ==
  ASSUME NEW s, NEW t, NEW F, NEW G, Fit(s, F), Fit(t, G), F \cap G = {}
  PROVE  Fit(s \o t, F \cup G)
  <1> DEFINE u == s \o t
             m == Len(s)
             n == Len(t)
  <1>1. /\ s \in Seq(AnyRow) /\ t \in Seq(AnyRow) /\ m \in Nat /\ n \in Nat
        /\ u \in Seq(AnyRow) /\ Len(u) = m + n
        /\ \A i \in 1..m + n : u[i] = IF i <= m THEN s[i] ELSE t[i - m]
    BY ConcatProperties, LenProperties DEF Fit
  <1> HIDE DEF u, m, n
  <1>2. ASSUME NEW i \in 1..m + n
        PROVE  \/ i \in 1..m /\ u[i] = s[i]
               \/ i - m \in 1..n /\ u[i] = t[i - m]
    BY <1>1
  <1>3. /\ \A i \in 1..m : PrimaryKey(s[i].key) => s[i].id \in F
        /\ \A i \in 1..n : PrimaryKey(t[i].key) => t[i].id \in G
        /\ \A i, j \in 1..m : PrimaryKey(s[i].key) /\ s[i].key = s[j].key /\ s[i].id = s[j].id => i = j
        /\ \A i, j \in 1..n : PrimaryKey(t[i].key) /\ t[i].key = t[j].key /\ t[i].id = t[j].id => i = j
    BY DEF Fit, m, n
  <1>4. ASSUME NEW i \in 1..m + n, PrimaryKey(u[i].key)
        PROVE  u[i].id \in F \cup G
    BY <1>2, <1>3, <1>4
  <1>5. ASSUME NEW i \in 1..m + n, NEW j \in 1..m + n,
               PrimaryKey(u[i].key), u[i].key = u[j].key, u[i].id = u[j].id
        PROVE  i = j
    <2>1. CASE i \in 1..m /\ u[i] = s[i] /\ j \in 1..m /\ u[j] = s[j]
      BY <1>3, <1>5, <2>1
    <2>2. CASE i - m \in 1..n /\ u[i] = t[i - m] /\ j - m \in 1..n /\ u[j] = t[j - m]
      <3>1. i - m = j - m
        BY <1>3, <1>5, <2>2
      <3>2. QED
        BY <1>1, <3>1
    <2>3. CASE i \in 1..m /\ u[i] = s[i] /\ j - m \in 1..n /\ u[j] = t[j - m]
      BY <1>3, <1>5, <2>3
    <2>4. CASE i - m \in 1..n /\ u[i] = t[i - m] /\ j \in 1..m /\ u[j] = s[j]
      BY <1>3, <1>5, <2>4
    <2>5. QED
      BY <1>2, <2>1, <2>2, <2>3, <2>4
  <1>6. QED
    BY <1>1, <1>4, <1>5 DEF Fit, u

(* No rows.                                                                *)
LEMMA FitNothing == Fit(<<>>, {})
  <1>1. <<>> \in Seq(AnyRow) /\ Len(<<>>) = 0
    OBVIOUS
  <1>2. 1..0 = {}
    OBVIOUS
  <1>3. QED
    BY <1>1, <1>2 DEF Fit

(* A row of a balance has no order for its key.                            *)
LEMMA FitBalance ==
  ASSUME NEW user \in Nat
  PROVE  Fit(append_user_balance_history(user), {})
  <1> DEFINE r == Row("user_balance", user, user, 0)
  <1>1. r \in AnyRow /\ r.key[1] = "user_balance"
    BY RowTyped, TypesAre
  <1> HIDE DEF r
  <1>2. <<r>> \in Seq(AnyRow) /\ Len(<<r>>) = 1 /\ <<r>>[1] = r
    BY <1>1
  <1>3. ~PrimaryKey(r.key)
    BY <1>1 DEF PrimaryKey
  <1>4. Fit(<<r>>, {})
    BY <1>2, <1>3 DEF Fit
  <1>5. QED
    BY <1>4 DEF append_user_balance_history, r

(* The two rows of an order have it for their key, in two tables.          *)
LEMMA FitOrder ==
  ASSUME NEW id \in Nat, NEW user \in Nat
  PROVE  Fit(append_order_history(id, user), {id})
  <1> DEFINE r == Row("user_order", user, user, id)
             s == Row("order_detail", id, user, id)
  <1>1. /\ r \in AnyRow /\ r.key[1] = "user_order" /\ r.id = id
        /\ s \in AnyRow /\ s.key[1] = "order_detail" /\ s.id = id
    <2>1. r \in AnyRow /\ r.key[1] = "user_order" /\ r.id = id
      BY RowTyped, TypesAre
    <2>2. s \in AnyRow /\ s.key[1] = "order_detail" /\ s.id = id
      BY RowTyped, TypesAre
    <2> HIDE DEF r, s
    <2>3. QED
      BY <2>1, <2>2
  <1> HIDE DEF r, s
  <1>2. <<r, s>> \in Seq(AnyRow) /\ Len(<<r, s>>) = 2 /\ <<r, s>>[1] = r /\ <<r, s>>[2] = s
    BY <1>1
  <1>3. r.key # s.key
    BY <1>1
  <1>4. \A i \in 1..2 : i = 1 \/ i = 2
    OBVIOUS
  <1>5. Fit(<<r, s>>, {id})
    BY <1>1, <1>2, <1>3, <1>4 DEF Fit
  <1>6. QED
    BY <1>5 DEF append_order_history, r, s

(* The rows of a deal have no order for their key.                         *)
LEMMA FitDeal ==
  ASSUME NEW ask \in Nat, NEW ask_user \in Nat, NEW bid \in Nat, NEW bid_user \in Nat
  PROVE  Fit(append_order_deal_history(ask, ask_user, bid, bid_user), {})
  <1> DEFINE a == Row("order_deal", ask, ask_user, ask)
             b == Row("order_deal", bid, bid_user, bid)
             c == Row("user_deal", ask_user, ask_user, ask)
             d == Row("user_deal", bid_user, bid_user, bid)
  <1>1. /\ a \in AnyRow /\ a.key[1] = "order_deal" /\ b \in AnyRow /\ b.key[1] = "order_deal"
        /\ c \in AnyRow /\ c.key[1] = "user_deal" /\ d \in AnyRow /\ d.key[1] = "user_deal"
    <2>1. a \in AnyRow /\ a.key[1] = "order_deal"
      BY RowTyped, TypesAre
    <2>2. b \in AnyRow /\ b.key[1] = "order_deal"
      BY RowTyped, TypesAre
    <2>3. c \in AnyRow /\ c.key[1] = "user_deal"
      BY RowTyped, TypesAre
    <2>4. d \in AnyRow /\ d.key[1] = "user_deal"
      BY RowTyped, TypesAre
    <2> HIDE DEF a, b, c, d
    <2>5. QED
      BY <2>1, <2>2, <2>3, <2>4
  <1> HIDE DEF a, b, c, d
  <1>2. ~PrimaryKey(a.key) /\ ~PrimaryKey(b.key) /\ ~PrimaryKey(c.key) /\ ~PrimaryKey(d.key)
    BY <1>1 DEF PrimaryKey
  <1>3. /\ <<a, b, c, d>> \in Seq(AnyRow) /\ Len(<<a, b, c, d>>) = 4
        /\ <<a, b, c, d>>[1] = a /\ <<a, b, c, d>>[2] = b
        /\ <<a, b, c, d>>[3] = c /\ <<a, b, c, d>>[4] = d
    BY <1>1
  <1>4. \A i \in 1..4 : i = 1 \/ i = 2 \/ i = 3 \/ i = 4
    OBVIOUS
  <1>5. Fit(<<a, b, c, d>>, {})
    BY <1>2, <1>3, <1>4 DEF Fit
  <1>6. QED
    BY <1>5 DEF append_order_deal_history, a, b, c, d

(* All rows of a deal: only the orders that it finishes are keys.          *)
LEMMA FitDealRows ==
  ASSUME NEW taker \in Nat, NEW user \in Nat, NEW maker \in DOMAIN orders, maker \in Nat,
         orders[maker].user \in Nat, taker # maker, NEW rest \in BOOLEAN
  PROVE  Fit(DealRows(taker, user, maker, rest), IF rest THEN {maker} ELSE {maker, taker})
  <1> DEFINE other == orders[maker].user
             last == IF rest THEN <<>> ELSE append_order_history(taker, user)
             G == IF rest THEN {} ELSE {taker}
             a == append_order_deal_history(taker, user, maker, other)
             b == append_user_balance_history(user)
             c == append_user_balance_history(other)
             d == append_order_history(maker, other)
  <1>1. Fit(a, {}) /\ Fit(b, {}) /\ Fit(c, {}) /\ Fit(d, {maker})
    BY FitDeal, FitBalance, FitOrder
  <1>2. Fit(last, G)
    BY FitNothing, FitOrder
  <1>3. DealRows(taker, user, maker, rest) = a \o b \o c \o d \o last
    BY DEF DealRows
  <1>4. {} \cup {} = {} /\ {} \cup {maker} = {maker} /\ {maker} \cap G = {}
        /\ {maker} \cup G = IF rest THEN {maker} ELSE {maker, taker}
    OBVIOUS
  <1> HIDE DEF other, last, G, a, b, c, d
  <1>5. Fit(a \o b, {})
    <2>1. Fit(a \o b, {} \cup {})
      BY <1>1, FitTogether
    <2>2. QED
      BY <1>4, <2>1
  <1>6. Fit(a \o b \o c, {})
    <2>1. Fit(a \o b \o c, {} \cup {})
      BY <1>1, <1>5, FitTogether
    <2>2. QED
      BY <1>4, <2>1
  <1>7. Fit(a \o b \o c \o d, {maker})
    <2>1. Fit(a \o b \o c \o d, {} \cup {maker})
      BY <1>1, <1>6, FitTogether
    <2>2. QED
      BY <1>4, <2>1
  <1>8. Fit(a \o b \o c \o d \o last, {maker} \cup G)
    BY <1>2, <1>4, <1>7, FitTogether
  <1>9. QED
    BY <1>3, <1>4, <1>8

(* A step that appends no row and gives no id keeps the ids apart.         *)
LEMMA IdsStand ==
  ASSUME IdsInv, UNCHANGED <<engine, again>>, AllRows' \subseteq AllRows,
         again = {} => refused' = refused
  PROVE  IdsInv'
  <1>1. orders' = orders /\ ids' = ids /\ log' = log /\ again' = again
    BY DEF engine
  <1>2. IdsTyped'
    BY <1>1 DEF IdsInv, IdsTyped, OpenOrders
  <1>3. KeysOnce'
    <2>1. ASSUME again = {}
          PROVE  /\ \A r \in AllRows' : PrimaryKey(r.key) => r.id \in 1..ids /\ r.id \notin DOMAIN orders
                 /\ \A r, s \in AllRows' : PrimaryKey(r.key) /\ r.key = s.key /\ r.id = s.id => r = s
                 /\ refused' = {}
      BY <2>1 DEF IdsInv, KeysOnce
    <2>2. QED
      BY <1>1, <2>1 DEF KeysOnce, PrimaryKey
  <1>4. QED
    BY <1>2, <1>3 DEF IdsInv

(* Unless an id was given again, a statement that is refused is stored.    *)
LEMMA RefusedIsStored ==
  ASSUME RowsInv, IdsInv, again = {}, NEW t \in Running, NEW e \in Entry,
         e = job.running[t][1], Duplicate(e)
  PROVE  e.rows \subseteq Stored(e.key)
  <1> DEFINE p0 == <<"thread", t>>
  <1>1. /\ p0 \in Held /\ RowsAt(p0) = e.rows /\ KeyAt(p0) = e.key
        /\ tables \in [Keys -> Seq(SUBSET AnyRow)] /\ e.key \in Keys
    <2>1. p0 \in Held
      BY HeldPlaces DEF HeldIs
    <2>2. RowsAt(p0) = e.rows /\ KeyAt(p0) = e.key
      BY RowsOfPlaces DEF RowsAre
    <2>3. QED
      BY <2>1, <2>2 DEF RowsInv, RowsTyped, Entry
  <1>2. \A r \in e.rows : r \in AllRows /\ r.key = e.key
    BY <1>1 DEF RowsInv, RowsPlaced, RowsKnown, AllRows
  <1>3. /\ PrimaryKey(e.key)
        /\ \A r, s \in AllRows : PrimaryKey(r.key) /\ r.key = s.key /\ r.id = s.id => r = s
    BY DEF IdsInv, KeysOnce, Duplicate
  <1>4. PICK r \in e.rows, s \in Stored(e.key) : r.id = s.id
    <2>1. ~\E r, s \in e.rows : r # s /\ r.id = s.id
      BY <1>2, <1>3
    <2>2. PICK x : x \in Ids(e.rows) \cap Ids(Stored(e.key))
      BY <2>1 DEF Duplicate
    <2>3. QED
      BY <2>2 DEF Ids
  <1>5. PICK i \in DOMAIN tables[e.key] : s \in tables[e.key][i]
    BY <1>1, StoredPlaces
  <1> DEFINE q == <<"table", e.key, i>>
  <1>6. q \in Taken /\ RowsAt(q) = tables[e.key][i] /\ KeyAt(q) = e.key
    <2>1. q \in Taken
      BY <1>1, TakenPlaces DEF TakenIs
    <2>2. RowsAt(q) = tables[e.key][i] /\ KeyAt(q) = e.key
      BY RowsOfPlaces DEF RowsAre
    <2>3. QED
      BY <2>1, <2>2
  <1> HIDE DEF p0, q
  <1>7. s \in AllRows /\ s.key = e.key
    BY <1>5, <1>6 DEF RowsInv, RowsPlaced, RowsKnown, AllRows
  <1>8. r = s
    BY <1>2, <1>3, <1>4, <1>7
  <1>9. Share(RowsAt(p0), RowsAt(q))
    <2>1. r \in RowsAt(p0) /\ r \in RowsAt(q)
      BY <1>1, <1>4, <1>5, <1>6, <1>8
    <2>2. r.n \in Numbers(RowsAt(p0)) /\ r.n \in Numbers(RowsAt(q))
      BY <2>1 DEF Numbers
    <2>3. QED
      BY <2>2 DEF Share
  <1>10. e.rows = tables[e.key][i]
    BY <1>1, <1>6, <1>9 DEF RowsInv, RowsPlaced, TakenAgain
  <1>11. QED
    <2>1. \A x : x \in tables[e.key][i] => x \in Stored(e.key)
      BY <1>1, StoredPlaces
    <2>2. QED
      BY <1>10, <2>1

(* on_job: while no id was given again, error 1062 drops nothing.          *)
LEMMA HistoryJobIds ==
  ASSUME RowsInv, IdsInv, NEW t \in Thread, on_history_job(t)
  PROVE  IdsInv'
  <1>1. /\ t \in Running /\ job \in HistoryJobs /\ UNCHANGED <<engine, again>>
    BY DEF on_history_job, RowsInv, RowsTyped
  <1>2. PICK e \in Entry : e = job.running[t][1]
    BY <1>1, JobFields
  <1>3. \/ refused' = refused \cup (IF Duplicate(e) THEN e.rows \ Stored(e.key) ELSE {})
        \/ refused' = refused
    BY <1>2 DEF on_history_job
  <1>4. again = {} => refused' = refused
    <2>1. ASSUME again = {}, Duplicate(e)
          PROVE  e.rows \ Stored(e.key) = {}
      BY <1>1, <1>2, <2>1, RefusedIsStored
    <2>2. QED
      BY <1>3, <2>1
  <1>5. AllRows' \subseteq AllRows
    BY HistoryJobKeeps
  <1>6. QED
    BY <1>1, <1>4, <1>5, IdsStand

(* A restart to what the log has: no id is free that was not before, or    *)
(* it is noted.                                                            *)
LEMMA RestartIds ==
  ASSUME RowsInv, IdsInv, NEW at \in log, Restarted(at)
  PROVE  IdsInv'
  <1>1. /\ orders' = at.orders /\ ids' = at.ids /\ log' = {at} /\ refused' = refused
        /\ again' = again \cup (at.ids + 1)..ids \cup (DOMAIN at.orders \ DOMAIN orders)
    BY DEF Restarted
  <1>2. /\ OpenOrders(orders, ids) /\ OpenOrders(at.orders, at.ids) /\ at.ids <= ids
        /\ ids \in Nat /\ at.ids \in Nat
    BY DEF IdsInv, IdsTyped, OpenOrders
  <1>3. IdsTyped'
    <2>1. OpenOrders(at.orders, at.ids) /\ at.ids <= at.ids
      BY <1>2
    <2>2. QED
      BY <1>1, <2>1 DEF IdsTyped, OpenOrders
  <1>4. AllRows' \subseteq AllRows
    BY RestartKeeps
  <1>5. KeysOnce'
    <2>1. ASSUME again' = {}
          PROVE  again = {} /\ at.ids = ids /\ DOMAIN at.orders \subseteq DOMAIN orders
      <3>1. (at.ids + 1)..ids = {}
        BY <1>1, <2>1
      <3>2. ~(at.ids < ids)
        <4>1. ASSUME at.ids < ids PROVE FALSE
          <5>1. ids \in (at.ids + 1)..ids
            BY <1>2, <4>1
          <5>2. QED
            BY <3>1, <5>1
        <4>2. QED
          BY <4>1
      <3>3. QED
        BY <1>1, <1>2, <2>1, <3>2
    <2>2. ASSUME again' = {}
          PROVE  /\ \A r \in AllRows' : PrimaryKey(r.key) => r.id \in 1..at.ids /\ r.id \notin DOMAIN at.orders
                 /\ \A r, s \in AllRows' : PrimaryKey(r.key) /\ r.key = s.key /\ r.id = s.id => r = s
                 /\ refused' = {}
      BY <1>1, <1>4, <2>1, <2>2 DEF IdsInv, KeysOnce
    <2>3. QED
      BY <1>1, <2>2 DEF KeysOnce, PrimaryKey
  <1>6. QED
    BY <1>3, <1>5 DEF IdsInv

(* A command takes an order from the market before it appends the rows     *)
(* that have its id.                                                       *)
LEMMA CommandKeepsRows ==
  ASSUME RowsInv, IdsInv, NEW new, NEW topics, NEW F, Fit(new, F), Command(new, topics),
         OpenOrders(orders', ids'), ids <= ids',
         \A id \in DOMAIN orders' : id \in DOMAIN orders \/ id > ids,
         \A id \in F : id \in 1..ids' /\ id \notin DOMAIN orders' /\ (id \in DOMAIN orders \/ id > ids)
  PROVE  RowsInv' /\ IdsInv'
  <1>1. /\ new \in Seq(AnyRow) /\ Append_(new) /\ UNCHANGED historyVars /\ again' = again
        /\ log' = log \cup {[orders |-> orders', ids |-> ids']}
    BY DEF Fit, Command
  <1>2. UNCHANGED <<job, tables, lost, refused, repeated>>
    BY <1>1 DEF historyVars
  <1>3. RowsInv' /\ AllRows' \subseteq AllRows \cup Fresh(new)
    BY <1>1, <1>2, AppendKeeps
  <1>4. /\ OpenOrders(orders, ids) /\ ids \in Nat /\ ids' \in Nat
        /\ \A at \in log : OpenOrders(at.orders, at.ids) /\ at.ids <= ids /\ at.ids \in Nat
    BY DEF IdsInv, IdsTyped, OpenOrders
  <1>5. PICK n, open : n = ids' /\ open = orders'
    OBVIOUS
  <1>6. IdsTyped'
    <2>1. \A at \in log' : OpenOrders(at.orders, at.ids) /\ at.ids <= n
      <3> TAKE at \in log'
      <3>1. CASE at \in log
        BY <1>4, <1>5, <3>1
      <3>2. CASE at = [orders |-> open, ids |-> n]
        BY <1>4, <1>5, <3>2
      <3>3. QED
        BY <1>1, <1>5, <3>1, <3>2
    <2>2. QED
      BY <1>5, <2>1 DEF IdsTyped, OpenOrders
  <1>7. KeysOnce'
    <2>1. ASSUME again = {}
          PROVE  /\ \A r \in AllRows : PrimaryKey(r.key) => r.id \in 1..ids /\ r.id \notin DOMAIN orders
                 /\ \A r, s \in AllRows : PrimaryKey(r.key) /\ r.key = s.key /\ r.id = s.id => r = s
                 /\ refused = {}
      BY <2>1 DEF IdsInv, KeysOnce
    <2>2. /\ rows \in Nat
          /\ \A r \in Fresh(new) : \E i \in 1..Len(new) :
               r.n = rows + i /\ r.key = new[i].key /\ r.id = new[i].id
          /\ \A r, s \in Fresh(new) : r.n = s.n => r = s
      <3>1. RowsTyped /\ rows \in Nat
        BY DEF RowsInv, RowsTyped
      <3>2. QED
        BY <1>1, <3>1, FreshRows
    <2>3. \A r \in Fresh(new) : PrimaryKey(r.key) => r.id \in F
      BY <2>2 DEF Fit
    <2>4. ASSUME NEW r \in Fresh(new), NEW s \in Fresh(new), PrimaryKey(r.key), r.key = s.key, r.id = s.id
          PROVE  r = s
      <3>1. PICK i \in 1..Len(new) : r.n = rows + i /\ r.key = new[i].key /\ r.id = new[i].id
        BY <2>2
      <3>2. PICK j \in 1..Len(new) : s.n = rows + j /\ s.key = new[j].key /\ s.id = new[j].id
        BY <2>2
      <3>3. i = j
        BY <2>4, <3>1, <3>2 DEF Fit
      <3>4. QED
        BY <2>2, <3>1, <3>2, <3>3
    <2>5. ASSUME again = {}, NEW r \in AllRows, PrimaryKey(r.key)
          PROVE  r.id \in 1..n /\ r.id \notin DOMAIN open /\ r.id \notin F
      <3>1. r.id \in 1..ids /\ r.id \notin DOMAIN orders
        BY <2>1, <2>5
      <3>2. r.id \in 1..n /\ ~(r.id > ids)
        BY <1>4, <1>5, <3>1
      <3>3. QED
        BY <1>5, <3>1, <3>2
    <2>6. ASSUME again = {}, NEW r \in AllRows', PrimaryKey(r.key)
          PROVE  r.id \in 1..n /\ r.id \notin DOMAIN open
      <3>1. CASE r \in AllRows
        BY <2>5, <2>6, <3>1
      <3>2. CASE r \in Fresh(new)
        BY <1>5, <2>3, <2>6, <3>2
      <3>3. QED
        BY <1>3, <3>1, <3>2
    <2>7. ASSUME again = {}, NEW r \in AllRows', NEW s \in AllRows',
                 PrimaryKey(r.key), r.key = s.key, r.id = s.id
          PROVE  r = s
      <3>1. PrimaryKey(s.key)
        BY <2>7
      <3>2. CASE r \in AllRows /\ s \in AllRows
        BY <2>1, <2>7, <3>2
      <3>3. CASE r \in Fresh(new) /\ s \in Fresh(new)
        BY <2>4, <2>7, <3>3
      <3>4. CASE r \in AllRows /\ s \in Fresh(new)
        BY <2>3, <2>5, <2>7, <3>1, <3>4
      <3>5. CASE r \in Fresh(new) /\ s \in AllRows
        BY <2>3, <2>5, <2>7, <3>1, <3>5
      <3>6. QED
        BY <1>3, <3>2, <3>3, <3>4, <3>5
    <2>8. again = {} => refused' = {}
      BY <1>2, <2>1
    <2>9. QED
      BY <1>1, <1>5, <2>6, <2>7, <2>8 DEF KeysOnce, PrimaryKey
  <1>8. QED
    BY <1>3, <1>6, <1>7 DEF IdsInv

(* The commands: an order that leaves the market is not open any more, and *)
(* a new one has a number of its own.                                      *)
LEMMA CommandsKeep ==
  ASSUME RowsInv, IdsInv, update_user_balance \/ put_order \/ put_order_deal \/ cancel_order
  PROVE  RowsInv' /\ IdsInv'
  <1>1. /\ OpenOrders(orders, ids) /\ ids \in Nat /\ DOMAIN orders \subseteq 1..ids
        /\ Users \subseteq Nat
        /\ \A o \in DOMAIN orders : /\ orders[o] \in [user : Users, dealt : BOOLEAN]
                                    /\ o \in 1..ids /\ o \in Nat /\ orders[o].user \in Nat
    BY OutputAssumption DEF IdsInv, IdsTyped, OpenOrders
  <1>2. CASE update_user_balance
    <2>1. PICK user \in Users : /\ UNCHANGED <<orders, ids>>
                                /\ Command(append_user_balance_history(user), <<"balances">>)
      BY <1>2 DEF update_user_balance
    <2>2. Fit(append_user_balance_history(user), {})
      BY <1>1, FitBalance
    <2>3. OpenOrders(orders', ids') /\ ids <= ids' /\ \A id \in DOMAIN orders' : id \in DOMAIN orders \/ id > ids
      BY <1>1, <2>1 DEF OpenOrders
    <2>4. QED
      BY <2>1, <2>2, <2>3, CommandKeepsRows
  <1>3. CASE put_order
    <2>1. PICK user \in Users : /\ ids' = ids + 1
                                /\ orders' = With(orders, ids', Order(user, FALSE))
                                /\ Command(<<>>, <<"orders">>)
      BY <1>3 DEF put_order
    <2>2. /\ OpenOrders(orders', ids') /\ ids <= ids'
          /\ \A id \in DOMAIN orders' : id \in DOMAIN orders \/ id > ids
      <3>1. PICK n : n = ids' /\ n = ids + 1
        BY <2>1
      <3>2. orders' = [o \in DOMAIN orders \cup {n} |-> IF o = n THEN Order(user, FALSE) ELSE orders[o]]
        BY <2>1, <3>1 DEF With
      <3>3. Order(user, FALSE) \in [user : Users, dealt : BOOLEAN]
        BY DEF Order
      <3>4. DOMAIN orders' = DOMAIN orders \cup {n} /\ orders' \in [DOMAIN orders' -> [user : Users, dealt : BOOLEAN]]
        BY <1>1, <3>2, <3>3
      <3>5. \A o \in DOMAIN orders \cup {n} : o \in 1..n
        BY <1>1, <3>1
      <3>6. QED
        BY <1>1, <3>1, <3>4, <3>5 DEF OpenOrders
    <2>3. PICK new, F : new = <<>> /\ F = {}
      OBVIOUS
    <2>4. Fit(new, F) /\ Command(new, <<"orders">>)
      BY <2>1, <2>3, FitNothing
    <2>5. \A id \in F : id \in 1..ids' /\ id \notin DOMAIN orders' /\ (id \in DOMAIN orders \/ id > ids)
      BY <2>3
    <2>6. QED
      BY <2>2, <2>4, <2>5, CommandKeepsRows
  <1>4. CASE put_order_deal
    <2>1. PICK user \in Users, maker \in DOMAIN orders, rest \in BOOLEAN :
            /\ ids' = ids + 1
            /\ orders' = IF rest THEN With(Without(maker), ids', Order(user, TRUE)) ELSE Without(maker)
            /\ Command(DealRows(ids', user, maker, rest), <<"deals", "orders", "orders">>)
      BY <1>4 DEF put_order_deal
    <2>2. PICK n : n = ids' /\ n = ids + 1
      BY <2>1
    <2>3. PICK new : new = DealRows(n, user, maker, rest)
      OBVIOUS
    <2>4. PICK F : F = IF rest THEN {maker} ELSE {maker, n}
      OBVIOUS
    <2>5. n \in Nat /\ user \in Nat /\ maker \in Nat /\ maker \in 1..ids /\ n # maker /\ n > ids
      BY <1>1, <2>2
    <2>6. Fit(new, F)
      BY <1>1, <2>3, <2>4, <2>5, FitDealRows
    <2>7. Command(new, <<"deals", "orders", "orders">>)
      BY <2>1, <2>2, <2>3
    <2>8. Order(user, TRUE) \in [user : Users, dealt : BOOLEAN]
      BY DEF Order
    <2>9. /\ orders' \in [DOMAIN orders' -> [user : Users, dealt : BOOLEAN]]
          /\ DOMAIN orders' = IF rest THEN (DOMAIN orders \ {maker}) \cup {n} ELSE DOMAIN orders \ {maker}
      <3>1. CASE rest
        <4>1. orders' = [o \in (DOMAIN orders \ {maker}) \cup {n} |->
                           IF o = n THEN Order(user, TRUE) ELSE orders[o]]
          BY <2>1, <2>2, <3>1 DEF With, Without
        <4>2. QED
          BY <1>1, <2>8, <3>1, <4>1
      <3>2. CASE ~rest
        <4>1. orders' = [o \in DOMAIN orders \ {maker} |-> orders[o]]
          BY <2>1, <3>2 DEF Without
        <4>2. QED
          BY <1>1, <3>2, <4>1
      <3>3. QED
        BY <3>1, <3>2
    <2>10. /\ OpenOrders(orders', ids') /\ ids <= ids'
           /\ \A id \in DOMAIN orders' : id \in DOMAIN orders \/ id > ids
      <3>1. \A o \in DOMAIN orders \cup {n} : o \in 1..n
        BY <1>1, <2>2
      <3>2. \A o \in DOMAIN orders' : o \in DOMAIN orders \/ o = n
        BY <2>9
      <3>3. QED
        BY <1>1, <2>2, <2>5, <2>9, <3>1, <3>2 DEF OpenOrders
    <2>11. \A id \in F : id \in 1..ids' /\ id \notin DOMAIN orders' /\ (id \in DOMAIN orders \/ id > ids)
      <3>1. \A o \in DOMAIN orders : o # n
        BY <1>1, <2>2
      <3>2. maker \in 1..n /\ n \in 1..n
        BY <1>1, <2>2, <2>5
      <3>3. QED
        BY <2>2, <2>4, <2>5, <2>9, <3>1, <3>2
    <2>12. QED
      BY <2>6, <2>7, <2>10, <2>11, CommandKeepsRows
  <1>5. CASE cancel_order
    <2>1. PICK id \in DOMAIN orders :
            /\ orders' = Without(id) /\ UNCHANGED ids
            /\ Command(IF orders[id].dealt THEN append_order_history(id, orders[id].user) ELSE <<>>,
                       <<"orders">>)
      BY <1>5 DEF cancel_order
    <2>2. PICK new : new = IF orders[id].dealt THEN append_order_history(id, orders[id].user) ELSE <<>>
      OBVIOUS
    <2>3. PICK F : F = IF orders[id].dealt THEN {id} ELSE {}
      OBVIOUS
    <2>4. Fit(new, F)
      BY <1>1, <2>2, <2>3, FitOrder, FitNothing
    <2>5. Command(new, <<"orders">>)
      BY <2>1, <2>2
    <2>6. orders' = [o \in DOMAIN orders \ {id} |-> orders[o]]
      BY <2>1 DEF Without
    <2>7. /\ OpenOrders(orders', ids') /\ ids <= ids'
          /\ \A o \in DOMAIN orders' : o \in DOMAIN orders \/ o > ids
      BY <1>1, <2>1, <2>6 DEF OpenOrders
    <2>8. \A o \in F : o \in 1..ids' /\ o \notin DOMAIN orders' /\ (o \in DOMAIN orders \/ o > ids)
      BY <1>1, <2>1, <2>3, <2>6
    <2>9. QED
      BY <2>4, <2>5, <2>7, <2>8, CommandKeepsRows
  <1>6. QED
    BY <1>2, <1>3, <1>4, <1>5

-------------------------------------------------------------------------------
(* The inductive invariant of the history.                                 *)
HistoryInv == RowsInv /\ IdsInv

(* At the start there are no rows, and the first orders have the first     *)
(* ids.                                                                    *)
LEMMA HistoryInit == init_output => HistoryInv
  <1> SUFFICES ASSUME init_output PROVE HistoryInv
    OBVIOUS
  <1>1. /\ orders = FirstOrders /\ ids = Cardinality(DOMAIN FirstOrders)
        /\ log = {[orders |-> orders, ids |-> ids]}
        /\ dict_sql = <<>> /\ tables = [key \in Keys |-> <<>>] /\ rows = 0
        /\ lost = {} /\ refused = {} /\ repeated = {} /\ again = {}
        /\ job = [requests |-> <<>>, running |-> [t \in Thread |-> <<>>],
                  replies |-> <<>>, pipe |-> FALSE, reading |-> FALSE, shutdown |-> FALSE]
    BY DEF init_output, nw_job_create
  <1>2. /\ DOMAIN dict_sql = {} /\ dict_sql \in [DOMAIN dict_sql -> SUBSET AnyRow]
        /\ job \in HistoryJobs /\ DOMAIN job.requests = {} /\ Running = {}
    BY <1>1 DEF HistoryJobs, Running
  <1>3. Held = {} /\ Taken = {}
    <2>1. Held = {}
      BY <1>2, HeldPlaces DEF HeldIs
    <2>2. \A key \in Keys : DOMAIN tables[key] = {}
      BY <1>1
    <2>3. QED
      BY <2>1, <2>2, TakenPlaces DEF TakenIs
  <1>4. AllRows = {}
    BY <1>3 DEF AllRows
  <1>5. RowsTyped
    <2>1. \A key \in Keys : tables[key] \in Seq(SUBSET AnyRow)
      BY <1>1
    <2>2. tables \in [Keys -> Seq(SUBSET AnyRow)]
      BY <1>1, <2>1
    <2>3. QED
      BY <1>1, <1>2, <2>2 DEF RowsTyped
  <1>6. RowsPlaced
    <2>1. 1..rows = {}
      BY <1>1
    <2>2. QED
      BY <1>3, <2>1 DEF RowsPlaced, RowsKnown, HeldOnce, TakenAgain, TakenTwice, AllSomewhere
  <1>7. IdsTyped
    <2>1. Cardinality(DOMAIN FirstOrders) \in Nat
      BY OutputAssumption, FS_CardinalityType
    <2>2. OpenOrders(orders, ids)
      <3>1. /\ FirstOrders \in [1..Cardinality(DOMAIN FirstOrders) -> [user : Users, dealt : BOOLEAN]]
            /\ DOMAIN FirstOrders = 1..Cardinality(DOMAIN FirstOrders)
        BY OutputAssumption
      <3>2. QED
        BY <1>1, <2>1, <3>1 DEF OpenOrders
    <2>3. QED
      BY <1>1, <2>1, <2>2 DEF IdsTyped
  <1>8. KeysOnce
    BY <1>1, <1>4 DEF KeysOnce
  <1>9. QED
    BY <1>5, <1>6, <1>7, <1>8 DEF HistoryInv, RowsInv, IdsInv

(* Every step keeps it.                                                    *)
LEMMA HistoryStep ==
  ASSUME HistoryInv, [OutputNext]_outputVars
  PROVE  HistoryInv'
  <1>1. RowsInv /\ IdsInv /\ job \in HistoryJobs
    BY DEF HistoryInv, RowsInv, RowsTyped
  <1>2. CASE update_user_balance \/ put_order \/ put_order_deal \/ cancel_order
    BY <1>1, <1>2, CommandsKeep DEF HistoryInv
  <1>3. ASSUME Flushed, dict_sql' = <<>>, UNCHANGED <<engine, again, rows, tables, lost, refused, repeated>>
        PROVE  HistoryInv'
    <2>1. RowsInv' /\ AllRows' \subseteq AllRows
      BY <1>1, <1>3, FlushedKeeps
    <2>2. QED
      BY <1>1, <1>3, <2>1, IdsStand DEF HistoryInv
  <1>4. ASSUME job' \in HistoryJobs, job'.requests = job.requests, job'.running = job.running,
               UNCHANGED <<engine, again, dict_sql, rows, tables, lost, refused, repeated>>
        PROVE  HistoryInv'
    <2>1. RowsInv' /\ AllRows' \subseteq AllRows
      BY <1>1, <1>4, RowsStand
    <2>2. QED
      BY <1>1, <1>4, <2>1, IdsStand DEF HistoryInv
  <1>5. CASE on_history_timer
    BY <1>3, <1>5 DEF on_history_timer
  <1>6. CASE on_message_timer
    BY <1>1, <1>4, <1>6 DEF on_message_timer, historyVars, statements
  <1>7. ASSUME NEW t \in Thread, Begin(t)
        PROVE  HistoryInv'
    <2>1. RowsInv' /\ AllRows' \subseteq AllRows
      BY <1>1, <1>7, BeginKeeps
    <2>2. UNCHANGED <<engine, again, refused>>
      BY <1>7 DEF Begin
    <2>3. QED
      BY <1>1, <2>1, <2>2, IdsStand DEF HistoryInv
  <1>8. ASSUME NEW t \in Thread, on_history_job(t)
        PROVE  HistoryInv'
    BY <1>1, <1>8, HistoryJobKeeps, HistoryJobIds DEF HistoryInv
  <1>9. ASSUME NEW t \in Topics, on_delivery(t)
        PROVE  HistoryInv'
    BY <1>1, <1>4, <1>9 DEF on_delivery, historyVars, statements
  <1>10. CASE fini_message
    BY <1>1, <1>4, <1>10 DEF fini_message, historyVars, statements
  <1>11. CASE fini_history
    BY <1>3, <1>11 DEF fini_history
  <1>12. CASE Release
    <2>1. job' = [job EXCEPT !.shutdown = TRUE]
      BY <1>12 DEF Release, nw_job_release
    <2>2. job' \in HistoryJobs /\ job'.requests = job.requests /\ job'.running = job.running
      BY <1>1, <2>1 DEF HistoryJobs
    <2>3. QED
      BY <1>4, <1>12, <2>2 DEF Release, statements
  <1>13. ASSUME NEW at \in log, Restarted(at)
         PROVE  HistoryInv'
    BY <1>1, <1>13, RestartKeeps, RestartIds DEF HistoryInv
  <1>14. CASE Stopped
    BY <1>13, <1>14 DEF Stopped
  <1>15. CASE Crash
    BY <1>13, <1>15 DEF Crash
  <1>16. CASE UNCHANGED outputVars
    BY <1>1, <1>4, <1>16 DEF outputVars, historyVars, statements
  <1>17. QED
    BY <1>2, <1>5, <1>6, <1>7, <1>8, <1>9, <1>10, <1>11, <1>12, <1>14, <1>15, <1>16
       DEF OutputNext

(* It is more than what is promised of the rows.                           *)
LEMMA AccountedPromise ==
  ASSUME HistoryInv
  PROVE  RowsAccounted /\ RefusedOnlyAgain
  <1>1. RowsPlaced /\ KeysOnce
    BY DEF HistoryInv, RowsInv, IdsInv
  <1>2. ASSUME NEW n \in 1..rows \ Numbers(lost \cup refused)
        PROVE  /\ Places(n) # {}
               /\ n \notin Numbers(repeated) => \A p, q \in Places(n) : p = q
    <2>1. Places(n) # {}
      BY <1>1, <1>2 DEF RowsPlaced, AllSomewhere, Places
    <2>2. ASSUME n \notin Numbers(repeated), NEW p \in Places(n), NEW q \in Places(n)
          PROVE  p = q
      <3>1. /\ p \in Held \cup Taken /\ n \in Numbers(RowsAt(p))
            /\ q \in Held \cup Taken /\ n \in Numbers(RowsAt(q))
        BY DEF Places
      <3>2. ASSUME NEW h \in Held, NEW d \in Taken, n \in Numbers(RowsAt(h)), n \in Numbers(RowsAt(d))
            PROVE  FALSE
        <4>1. Share(RowsAt(h), RowsAt(d))
          BY <3>2 DEF Share
        <4>2. RowsAt(h) \subseteq repeated
          BY <1>1, <4>1 DEF RowsPlaced, TakenAgain
        <4>3. QED
          BY <2>2, <3>2, <4>2, NumbersOf
      <3>3. CASE p \in Held /\ q \in Held
        <4>1. Share(RowsAt(p), RowsAt(q))
          BY <3>1 DEF Share
        <4>2. QED
          BY <1>1, <3>3, <4>1 DEF RowsPlaced, HeldOnce
      <3>4. CASE p \in Taken /\ q \in Taken
        BY <1>1, <2>2, <3>1, <3>4 DEF RowsPlaced, TakenTwice
      <3>5. QED
        BY <3>1, <3>2, <3>3, <3>4
    <2>3. QED
      BY <2>1, <2>2
  <1>3. RefusedOnlyAgain
    BY <1>1 DEF KeysOnce, RefusedOnlyAgain
  <1>4. QED
    BY <1>2, <1>3 DEF RowsAccounted

(* The rows of the history, from the statement to the table, for any       *)
(* number of threads, tables, commands, repetitions and restarts.          *)
THEOREM HistoryInvariant == OutputSpec => []HistoryInv
  <1>1. QED
    BY HistoryInit, HistoryStep, PTL DEF OutputSpec

(* append_sql, on_timer and on_job neither lose nor double a row, but for  *)
(* those a restart or error 1062 takes and those of statements sent again. *)
THEOREM RowsAreAccounted == OutputSpec => []RowsAccounted
  <1>1. QED
    BY HistoryInvariant, AccountedPromise, PTL

(* error 1062, which on_job counts as done, takes no row that is not       *)
(* stored unless a restart went back to before an id was given.            *)
THEOREM RefusedOnlyWhenAgain == OutputSpec => []RefusedOnlyAgain
  <1>1. QED
    BY HistoryInvariant, AccountedPromise, PTL
================================================================================
