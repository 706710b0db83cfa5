---------------------------- MODULE Recovery_proofs ----------------------------
(***************************************************************************)
(* Proofs about the match engine's persistence, Recovery.tla, for any      *)
(* number of operations, days, slices and restarts, when no fault of       *)
(* Faults is allowed.                                                      *)
(***************************************************************************)
EXTENDS RecoveryProperties, FiniteSetTheorems, WellFoundedInduction, TLAPS

-------------------------------------------------------------------------------
(* The inductive invariant.                                                *)

\* What is to be in the database under id x is the operation that has it.
IsLogged(x) == x.id \in 1..Len(applied) /\ x.op = applied[x.id]

\* The entries on their way, and the day of the table they go to, which is
\* not known for those in the list.
InList == ToSet(list)
InJob(j) == ToSet(jobs[j].rows)
InHand == ToSet(working.rows)
Jobs == 1..Len(jobs)

\* An id that is still on its way to the database.
OnTheWay(m) ==
    \/ \E e \in InHand : e.id = m
    \/ \E j \in Jobs : \E e \in InJob(j) : e.id = m
    \/ \E e \in InList : e.id = m

\* The memory of the engine and of its worker.
MemoryInv ==
    /\ mode # "down" => operlog_id_start = Len(applied)
    /\ mode = "down" => list = <<>> /\ jobs = <<>> /\ working = NoJob
    /\ served = 0 => applied = <<>>

\* Every entry and every row is that of an operation.
LoggedInv ==
    /\ \A e \in InHand \cup InList : IsLogged(e)
    /\ \A j \in Jobs : \A e \in InJob(j) : IsLogged(e)
    /\ \A r \in operlog : IsLogged(r)

\* Entries go to the database in the order of their ids, and new ones have
\* ids that no row has.
OrderInv ==
    /\ \A j \in Jobs : \A e \in InJob(j) :
          /\ \A f \in InHand : f.id < e.id
          /\ \A f \in InList : e.id < f.id
          /\ \A k \in Jobs : j < k => \A f \in InJob(k) : e.id < f.id
          /\ \A r \in operlog : r.id < e.id
    /\ \A e \in InHand, f \in InList : e.id < f.id
    /\ \A r \in operlog, e \in InList : r.id < e.id
    /\ \/ \A r \in operlog, e \in InHand : r.id < e.id
       \/ \A e \in InHand :
             [day |-> working.day, id |-> e.id, op |-> e.op] \in operlog

\* Days do not go back.
DaysInv ==
    /\ working # NoJob => working.day \in 1..day
    /\ \A j \in Jobs : jobs[j].day \in 1..day
    /\ \A r \in operlog : r.day <= day
    /\ \A q, r \in operlog : q.day < r.day => q.id < r.id
    /\ \A r \in operlog, e \in InHand : r.day <= working.day
    /\ \A e \in InHand : working.day <= day
    /\ \A j \in Jobs : \A e \in InJob(j) :
          /\ \A f \in InHand : working.day <= jobs[j].day
          /\ \A k \in Jobs : j < k => \A f \in InJob(k) :
                                         jobs[j].day <= jobs[k].day
          /\ \A r \in operlog : r.day <= jobs[j].day

\* An operation that the memory forked at i does not have is logged on that
\* day or later; before there is a slice, on this day.
SinceInv ==
    /\ \A i \in 1..forks :
          /\ \A r \in operlog : r.id > child[i].end => child[i].time <= r.day
          /\ \A e \in InHand : e.id > child[i].end =>
                                  child[i].time <= working.day
          /\ \A j \in Jobs : \A e \in InJob(j) :
                e.id > child[i].end => child[i].time <= jobs[j].day
    /\ LastSlice = 0 =>
          /\ \A r \in operlog : r.day = day
          /\ \A e \in InHand : working.day = day
          /\ \A j \in Jobs : \A e \in InJob(j) : jobs[j].day = day

Whole(i) == slice_order[i] = "whole" /\ slice_balance[i] = "whole"

\* Memory i is that of the first operations.
IsSnapshot(i) ==
    /\ child[i].end <= Len(applied)
    /\ child[i].state = SubSeq(applied, 1, child[i].end)

\* The children run one after the other.
ChildrenInv ==
    /\ \A i \in Slices : /\ i > forks => child[i].step = "idle"
                         /\ Running(i) => i = forks
    /\ \A i, k \in 1..forks : i <= k => child[i].time <= child[k].time
    /\ \A i \in 1..forks : child[i].time <= day
    /\ \A i \in Slices :
          /\ child[i].step \in {"orders", "balance", "history"} =>
                /\ IsSnapshot(i) /\ LastOperId <= child[i].end
                /\ \A r \in slice_history : r.slice < i
          /\ child[i].step \in {"balance", "history"} =>
                slice_order[i] = "whole"
          /\ child[i].step = "history" => slice_balance[i] = "whole"
          /\ child[i].step \in {"drop_order", "drop_balance", "delete"} =>
                /\ LastSlice # 0
                /\ \A v \in child[i].victims :
                      child[v].time < child[LastSlice].time
          /\ child[i].step \in {"drop_balance", "delete"} =>
                child[i].victim \in child[i].victims

\* The slices are recorded in the order of their forks, and the last of them
\* is whole.
HistoryInv ==
    /\ \A r \in slice_history : r.slice <= forks
    /\ \A q, r \in slice_history : q.id < r.id <=> q.slice < r.slice
    /\ slice_history # {} =>
          \E r \in slice_history : \A q \in slice_history : q.id <= r.id
    /\ LastSlice # 0 => Whole(LastSlice) /\ IsSnapshot(LastSlice)

Parts == /\ TypeOK /\ MemoryInv /\ LoggedInv /\ OrderInv /\ DaysInv /\ SinceInv
         /\ ChildrenInv /\ HistoryInv

\* The slice and the rows together have the first n operations, and no row a
\* later one.  Of a running engine the others are on their way.
SafeUpTo(n) ==
    /\ LastOperId <= n /\ n <= Len(applied)
    /\ \A m \in (LastOperId + 1)..n : \E r \in operlog : r.id = m
    /\ \A r \in operlog : r.id <= n
    /\ mode # "down" => \A m \in (n + 1)..Len(applied) : OnTheWay(m)

RecoveryInv == Parts /\ \E n \in Nat : SafeUpTo(n)

-------------------------------------------------------------------------------
(* What the types say of the parts.                                        *)

\* Entries, statements, rows and forked memories are made of numbers.
LEMMA Typed ==
  ASSUME TypeOK
  PROVE  /\ MaxSlices \in Nat /\ Len(applied) \in Nat /\ day \in Nat
         /\ \A x \in InHand \cup InList : x.id \in Nat /\ x.op \in Nat
         /\ working.day \in Nat /\ Len(jobs) \in Nat
         /\ \A j \in Jobs : /\ jobs[j] \in Statement
                            /\ jobs[j].day \in Nat
                            /\ \A x \in InJob(j) : x.id \in Nat /\ x.op \in Nat
         /\ \A r \in operlog :
               /\ r.day \in Nat /\ r.id \in Nat /\ r.op \in Nat
               /\ r = [day |-> r.day, id |-> r.id, op |-> r.op]
         /\ \A i \in Slices : /\ child[i] \in Child
                              /\ child[i].end \in Nat /\ child[i].time \in Nat
                              /\ child[i].state \in Seq(Nat)
                              /\ child[i].victims \subseteq Slices
         /\ \A r \in slice_history : r.id \in Nat /\ r.slice \in Slices
         /\ \A i \in Slices : i \in Nat /\ i # 0
  <1>1. MaxSlices \in Nat
    BY RecoveryAssumption
  <1>2. Len(applied) \in Nat /\ day \in Nat
    BY DEF TypeOK
  <1>3. \A e \in Entry : e.id \in Nat /\ e.op \in Nat
    BY DEF Entry
  <1>4. ASSUME NEW q \in Seq(Entry), NEW x \in ToSet(q)
        PROVE  x \in Entry
    <2> DEFINE E == Entry
    <2>1. q \in Seq(E) /\ \E k \in DOMAIN q : x = q[k]
      BY <1>4 DEF ToSet
    <2> HIDE DEF E
    <2>2. x \in E
      BY <2>1
    <2>3. QED
      BY <2>2 DEF E
  <1>5. \A s \in Statement : s.day \in Nat /\ s.rows \in Seq(Entry)
    BY DEF Statement
  <1>6. \A x \in InHand \cup InList : x \in Entry
    BY <1>4, <1>5 DEF TypeOK, InHand, InList
  <1>7. Len(jobs) \in Nat /\ \A j \in Jobs : jobs[j] \in Statement
    <2> DEFINE S == Statement
    <2>1. jobs \in Seq(S)
      BY DEF TypeOK
    <2> HIDE DEF S
    <2>2. Len(jobs) \in Nat /\ \A j \in Jobs : jobs[j] \in S
      BY <2>1 DEF Jobs
    <2>3. QED
      BY <2>2 DEF S
  <1>8. \A j \in Jobs : /\ jobs[j].day \in Nat
                        /\ \A x \in InJob(j) : x \in Entry
    BY <1>4, <1>5, <1>7 DEF InJob
  <1>9. working.day \in Nat
    BY <1>5 DEF TypeOK
  <1>10. \A r \in operlog :
            /\ r.day \in Nat /\ r.id \in Nat /\ r.op \in Nat
            /\ r = [day |-> r.day, id |-> r.id, op |-> r.op]
    BY DEF TypeOK, Row
  <1>11. \A i \in Slices : child[i] \in Child
    BY DEF TypeOK
  <1>12. \A c \in Child : /\ c.end \in Nat /\ c.time \in Nat
                          /\ c.state \in Seq(Nat) /\ c.victims \subseteq Slices
    BY DEF Child
  <1>13. \A r \in slice_history : r.id \in Nat /\ r.slice \in Slices
    BY DEF TypeOK, Record
  <1>14. \A i \in Slices : i \in Nat /\ i # 0
    BY <1>1 DEF Slices
  <1>15. QED
    BY <1>1, <1>2, <1>3, <1>6, <1>7, <1>8, <1>9, <1>10, <1>11, <1>12, <1>13, <1>14

\* The last slice is the one whose row no other row follows.
LEMMA LastRecordIs ==
  ASSUME TypeOK, HistoryInv, slice_history # {}
  PROVE  /\ LastRecord \in slice_history
         /\ \A q \in slice_history : q.id <= LastRecord.id
         /\ LastSlice = LastRecord.slice /\ LastSlice \in Slices /\ LastSlice # 0
         /\ \A q \in slice_history : q.slice <= LastSlice
         /\ LastSlice <= forks
  <1>1. \E r \in slice_history : \A q \in slice_history : q.id <= r.id
    BY DEF HistoryInv
  <1>2. /\ LastRecord \in slice_history
        /\ \A q \in slice_history : q.id <= LastRecord.id
    BY <1>1 DEF LastRecord
  <1>3. LastSlice = LastRecord.slice
    BY DEF LastSlice
  <1>4. \A r \in slice_history : r.id \in Nat /\ r.slice \in Slices
    BY Typed
  <1>5. \A q \in slice_history : q.slice <= LastRecord.slice
    <2> SUFFICES ASSUME NEW q \in slice_history
                 PROVE  q.slice <= LastRecord.slice
      OBVIOUS
    <2>1. ~(LastRecord.id < q.id)
      BY <1>2, <1>4
    <2>2. ~(LastRecord.slice < q.slice)
      BY <1>2, <2>1 DEF HistoryInv
    <2>3. q.slice \in Nat /\ LastRecord.slice \in Nat
      BY <1>2, <1>4, Typed
    <2>4. QED
      BY <2>2, <2>3
  <1>6. QED
    BY <1>2, <1>3, <1>4, <1>5, Typed DEF HistoryInv

\* The id that the last slice has covered is one.
LEMMA LastOperIdNat ==
  ASSUME TypeOK, HistoryInv
  PROVE  LastOperId \in Nat
  <1>1. CASE slice_history = {}
    BY <1>1 DEF LastOperId, LastSlice
  <1>2. CASE slice_history # {}
    BY <1>2, LastRecordIs, Typed DEF LastOperId
  <1>3. QED
    BY <1>1, <1>2

-------------------------------------------------------------------------------
(* What init_from_db finds.                                                *)

\* A set of rows whose ids are those from a to b, each once, has b - a + 1.
LEMMA RowsOfInterval ==
  ASSUME NEW S, NEW a \in Nat, NEW b \in Nat, a <= b,
         \A r \in S : r.id \in (a + 1)..b,
         \A m \in (a + 1)..b : \E r \in S : r.id = m,
         \A q, r \in S : q.id = r.id => q = r
  PROVE  Cardinality(S) = b - a
  <1> DEFINE I == (a + 1)..b
             f == [m \in I |-> CHOOSE r \in S : r.id = m]
  <1>1. \A m \in I : f[m] \in S /\ f[m].id = m
    OBVIOUS
  <1>2. f \in [I -> S]
    <2>1. \A m \in I : (CHOOSE r \in S : r.id = m) \in S
      BY <1>1
    <2>2. QED
      BY <2>1
  <1>3. \A r \in S : \E m \in I : f[m] = r
    BY <1>1
  <1>4. \A x, y \in I : f[x] = f[y] => x = y
    BY <1>1
  <1> HIDE DEF f
  <1>5. f \in Bijection(I, S)
    BY <1>2, <1>3, <1>4 DEF Bijection, Injection, Surjection, IsInjective
  <1>6. ExistsBijection(I, S)
    BY <1>5 DEF ExistsBijection
  <1>7. IsFiniteSet(I) /\ Cardinality(I) = b - a
    <2>1. /\ IsFiniteSet(I)
          /\ Cardinality(I) = IF a + 1 > b THEN 0 ELSE b - (a + 1) + 1
      BY FS_Interval
    <2>2. QED
      BY <2>1
  <1>8. QED
    BY <1>6, <1>7, FS_Bijection

\* The rows above the last slice are all read, and none is skipped.
LEMMA RedoneIs ==
  ASSUME Parts
  PROVE  /\ Redone = {r \in operlog : r.id > LastOperId}
         /\ \A q, r \in operlog : q.id = r.id => q = r
  <1>1. \A r \in operlog : r.id > LastOperId => r.day \in DaysRead
    <2> SUFFICES ASSUME NEW r \in operlog, r.id > LastOperId
                 PROVE  r.day \in DaysRead
      OBVIOUS
    <2>1. r.day \in Nat /\ r.day <= day /\ day \in Nat
      BY Typed DEF Parts, DaysInv
    <2>2. CASE slice_history = {}
      <3>1. LastSlice = 0
        BY <2>2 DEF LastSlice
      <3>2. r.day = day
        BY <3>1 DEF Parts, SinceInv
      <3>3. QED
        BY <3>1, <3>2 DEF DaysRead
    <2>3. CASE slice_history # {}
      <3>1. LastSlice # 0 /\ LastSlice \in Slices /\ LastSlice <= forks
        BY <2>3, LastRecordIs DEF Parts
      <3>2. LastSlice \in 1..forks /\ r.id > child[LastSlice].end
        BY <3>1, Typed DEF Parts, LastOperId, Slices, TypeOK
      <3>3. child[LastSlice].time <= r.day
        BY <3>2 DEF Parts, SinceInv
      <3>4. child[LastSlice].time \in Nat
        BY <3>1, Typed DEF Parts
      <3>5. QED
        BY <2>1, <3>1, <3>3, <3>4 DEF DaysRead
    <2>4. QED
      BY <2>2, <2>3
  <1>2. \A q, r \in operlog : q.day < r.day => q.id < r.id
    BY DEF Parts, DaysInv
  <1>3. Redone = {r \in operlog : r.id > LastOperId}
    BY <1>1, <1>2 DEF Redone, RowsRead
  <1>4. ASSUME NEW q \in operlog, NEW r \in operlog, q.id = r.id
        PROVE  q = r
    <2>1. /\ q.day \in Nat /\ r.day \in Nat /\ q.id \in Nat /\ r.id \in Nat
          /\ q = [day |-> q.day, id |-> q.id, op |-> q.op]
          /\ r = [day |-> r.day, id |-> r.id, op |-> r.op]
      BY Typed DEF Parts
    <2>2. q.day = r.day
      BY <1>2, <1>4, <2>1
    <2>3. q.op = r.op
      BY <1>4 DEF Parts, LoggedInv, IsLogged
    <2>4. QED
      BY <1>4, <2>1, <2>2, <2>3
  <1>5. QED
    BY <1>3, <1>4

\* The first L of a sequence and the next up to the n-th are the first n.
LEMMA PrefixAndRest ==
  ASSUME NEW q \in Seq(Nat), NEW L \in Nat, NEW n \in Nat, L <= n, n <= Len(q),
         NEW s \in Seq(Nat), Len(s) = n - L,
         \A k \in 1..(n - L) : s[k] = q[L + k]
  PROVE  SubSeq(q, 1, L) \o s = SubSeq(q, 1, n)
  <1>1. SubSeq(q, 1, L) \in Seq(Nat) /\ Len(SubSeq(q, 1, L)) = L
    OBVIOUS
  <1>2. SubSeq(q, 1, n) \in Seq(Nat) /\ Len(SubSeq(q, 1, n)) = n
    OBVIOUS
  <1> DEFINE c == SubSeq(q, 1, L) \o s
  <1>3. c \in Seq(Nat) /\ Len(c) = n
    BY <1>1
  <1>4. ASSUME NEW k \in 1..n
        PROVE  c[k] = SubSeq(q, 1, n)[k]
    <2>1. SubSeq(q, 1, n)[k] = q[k]
      BY <1>4
    <2>2. CASE k <= L
      BY <1>1, <2>1, <2>2
    <2>3. CASE k > L
      <3>1. k - L \in 1..(n - L)
        BY <1>4, <2>3
      <3>2. c[k] = s[k - L]
        BY <1>1, <1>4, <2>3, <3>1
      <3>3. s[k - L] = q[L + (k - L)]
        BY <3>1
      <3>4. QED
        BY <1>4, <2>1, <3>2, <3>3
    <2>4. QED
      BY <1>4, <2>2, <2>3
  <1> HIDE DEF c
  <1>5. QED
    BY <1>2, <1>3, <1>4 DEF c

\* A load succeeds, and finds the first n operations.
LEMMA LoadFinds ==
  ASSUME Parts, NEW n \in Nat, SafeUpTo(n)
  PROVE  /\ Loadable
         /\ RestartId = n
         /\ Recovered = SubSeq(applied, 1, n)
         /\ n <= Len(applied) /\ n \in Nat /\ Len(applied) \in Nat
  <1> DEFINE L == LastOperId
  <1>1. L \in Nat /\ L <= n /\ n <= Len(applied) /\ Len(applied) \in Nat
    BY LastOperIdNat, Typed DEF SafeUpTo, Parts
  <1>2. \A r \in operlog : r.id \in Nat /\ r.id <= n
    BY Typed DEF SafeUpTo, Parts
  <1>3. \A r \in Redone : r.id \in (L + 1)..n
    BY <1>1, <1>2, RedoneIs
  <1>4. \A m \in (L + 1)..n : \E r \in Redone : r.id = m
    BY <1>1, RedoneIs DEF SafeUpTo
  <1>5. \A q, r \in Redone : q.id = r.id => q = r
    BY RedoneIs
  <1>6. Cardinality(Redone) = n - L
    BY <1>1, <1>3, <1>4, <1>5, RowsOfInterval
  <1>7. RestartId = n
    BY <1>1, <1>6 DEF RestartId
  <1>8. LastSlice # 0 => Whole(LastSlice) /\ IsSnapshot(LastSlice)
    BY DEF Parts, HistoryInv
  <1>9. Loadable
    <2>1. {r.id : r \in Redone} = (L + 1)..n
      BY <1>3, <1>4
    <2>2. L + Cardinality(Redone) = n
      BY <1>1, <1>6
    <2>3. QED
      BY <1>8, <2>1, <2>2 DEF Loadable, Whole
  <1>10. Snapshot = SubSeq(applied, 1, L)
    <2>1. CASE LastSlice = 0
      <3>1. L = 0 /\ Snapshot = <<>>
        BY <2>1 DEF LastOperId, Snapshot
      <3>2. SubSeq(applied, 1, 0) = <<>>
        BY DEF Parts, TypeOK
      <3>3. QED
        BY <3>1, <3>2
    <2>2. CASE LastSlice # 0
      BY <1>8, <2>2 DEF LastOperId, Snapshot, Whole, IsSnapshot
    <2>3. QED
      BY <2>1, <2>2
  <1> DEFINE redo == [k \in 1..(n - L) |->
                        (CHOOSE r \in Redone : r.id = L + k).op]
  <1>11. \A k \in 1..(n - L) : redo[k] = applied[L + k]
    <2> SUFFICES ASSUME NEW k \in 1..(n - L)
                 PROVE  (CHOOSE r \in Redone : r.id = L + k).op = applied[L + k]
      OBVIOUS
    <2>1. L + k \in (L + 1)..n
      BY <1>1
    <2>2. PICK r \in Redone : r.id = L + k
      BY <1>4, <2>1
    <2>3. (CHOOSE q \in Redone : q.id = L + k) = r
      BY <1>5, <2>2
    <2>4. r \in operlog
      BY RedoneIs
    <2>5. r.op = applied[r.id]
      BY <2>4 DEF Parts, LoggedInv, IsLogged
    <2>6. QED
      BY <2>2, <2>3, <2>5
  <1>12. Recovered = SubSeq(applied, 1, L) \o redo
    BY <1>6, <1>10 DEF Recovered
  <1>13. redo \in Seq(Nat) /\ Len(redo) = n - L
    <2>1. \A k \in 1..(n - L) : applied[L + k] \in Nat
      BY <1>1 DEF Parts, TypeOK
    <2>2. n - L \in Nat
      BY <1>1
    <2>3. QED
      BY <1>11, <2>1, <2>2
  <1> HIDE DEF redo
  <1>14. SubSeq(applied, 1, L) \o redo = SubSeq(applied, 1, n)
    <2>1. applied \in Seq(Nat)
      BY DEF Parts, TypeOK
    <2>2. redo \in Seq(Nat)
      BY <1>13
    <2> HIDE DEF L
    <2>3. QED
      BY <1>1, <1>11, <1>13, <2>1, <2>2, PrefixAndRest
  <1>15. QED
    BY <1>1, <1>7, <1>9, <1>12, <1>14

\* The same of the state after a step.
LoadedAre == \A n \in Nat : Parts /\ SafeUpTo(n) => Recovered = SubSeq(applied, 1, n)

LEMMA NextLoadFinds == LoadedAre'
  <1>1. LoadedAre
    BY LoadFinds DEF LoadedAre
  <1>2. QED
    BY <1>1, PTL

-------------------------------------------------------------------------------
(* The steps of an engine.  Keeps(n): the invariant holds again, and what  *)
(* is safe are n operations.                                               *)

Keeps(n) == Parts' /\ SafeUpTo(n)'

\* What Parts says of slices does not mind later days, nor other operations
\* if the memories of interest are still those of the first ones.
LEMMA SlicesStand ==
  ASSUME Parts, UNCHANGED <<slices, forks>>, day' \in Nat, day <= day',
         \A i \in Slices : IsSnapshot(i) /\ (Running(i) \/ i = LastSlice)
                              => IsSnapshot(i)'
  PROVE  ChildrenInv' /\ HistoryInv' /\ LastSlice' = LastSlice
         /\ LastOperId' = LastOperId
  <1>1. /\ LastSlice' = LastSlice /\ LastOperId' = LastOperId
        /\ child' = child /\ forks' = forks /\ slice_order' = slice_order
        /\ slice_balance' = slice_balance /\ slice_history' = slice_history
    BY DEF slices, LastSlice, LastRecord, LastOperId
  <1>2. \A i \in Slices : Running(i)' <=> Running(i)
    BY <1>1 DEF Running
  <1>3. LastSlice # 0 => LastSlice \in Slices
    BY LastRecordIs DEF Parts, LastSlice
  <1>4. HistoryInv'
    BY <1>1, <1>3 DEF Parts, HistoryInv, Whole
  <1>5. \A i \in 1..forks : child[i].time <= day'
    <2>1. forks \in Nat /\ \A i \in 1..forks : i \in Slices
      BY Typed DEF Parts, TypeOK, Slices
    <2>2. \A i \in 1..forks : child[i].time \in Nat /\ child[i].time <= day
      BY <2>1, Typed DEF Parts, ChildrenInv
    <2>3. day \in Nat
      BY Typed DEF Parts
    <2>4. QED
      BY <2>2, <2>3
  <1>6. \A i \in Slices : child[i].step \in {"orders", "balance", "history"}
                             => IsSnapshot(i)'
    BY DEF Parts, ChildrenInv, Running, Steps
  <1>7. ChildrenInv'
    BY <1>1, <1>2, <1>5, <1>6 DEF Parts, ChildrenInv
  <1>8. QED
    BY <1>1, <1>4, <1>7

\* init_from_db: the memory is the first n operations, which is what there
\* is; the ids after n are given out again.
LEMMA StartKeeps ==
  ASSUME Faults = {}, Parts, NEW n \in Nat, SafeUpTo(n), Start
  PROVE  Keeps(n) /\ applied' = Recovered /\ Recovered' = Recovered
  <1> USE DEF queue, log, slices, counts
  <1>1. /\ mode = "down" /\ NoneRuns
        /\ mode' = "running" /\ applied' = Recovered
        /\ operlog_id_start' = RestartId
        /\ UNCHANGED <<list, table_last, queue, day, log, slices, counts>>
    BY DEF Start
  <1>2. /\ RestartId = n /\ applied' = SubSeq(applied, 1, n)
        /\ n <= Len(applied) /\ Len(applied) \in Nat
    BY <1>1, LoadFinds
  <1>3. applied \in Seq(Nat) /\ TypeOK
    BY DEF Parts, TypeOK
  <1>4. /\ applied' \in Seq(Nat) /\ Len(applied') = n
        /\ \A k \in 1..n : applied'[k] = applied[k]
    BY <1>2, <1>3
  <1>5. list = <<>> /\ jobs = <<>> /\ working = NoJob
    BY <1>1 DEF Parts, MemoryInv
  <1>6. InList' = {} /\ InHand' = {} /\ Jobs' = {}
    BY <1>1, <1>5 DEF InList, InHand, Jobs, NoJob, ToSet
  <1>7. TypeOK'
    BY <1>1, <1>2, <1>3, <1>4 DEF TypeOK
  <1>8. MemoryInv'
    <2>1. ASSUME served' = 0
          PROVE  applied' = <<>>
      <3>1. Len(applied) = 0
        BY <1>1, <2>1 DEF Parts, MemoryInv
      <3>2. Len(applied') = 0
        BY <1>2, <1>4, <3>1
      <3>3. QED
        BY <1>4, <3>2
    <2>2. QED
      BY <1>1, <1>2, <1>4, <2>1 DEF MemoryInv
  <1>9. LoggedInv'
    <2>1. \A r \in operlog : r.id \in 1..n /\ r.op = applied[r.id]
      BY Typed DEF Parts, LoggedInv, IsLogged, SafeUpTo
    <2>2. \A r \in operlog : IsLogged(r)'
      BY <1>4, <2>1 DEF IsLogged
    <2>3. QED
      BY <1>1, <1>6, <2>2 DEF LoggedInv
  <1>10. OrderInv'
    BY <1>6 DEF OrderInv
  <1>11. DaysInv'
    BY <1>1, <1>6 DEF Parts, DaysInv
  <1>12. ChildrenInv' /\ HistoryInv' /\ LastSlice' = LastSlice
         /\ LastOperId' = LastOperId
    <2>1. ASSUME NEW i \in Slices, IsSnapshot(i), i = LastSlice
          PROVE  IsSnapshot(i)'
      <3>1. i # 0 /\ child[i].end \in Nat
        BY Typed DEF Parts
      <3>2. child[i].end <= n
        BY <2>1, <3>1 DEF LastOperId, SafeUpTo
      <3>3. SubSeq(applied', 1, child[i].end) = SubSeq(applied, 1, child[i].end)
        BY <1>2, <1>3, <3>1, <3>2
      <3>4. QED
        BY <1>1, <1>4, <2>1, <3>2, <3>3 DEF IsSnapshot
    <2>2. day' \in Nat /\ day <= day'
      BY <1>1, Typed DEF Parts
    <2>3. QED
      BY <1>1, <2>1, <2>2, SlicesStand DEF NoneRuns
  <1>13. SinceInv'
    BY <1>1, <1>6, <1>12 DEF Parts, SinceInv
  <1>14. SafeUpTo(n)'
    BY <1>1, <1>2, <1>4, <1>12 DEF SafeUpTo
  <1>15. Recovered' = Recovered
    <2>1. RowsRead' = RowsRead
      BY <1>1, <1>12 DEF RowsRead, DaysRead
    <2>2. Redone' = Redone
      BY <1>12, <2>1 DEF Redone
    <2>3. QED
      BY <1>1, <1>12, <2>2 DEF Recovered, Snapshot
  <1>16. QED
    BY <1>1, <1>7, <1>8, <1>9, <1>10, <1>11, <1>12, <1>13, <1>14, <1>15
    DEF Keeps, Parts

\* append_operlog: one operation more, with the next id, in the list.
LEMMA ServeKeeps ==
  ASSUME Parts, NEW n \in Nat, SafeUpTo(n), Serve
  PROVE  Keeps(n) /\ Durable!Acknowledge
  <1> USE DEF queue, log, slices
  <1> DEFINE len == Len(applied)
  <1>0. PICK new : new = [id |-> operlog_id_start', op |-> served']
    OBVIOUS
  <1>1. /\ mode = "running" /\ mode' = mode
        /\ served' = served + 1
        /\ applied' = Append(applied, served')
        /\ operlog_id_start' = operlog_id_start + 1
        /\ list' = Append(list, new)
        /\ UNCHANGED <<table_last, queue, day, log, slices, forks, stops>>
    BY <1>0 DEF Serve
  <1>2. TypeOK /\ applied \in Seq(Nat) /\ served' \in Nat \ {0} /\ len \in Nat
    BY <1>1 DEF Parts, TypeOK
  <1>3. /\ applied' \in Seq(Nat) /\ Len(applied') = len + 1
        /\ \A k \in 1..len : applied'[k] = applied[k]
        /\ applied'[len + 1] = served'
    BY <1>1, <1>2
  <1>4. operlog_id_start' = len + 1
    BY <1>1 DEF Parts, MemoryInv
  <1>5. list' \in Seq(Entry) /\ InList' = InList \cup {new}
    <2>1. new \in Entry
      BY <1>0, <1>2, <1>4 DEF Entry
    <2>2. list \in Seq(Entry)
      BY DEF Parts, TypeOK
    <2>3. Len(list) \in Nat /\ DOMAIN list = 1..Len(list)
      BY <2>2
    <2>4. list' \in Seq(Entry) /\ DOMAIN list' = 1..(Len(list) + 1)
      BY <1>1, <2>1, <2>2
    <2>5. /\ \A k \in 1..Len(list) : list'[k] = list[k]
          /\ list'[Len(list) + 1] = new
      BY <1>1, <2>1, <2>2
    <2>6. InList' = InList \cup {new}
      BY <2>3, <2>4, <2>5 DEF InList, ToSet
    <2>7. QED
      BY <2>4, <2>6
  <1>6. new.id = len + 1 /\ new.op = served'
    BY <1>0, <1>4
  <1>7. InHand' = InHand /\ Jobs' = Jobs /\ (\A j \in Jobs : InJob(j)' = InJob(j))
    BY <1>1 DEF InHand, Jobs, InJob
  <1>8. TypeOK'
    BY <1>1, <1>2, <1>3, <1>4, <1>5 DEF TypeOK
  <1>9. MemoryInv'
    BY <1>1, <1>2, <1>3, <1>4 DEF MemoryInv
  <1>10. LoggedInv'
    <2>1. ASSUME NEW x, IsLogged(x)
          PROVE  IsLogged(x)'
      <3>1. x.id \in 1..len /\ x.op = applied[x.id]
        BY <2>1 DEF IsLogged
      <3>2. x.id \in 1..Len(applied') /\ applied'[x.id] = applied[x.id]
        BY <1>2, <1>3, <3>1
      <3>3. QED
        BY <3>1, <3>2 DEF IsLogged
    <2>2. IsLogged(new)'
      BY <1>2, <1>3, <1>6 DEF IsLogged
    <2>3. QED
      BY <1>1, <1>5, <1>7, <2>1, <2>2 DEF Parts, LoggedInv
  <1>11. OrderInv'
    <2>1. /\ \A e \in InHand : e.id < new.id
          /\ \A j \in Jobs : \A e \in InJob(j) : e.id < new.id
          /\ \A r \in operlog : r.id < new.id
      BY <1>2, <1>6 DEF Parts, LoggedInv, IsLogged
    <2>2. QED
      BY <1>1, <1>5, <1>7, <2>1 DEF Parts, OrderInv
  <1>12. DaysInv'
    BY <1>1, <1>7 DEF Parts, DaysInv
  <1>13. ChildrenInv' /\ HistoryInv' /\ LastSlice' = LastSlice
         /\ LastOperId' = LastOperId
    <2>1. ASSUME NEW i \in Slices, IsSnapshot(i)
          PROVE  IsSnapshot(i)'
      <3>1. child[i].end \in Nat /\ child[i].end <= len
        BY <2>1, Typed DEF Parts, IsSnapshot
      <3>2. SubSeq(applied', 1, child[i].end) = SubSeq(applied, 1, child[i].end)
        BY <1>1, <1>2, <3>1
      <3>3. QED
        BY <1>1, <1>2, <1>3, <2>1, <3>1, <3>2 DEF IsSnapshot
    <2>2. day' \in Nat /\ day <= day'
      BY <1>1, Typed DEF Parts
    <2>3. QED
      BY <1>1, <2>1, <2>2, SlicesStand
  <1>14. SinceInv'
    BY <1>1, <1>7, <1>13 DEF Parts, SinceInv
  <1>15. SafeUpTo(n)'
    <2>1. \A m \in (n + 1)..len : OnTheWay(m)
      BY <1>1 DEF SafeUpTo
    <2>2. ASSUME NEW m \in (n + 1)..(len + 1)
          PROVE  OnTheWay(m)'
      <3>1. CASE m = len + 1
        BY <1>5, <1>6, <3>1 DEF OnTheWay
      <3>2. CASE m # len + 1
        <4>1. m \in (n + 1)..len
          BY <1>2, <2>2, <3>2
        <4>2. OnTheWay(m)
          BY <2>1, <4>1
        <4>3. QED
          BY <1>5, <1>7, <4>2 DEF OnTheWay
      <3>3. QED
        BY <3>1, <3>2
    <2>3. LastOperId \in Nat /\ LastOperId <= n /\ n <= len + 1
      BY <1>2, LastOperIdNat DEF SafeUpTo, Parts
    <2>4. QED
      BY <1>1, <1>3, <1>13, <2>2, <2>3 DEF SafeUpTo
  <1>16. Durable!Acknowledge
    <2>1. Recovered' = Recovered
      BY <1>1, <1>13 DEF Recovered, Snapshot, Redone, RowsRead, DaysRead
    <2>2. SubSeq(applied', 1, len) = applied
      BY <1>1, <1>2
    <2>3. QED
      BY <1>3, <2>1, <2>2 DEF Durable!Acknowledge
  <1>17. QED
    BY <1>8, <1>9, <1>10, <1>11, <1>12, <1>13, <1>14, <1>15, <1>16
    DEF Keeps, Parts

\* flush_log: the queue grows by the statement of the list, which is emptied,
\* and perhaps by a CREATE before it.
LEMMA Flushed ==
  ASSUME TypeOK, flush_log
  PROVE  /\ jobs' \in Seq(Statement) /\ InList' = {} /\ list' \in Seq(Entry)
         /\ Len(jobs') \in Nat /\ Len(jobs) < Len(jobs')
         /\ \A j \in Jobs : jobs'[j] = jobs[j] /\ InJob(j)' = InJob(j)
         /\ \A j \in (Len(jobs) + 1)..Len(jobs') :
               /\ jobs'[j].day = day
               /\ InJob(j)' = IF j = Len(jobs') THEN InList ELSE {}
  <1> DEFINE S == Statement
  <1>0. PICK ins, cre : /\ ins = [day |-> day, rows |-> list]
                        /\ cre = [day |-> day, rows |-> <<>>]
    OBVIOUS
  <1>1. /\ list' = <<>>
        /\ \/ jobs' = jobs \o <<>> \o <<ins>>
           \/ jobs' = jobs \o <<cre>> \o <<ins>>
    BY <1>0 DEF flush_log
  <1>2. jobs \in Seq(S)
    BY DEF TypeOK
  <1>3. ins \in S /\ cre \in S
    <2>1. day \in Nat /\ list \in Seq(Entry)
      BY DEF TypeOK
    <2>2. <<>> \in Seq(Entry)
      OBVIOUS
    <2>3. QED
      BY <1>0, <2>1, <2>2 DEF Statement
  <1> HIDE DEF S
  <1>4. CASE jobs' = jobs \o <<>> \o <<ins>>
    <2>1. jobs \o <<>> = jobs
      BY <1>2
    <2>2. /\ jobs' \in Seq(S) /\ Len(jobs') = Len(jobs) + 1 /\ Len(jobs) \in Nat
          /\ \A j \in 1..Len(jobs) : jobs'[j] = jobs[j]
          /\ jobs'[Len(jobs) + 1] = ins
      BY <1>2, <1>3, <1>4, <2>1
    <2>3. QED
      BY <1>0, <1>1, <2>2 DEF S, Jobs, InJob, InList, ToSet
  <1>5. CASE jobs' = jobs \o <<cre>> \o <<ins>>
    <2>1. /\ jobs' \in Seq(S) /\ Len(jobs') = Len(jobs) + 2 /\ Len(jobs) \in Nat
          /\ \A j \in 1..Len(jobs) : jobs'[j] = jobs[j]
          /\ jobs'[Len(jobs) + 1] = cre
          /\ jobs'[Len(jobs) + 2] = ins
      <3>1. PICK q : q = jobs \o <<cre>>
        OBVIOUS
      <3>2. /\ q \in Seq(S) /\ Len(q) = Len(jobs) + 1 /\ Len(jobs) \in Nat
            /\ \A j \in 1..Len(jobs) : q[j] = jobs[j]
            /\ q[Len(jobs) + 1] = cre
        BY <1>2, <1>3, <3>1
      <3>3. jobs' = q \o <<ins>>
        BY <1>5, <3>1
      <3>4. /\ jobs' \in Seq(S) /\ Len(jobs') = Len(q) + 1
            /\ \A j \in 1..Len(q) : jobs'[j] = q[j]
            /\ jobs'[Len(q) + 1] = ins
        BY <1>3, <3>2, <3>3
      <3>5. QED
        BY <3>2, <3>4
    <2>2. \A j \in (Len(jobs) + 1)..Len(jobs') :
             j = Len(jobs) + 1 \/ j = Len(jobs) + 2
      BY <2>1
    <2>3. ToSet(<<>>) = {}
      BY DEF ToSet
    <2>4. list' \in Seq(Entry) /\ InList' = {}
      BY <1>1, <2>3 DEF InList
    <2>5. \A j \in Jobs : jobs'[j] = jobs[j] /\ InJob(j)' = InJob(j)
      BY <2>1 DEF Jobs, InJob
    <2>6. \A j \in (Len(jobs) + 1)..Len(jobs') :
               /\ jobs'[j].day = day
               /\ InJob(j)' = IF j = Len(jobs') THEN InList ELSE {}
      <3> SUFFICES ASSUME NEW j \in (Len(jobs) + 1)..Len(jobs')
                   PROVE  /\ jobs'[j].day = day
                          /\ InJob(j)' = IF j = Len(jobs') THEN InList ELSE {}
        OBVIOUS
      <3>1. InJob(j)' = ToSet(jobs'[j].rows)
        BY DEF InJob
      <3>2. CASE j = Len(jobs) + 1
        <4>1. jobs'[j] = cre /\ j # Len(jobs')
          BY <2>1, <3>2
        <4>2. QED
          BY <1>0, <2>3, <3>1, <4>1
      <3>3. CASE j = Len(jobs) + 2
        <4>1. jobs'[j] = ins /\ j = Len(jobs')
          BY <2>1, <3>3
        <4>2. QED
          BY <1>0, <3>1, <4>1 DEF InList
      <3>4. QED
        BY <2>2, <3>2, <3>3
    <2>7. QED
      BY <2>1, <2>4, <2>5, <2>6 DEF S
  <1>6. QED
    BY <1>1, <1>4, <1>5

\* flush_log moves the entries of the list to the end of the queue, with the
\* day of the flush.
LEMMA FlushKeeps ==
  ASSUME Parts, NEW n \in Nat, SafeUpTo(n), flush_log,
         mode # "down", mode' \in {"running", "stopping"}, stops' \in Nat,
         UNCHANGED <<applied, operlog_id_start, working, day, log, slices,
                     served, forks>>
  PROVE  Keeps(n) /\ applied' = applied
  <1> USE DEF log, slices
  <1>1. TypeOK
    BY DEF Parts
  <1>2. /\ jobs' \in Seq(Statement) /\ InList' = {} /\ list' \in Seq(Entry)
        /\ Len(jobs') \in Nat /\ Len(jobs) < Len(jobs')
        /\ \A j \in Jobs : jobs'[j] = jobs[j] /\ InJob(j)' = InJob(j)
        /\ \A j \in (Len(jobs) + 1)..Len(jobs') :
               /\ jobs'[j].day = day
               /\ InJob(j)' = IF j = Len(jobs') THEN InList ELSE {}
    BY <1>1, Flushed
  <1>3. InHand' = InHand /\ Len(jobs) \in Nat /\ table_last' = day
    BY <1>1, Typed DEF InHand, flush_log
  <1>4. ASSUME NEW j \in Jobs', NEW e \in InJob(j)'
        PROVE  \/ j \in Jobs /\ jobs'[j] = jobs[j] /\ e \in InJob(j)
               \/ j \notin Jobs /\ j = Len(jobs') /\ jobs'[j].day = day /\ e \in InList
    <2>1. CASE j \in Jobs
      BY <1>2, <1>4, <2>1
    <2>2. CASE j \notin Jobs
      <3>1. j \in (Len(jobs) + 1)..Len(jobs')
        BY <1>2, <1>3, <1>4, <2>2 DEF Jobs
      <3>2. QED
        BY <1>2, <1>4, <2>2, <3>1
    <2>3. QED
      BY <2>1, <2>2
  <1>5. TypeOK'
    BY <1>1, <1>2, <1>3 DEF TypeOK
  <1>6. MemoryInv'
    BY DEF Parts, MemoryInv
  <1>7. LoggedInv'
    <2>1. \A x : IsLogged(x)' <=> IsLogged(x)
      BY DEF IsLogged
    <2>2. QED
      BY <1>2, <1>3, <1>4, <2>1 DEF Parts, LoggedInv
  <1>8. OrderInv'
    <2>1. ASSUME NEW j \in Jobs', NEW e \in InJob(j)'
          PROVE  /\ \A f \in InHand : f.id < e.id
                 /\ \A k \in Jobs' : j < k => \A f \in InJob(k)' : e.id < f.id
                 /\ \A r \in operlog : r.id < e.id
      <3>1. \A f \in InHand : f.id < e.id
        BY <1>4, <2>1 DEF Parts, OrderInv
      <3>2. \A r \in operlog : r.id < e.id
        BY <1>4, <2>1 DEF Parts, OrderInv
      <3>3. ASSUME NEW k \in Jobs', j < k, NEW f \in InJob(k)'
            PROVE  e.id < f.id
        <4>1. j \in Jobs /\ e \in InJob(j)
          BY <1>2, <1>3, <1>4, <2>1, <3>3 DEF Jobs
        <4>2. QED
          BY <1>4, <3>3, <4>1 DEF Parts, OrderInv
      <3>4. QED
        BY <3>1, <3>2, <3>3
    <2>2. \/ \A r \in operlog, e \in InHand : r.id < e.id
          \/ \A e \in InHand :
                [day |-> working.day, id |-> e.id, op |-> e.op] \in operlog
      BY DEF Parts, OrderInv
    <2>3. QED
      BY <1>2, <1>3, <2>1, <2>2 DEF OrderInv
  <1>9. DaysInv'
    <2>1. ASSUME NEW j \in Jobs', NEW e \in InJob(j)'
          PROVE  /\ \A f \in InHand : working.day <= jobs'[j].day
                 /\ \A k \in Jobs' : j < k => \A f \in InJob(k)' :
                                                jobs'[j].day <= jobs'[k].day
                 /\ \A r \in operlog : r.day <= jobs'[j].day
      <3>2. \A f \in InHand : working.day <= jobs'[j].day
        BY <1>4, <2>1 DEF Parts, DaysInv
      <3>3. \A r \in operlog : r.day <= jobs'[j].day
        BY <1>4, <2>1 DEF Parts, DaysInv
      <3>4. ASSUME NEW k \in Jobs', j < k, NEW f \in InJob(k)'
            PROVE  jobs'[j].day <= jobs'[k].day
        <4>1. j \in Jobs /\ e \in InJob(j) /\ jobs'[j] = jobs[j]
          BY <1>2, <1>3, <1>4, <2>1, <3>4 DEF Jobs
        <4>2. QED
          BY <1>4, <3>4, <4>1 DEF Parts, DaysInv
      <3>5. QED
        BY <3>2, <3>3, <3>4
    <2>2. ASSUME NEW j \in Jobs'
          PROVE  jobs'[j].day \in 1..day
      <3>1. day \in 1..day
        BY <1>1 DEF TypeOK
      <3>2. CASE j \in Jobs
        BY <1>2, <3>2 DEF Parts, DaysInv
      <3>3. CASE j \notin Jobs
        <4>1. j \in (Len(jobs) + 1)..Len(jobs')
          BY <1>2, <1>3, <3>3 DEF Jobs
        <4>2. QED
          BY <1>2, <3>1, <4>1
      <3>4. QED
        BY <3>2, <3>3
    <2>3. QED
      BY <1>3, <2>1, <2>2 DEF Parts, DaysInv
  <1>10. ChildrenInv' /\ HistoryInv' /\ LastSlice' = LastSlice
         /\ LastOperId' = LastOperId
    BY <1>1, Typed, SlicesStand DEF IsSnapshot
  <1>11. SinceInv'
    <2>1. ASSUME NEW i \in 1..forks, NEW j \in Jobs', NEW e \in InJob(j)',
                 e.id > child[i].end
          PROVE  child[i].time <= jobs'[j].day
      <3>1. child[i].time <= day
        BY DEF Parts, ChildrenInv
      <3>2. QED
        BY <1>4, <2>1, <3>1 DEF Parts, SinceInv
    <2>2. LastSlice = 0 => \A j \in Jobs' : \A e \in InJob(j)' : jobs'[j].day = day
      BY <1>4 DEF Parts, SinceInv
    <2>3. QED
      BY <1>3, <1>10, <2>1, <2>2 DEF Parts, SinceInv
  <1>12. SafeUpTo(n)'
    <2>1. ASSUME NEW m, OnTheWay(m)
          PROVE  OnTheWay(m)'
      <3>1. CASE \E e \in InHand : e.id = m
        BY <1>3, <3>1 DEF OnTheWay
      <3>2. CASE \E j \in Jobs : \E e \in InJob(j) : e.id = m
        <4>1. PICK j \in Jobs : \E e \in InJob(j) : e.id = m
          BY <3>2
        <4>2. j \in Jobs' /\ InJob(j)' = InJob(j)
          BY <1>2, <1>3 DEF Jobs
        <4>3. QED
          BY <4>1, <4>2 DEF OnTheWay
      <3>3. CASE \E e \in InList : e.id = m
        <4>1. PICK N \in Nat : N = Len(jobs')
          BY <1>2
        <4>2. N \in Jobs' /\ InJob(N)' = InList
          BY <1>2, <1>3, <4>1 DEF Jobs
        <4>3. QED
          BY <3>3, <4>2 DEF OnTheWay
      <3>4. QED
        BY <2>1, <3>1, <3>2, <3>3 DEF OnTheWay
    <2>2. QED
      BY <1>10, <2>1 DEF SafeUpTo
  <1>13. QED
    BY <1>5, <1>6, <1>7, <1>8, <1>9, <1>10, <1>11, <1>12 DEF Keeps, Parts

\* thread_routine: the head of the queue goes to the worker's hands.
LEMMA TakeKeeps ==
  ASSUME Parts, NEW n \in Nat, SafeUpTo(n), Take
  PROVE  Keeps(n) /\ applied' = applied
  <1> USE DEF engine, log, slices, counts
  <1>1. /\ mode # "down" /\ working = NoJob /\ jobs # <<>>
        /\ working' = Head(jobs) /\ jobs' = Tail(jobs)
        /\ UNCHANGED <<engine, day, log, slices, counts>>
    BY DEF Take
  <1>2. TypeOK
    BY DEF Parts
  <1>3. InHand = {} /\ InList' = InList
    BY <1>1 DEF InHand, InList, NoJob, ToSet
  <1> DEFINE S == Statement
  <1>4. jobs \in Seq(S)
    BY <1>2 DEF TypeOK
  <1> HIDE DEF S
  <1>5. /\ Len(jobs) \in Nat \ {0} /\ 1 \in Jobs
        /\ working' = jobs[1] /\ jobs[1] \in S
        /\ jobs' \in Seq(S) /\ Len(jobs') = Len(jobs) - 1
        /\ \A j \in 1..Len(jobs') : jobs'[j] = jobs[j + 1]
    BY <1>1, <1>4 DEF Jobs
  <1>6. InHand' = InJob(1)
    BY <1>5 DEF InHand, InJob
  <1>7. \A j \in Jobs' : /\ j + 1 \in Jobs /\ jobs'[j] = jobs[j + 1]
                         /\ InJob(j)' = InJob(j + 1) /\ j \in Nat
    BY <1>5 DEF Jobs, InJob
  <1>8. TypeOK'
    BY <1>1, <1>2, <1>5 DEF TypeOK, S
  <1>9. MemoryInv'
    BY <1>1 DEF Parts, MemoryInv
  <1>10. LoggedInv'
    <2>1. \A x : IsLogged(x)' <=> IsLogged(x)
      BY <1>1 DEF IsLogged
    <2>2. QED
      BY <1>1, <1>3, <1>5, <1>6, <1>7, <2>1 DEF Parts, LoggedInv
  <1>11. OrderInv'
    <2>1. ASSUME NEW j \in Jobs', NEW e \in InJob(j)'
          PROVE  /\ \A f \in InHand' : f.id < e.id
                 /\ \A f \in InList : e.id < f.id
                 /\ \A k \in Jobs' : j < k => \A f \in InJob(k)' : e.id < f.id
                 /\ \A r \in operlog : r.id < e.id
      <3>1. j + 1 \in Jobs /\ e \in InJob(j + 1) /\ 1 < j + 1
        BY <1>7, <2>1 DEF Jobs
      <3>2. \A f \in InHand' : f.id < e.id
        BY <1>5, <1>6, <3>1 DEF Parts, OrderInv
      <3>3. (\A f \in InList : e.id < f.id) /\ (\A r \in operlog : r.id < e.id)
        BY <3>1 DEF Parts, OrderInv
      <3>4. ASSUME NEW k \in Jobs', j < k, NEW f \in InJob(k)'
            PROVE  e.id < f.id
        <4>1. k + 1 \in Jobs /\ f \in InJob(k + 1) /\ j + 1 < k + 1
          BY <1>7, <2>1, <3>4
        <4>2. QED
          BY <3>1, <4>1 DEF Parts, OrderInv
      <3>5. QED
        BY <3>2, <3>3, <3>4
    <2>2. \A e \in InHand' : /\ \A f \in InList : e.id < f.id
                             /\ \A r \in operlog : r.id < e.id
      BY <1>5, <1>6 DEF Parts, OrderInv
    <2>3. \A r \in operlog, e \in InList : r.id < e.id
      BY DEF Parts, OrderInv
    <2>4. QED
      BY <1>1, <1>3, <2>1, <2>2, <2>3 DEF OrderInv
  <1>12. DaysInv'
    <2>1. ASSUME NEW j \in Jobs', NEW e \in InJob(j)'
          PROVE  /\ \A f \in InHand' : working'.day <= jobs'[j].day
                 /\ \A k \in Jobs' : j < k => \A f \in InJob(k)' :
                                                jobs'[j].day <= jobs'[k].day
                 /\ \A r \in operlog : r.day <= jobs'[j].day
      <3>1. /\ j + 1 \in Jobs /\ e \in InJob(j + 1) /\ 1 < j + 1
            /\ jobs'[j] = jobs[j + 1]
        BY <1>7, <2>1 DEF Jobs
      <3>2. \A f \in InHand' : working'.day <= jobs'[j].day
        BY <1>5, <1>6, <3>1 DEF Parts, DaysInv
      <3>3. \A r \in operlog : r.day <= jobs'[j].day
        BY <3>1 DEF Parts, DaysInv
      <3>4. ASSUME NEW k \in Jobs', j < k, NEW f \in InJob(k)'
            PROVE  jobs'[j].day <= jobs'[k].day
        <4>1. /\ k + 1 \in Jobs /\ f \in InJob(k + 1) /\ j + 1 < k + 1
              /\ jobs'[k] = jobs[k + 1]
          BY <1>7, <2>1, <3>4
        <4>2. QED
          BY <3>1, <4>1 DEF Parts, DaysInv
      <3>5. QED
        BY <3>2, <3>3, <3>4
    <2>2. \A e \in InHand' : \A r \in operlog : r.day <= working'.day
      BY <1>5, <1>6 DEF Parts, DaysInv
    <2>3. working'.day \in 1..day /\ \A j \in Jobs' : jobs'[j].day \in 1..day
      BY <1>5, <1>7 DEF Parts, DaysInv
    <2>4. \A e \in InHand' : working'.day <= day
      BY <1>2, <2>3, Typed
    <2>5. QED
      BY <1>1, <2>1, <2>2, <2>3, <2>4 DEF Parts, DaysInv
  <1>13. ChildrenInv' /\ HistoryInv' /\ LastSlice' = LastSlice
         /\ LastOperId' = LastOperId
    BY <1>1, <1>2, Typed, SlicesStand DEF IsSnapshot
  <1>14. SinceInv'
    BY ZenonT(60), <1>1, <1>5, <1>6, <1>7, <1>13 DEF Parts, SinceInv
  <1>15. SafeUpTo(n)'
    <2>1. ASSUME NEW m, OnTheWay(m)
          PROVE  OnTheWay(m)'
      <3>1. ~\E e \in InHand : e.id = m
        BY <1>3
      <3>2. CASE \E j \in Jobs : \E e \in InJob(j) : e.id = m
        <4>1. PICK j \in Jobs : \E e \in InJob(j) : e.id = m
          BY <3>2
        <4>2. CASE j = 1
          BY <1>6, <4>1, <4>2 DEF OnTheWay
        <4>3. CASE j # 1
          <5>1. PICK k \in Nat : k \in Jobs' /\ j = k + 1
            BY <1>5, <4>3 DEF Jobs
          <5>2. InJob(k)' = InJob(j)
            BY <1>7, <5>1
          <5>3. QED
            BY <4>1, <5>1, <5>2 DEF OnTheWay
        <4>4. QED
          BY <4>2, <4>3
      <3>3. CASE \E e \in InList : e.id = m
        BY <1>3, <3>3 DEF OnTheWay
      <3>4. QED
        BY <2>1, <3>1, <3>2, <3>3 DEF OnTheWay
    <2>2. QED
      BY <1>1, <1>13, <2>1 DEF SafeUpTo
  <1>16. QED
    BY <1>1, <1>8, <1>9, <1>10, <1>11, <1>12, <1>13, <1>14, <1>15 DEF Keeps, Parts

\* Entries with ids up to b, and a number not above b: one of the ids, or the
\* number, is the greatest.
LEMMA GreatestId ==
  ASSUME NEW E, NEW n \in Nat, NEW b \in Nat, n <= b,
         \A e \in E : e.id \in Nat /\ e.id <= b
  PROVE  \E m \in n..b : /\ \A e \in E : e.id <= m
                         /\ m = n \/ \E e \in E : e.id = m
  <1> DEFINE T == {k \in Nat : n <= k /\ \A e \in E : e.id <= k}
  <1>1. b \in T
    OBVIOUS
  <1>2. PICK m \in T : \A k \in T : ~ (<<k, m>> \in OpToRel(<, Nat))
    <2>1. T \subseteq Nat /\ T # {}
      BY <1>1
    <2> HIDE DEF T
    <2>2. QED
      BY <2>1, WFMin, NatLessThanWellFounded
  <1>3. \A k \in T : ~ (k < m)
    BY <1>2 DEF OpToRel
  <1>4. m \in n..b
    BY <1>1, <1>3
  <1>5. CASE m # n
    <2>1. m - 1 \in Nat /\ n <= m - 1 /\ m - 1 \notin T
      BY <1>3, <1>4, <1>5
    <2>2. PICK e \in E : ~ (e.id <= m - 1)
      BY <2>1
    <2>3. e.id = m
      BY <1>4, <2>2
    <2>4. QED
      BY <1>4, <2>3
  <1>6. CASE m = n
    BY <1>4, <1>6
  <1>7. QED
    BY <1>5, <1>6

\* The rows of the statement in the worker's hands.
RowsInHand == {[day |-> working.day, id |-> e.id, op |-> e.op] : e \in InHand}

\* An INSERT adds all of its rows, or all of them were there: errno 1062 is
\* answered to a statement that has been executed before.
LEMMA ExecuteAdds ==
  ASSUME Parts, Execute(working)
  PROVE  operlog' = operlog \cup RowsInHand
  <1>1. RowsInHand = {[day |-> working.day, id |-> e.id, op |-> e.op] :
                         e \in ToSet(working.rows)}
    BY DEF RowsInHand, InHand
  <1>2. operlog' = IF \E r \in RowsInHand, q \in operlog :
                           q.day = r.day /\ q.id = r.id
                   THEN operlog ELSE operlog \cup RowsInHand
    BY <1>1 DEF Execute
  <1>3. CASE \A r \in operlog, e \in InHand : r.id < e.id
    <2>1. \A r \in operlog : r.id \in Nat
      BY Typed DEF Parts
    <2>2. \A e \in InHand : e.id \in Nat
      BY Typed DEF Parts
    <2>3. ~\E r \in RowsInHand, q \in operlog : q.day = r.day /\ q.id = r.id
      BY <1>3, <2>1, <2>2 DEF RowsInHand
    <2>4. QED
      BY <1>2, <2>3
  <1>4. CASE \A e \in InHand :
                [day |-> working.day, id |-> e.id, op |-> e.op] \in operlog
    <2>1. RowsInHand \subseteq operlog
      BY <1>4 DEF RowsInHand
    <2>2. QED
      BY <1>2, <2>1
  <1>5. QED
    BY <1>3, <1>4 DEF Parts, OrderInv

\* on_job, answered or not: more of what is on its way is safe.
LEMMA ExecuteKeeps ==
  ASSUME Parts, NEW n \in Nat, SafeUpTo(n), mode # "down",
         Execute(working), working # NoJob, working' \in {working, NoJob},
         UNCHANGED <<engine, jobs, day, slices, counts>>
  PROVE  \E m \in Nat : n <= m /\ Keeps(m)
  <1> USE DEF engine, slices, counts
  <1>1. TypeOK
    BY DEF Parts
  <1>2. operlog' = operlog \cup RowsInHand
    BY ExecuteAdds
  <1>3. \A e \in InHand : /\ e.id \in Nat /\ e.op \in Nat /\ working.day \in Nat
                          /\ IsLogged(e)
    BY <1>1, Typed DEF Parts, LoggedInv
  <1>4. ASSUME NEW r \in operlog', r \notin operlog
        PROVE  \E e \in InHand : /\ r = [day |-> working.day, id |-> e.id,
                                         op |-> e.op]
                                 /\ r.day = working.day /\ r.id = e.id
                                 /\ r.op = e.op
    BY <1>2, <1>4 DEF RowsInHand
  <1>5. /\ InList' = InList /\ Jobs' = Jobs
        /\ \A j \in Jobs : InJob(j)' = InJob(j) /\ jobs'[j] = jobs[j]
    BY DEF InList, Jobs, InJob
  <1>6. \/ working' = working /\ InHand' = InHand
        \/ InHand' = {}
    BY DEF InHand, NoJob, ToSet
  <1>7. \A r \in operlog : r.id \in Nat /\ r.day \in Nat
    BY <1>1, Typed
  <1>8. TypeOK'
    <2>1. working.day \in 1..day
      BY DEF Parts, DaysInv
    <2>2. tables' \subseteq 1..day
      BY <1>1, <2>1 DEF Execute, TypeOK
    <2>3. RowsInHand \subseteq Row
      BY <1>3 DEF RowsInHand, Row
    <2>4. operlog' \subseteq Row
      BY <1>1, <1>2, <2>3 DEF TypeOK
    <2>5. working' \in Statement
      <3>1. <<>> \in Seq(Entry)
        OBVIOUS
      <3>2. NoJob \in Statement
        BY <3>1 DEF NoJob, Statement
      <3>3. QED
        BY <1>1, <3>2 DEF TypeOK
    <2>6. QED
      BY <1>1, <2>2, <2>4, <2>5 DEF TypeOK
  <1>9. MemoryInv'
    BY DEF Parts, MemoryInv
  <1>10. LoggedInv'
    <2>1. \A x : IsLogged(x)' <=> IsLogged(x)
      BY DEF IsLogged
    <2>2. \A r \in operlog' : IsLogged(r)
      <3> SUFFICES ASSUME NEW r \in operlog', r \notin operlog
                   PROVE  IsLogged(r)
        BY DEF Parts, LoggedInv
      <3>1. PICK e \in InHand : r.id = e.id /\ r.op = e.op
        BY <1>4
      <3>2. QED
        BY <1>3, <3>1 DEF IsLogged
    <2>3. QED
      BY <1>5, <1>6, <2>1, <2>2 DEF Parts, LoggedInv
  <1>11. OrderInv'
    <2>1. \A r \in operlog' : /\ \A e \in InList : r.id < e.id
                              /\ \A j \in Jobs : \A e \in InJob(j) : r.id < e.id
      <3> SUFFICES ASSUME NEW r \in operlog', r \notin operlog
                   PROVE  /\ \A e \in InList : r.id < e.id
                          /\ \A j \in Jobs : \A e \in InJob(j) : r.id < e.id
        BY DEF Parts, OrderInv
      <3>1. PICK e \in InHand : r.id = e.id
        BY <1>4
      <3>2. QED
        BY <3>1 DEF Parts, OrderInv
    <2>2. \A e \in InHand :
             [day |-> working.day, id |-> e.id, op |-> e.op] \in operlog'
      BY <1>2 DEF RowsInHand
    <2>3. QED
      BY <1>5, <1>6, <2>1, <2>2 DEF Parts, OrderInv
  <1>12. DaysInv'
    <2>1. ASSUME NEW r \in operlog'
          PROVE  /\ r.day <= day
                 /\ \A e \in InHand : r.day <= working.day
                 /\ \A j \in Jobs : \A e \in InJob(j) : r.day <= jobs[j].day
      <3>1. CASE r \in operlog
        BY <3>1 DEF Parts, DaysInv
      <3>2. CASE r \notin operlog
        <4>1. PICK e \in InHand : r.day = working.day
          BY <1>4, <3>2
        <4>2. working.day \in 1..day
          BY DEF Parts, DaysInv
        <4>3. \A j \in Jobs : \A f \in InJob(j) : working.day <= jobs[j].day
          BY <4>1 DEF Parts, DaysInv
        <4>4. QED
          BY <1>1, <4>1, <4>2, <4>3, Typed
      <3>3. QED
        BY <3>1, <3>2
    <2>2. ASSUME NEW q \in operlog', NEW r \in operlog', q.day < r.day
          PROVE  q.id < r.id
      <3>1. CASE \A x \in operlog, e \in InHand : x.id < e.id
        <4>1. CASE q \in operlog /\ r \in operlog
          BY <2>2, <4>1 DEF Parts, DaysInv
        <4>2. CASE q \in operlog /\ r \notin operlog
          BY <1>4, <3>1, <4>2
        <4>3. CASE q \notin operlog /\ r \in operlog
          <5>1. q.day = working.day /\ r.day <= working.day
            BY <1>4, <4>3 DEF Parts, DaysInv
          <5>2. QED
            BY <1>3, <1>4, <1>7, <2>2, <4>3, <5>1
        <4>4. CASE q \notin operlog /\ r \notin operlog
          <5>1. q.day = working.day /\ r.day = working.day /\ working.day \in Nat
            BY <1>3, <1>4, <4>4
          <5>2. QED
            BY <2>2, <5>1
        <4>5. QED
          BY <4>1, <4>2, <4>3, <4>4
      <3>2. CASE \A e \in InHand :
                    [day |-> working.day, id |-> e.id, op |-> e.op] \in operlog
        <4>1. operlog' = operlog
          BY <1>2, <3>2 DEF RowsInHand
        <4>2. QED
          BY <2>2, <4>1 DEF Parts, DaysInv
      <3>3. QED
        BY <3>1, <3>2 DEF Parts, OrderInv
    <2>3. working' # NoJob => working'.day \in 1..day
      BY DEF Parts, DaysInv
    <2>4. \A j \in Jobs : jobs[j].day \in 1..day
      BY DEF Parts, DaysInv
    <2>5. \A j \in Jobs : \A e \in InJob(j) :
             /\ \A f \in InHand : working.day <= jobs[j].day
             /\ \A k \in Jobs : j < k => \A f \in InJob(k) :
                                            jobs[j].day <= jobs[k].day
      BY DEF Parts, DaysInv
    <2>6. QED
      BY <1>5, <1>6, <2>1, <2>2, <2>3, <2>4, <2>5 DEF Parts, DaysInv
  <1>13. ChildrenInv' /\ HistoryInv' /\ LastSlice' = LastSlice
         /\ LastOperId' = LastOperId
    BY <1>1, Typed, SlicesStand DEF IsSnapshot
  <1>14. SinceInv'
    <2>1. ASSUME NEW r \in operlog', r \notin operlog
          PROVE  /\ \A i \in 1..forks : r.id > child[i].end
                                           => child[i].time <= r.day
                 /\ LastSlice = 0 => r.day = day
      <3>1. PICK e \in InHand : r.day = working.day /\ r.id = e.id
        BY <1>4, <2>1
      <3>2. QED
        BY <3>1 DEF Parts, SinceInv
    <2>2. QED
      BY <1>5, <1>6, <1>13, <2>1 DEF Parts, SinceInv
  <1>15. LastOperId \in Nat /\ LastOperId <= n /\ n <= Len(applied)
         /\ Len(applied) \in Nat
    BY <1>1, LastOperIdNat, Typed DEF SafeUpTo, Parts
  <1>16. PICK m \in n..Len(applied) :
            /\ \A e \in InHand : e.id <= m
            /\ m = n \/ \E e \in InHand : e.id = m
    <2>1. \A e \in InHand : e.id \in Nat /\ e.id <= Len(applied)
      BY <1>3 DEF IsLogged
    <2>2. QED
      BY <1>15, <2>1, GreatestId
  <1>17. ASSUME NEW k \in (n + 1)..Len(applied), OnTheWay(k),
                ~\E e \in InHand : e.id = k
         PROVE  /\ \A e \in InHand : e.id < k
                /\ OnTheWay(k)'
    <2>1. CASE \E j \in Jobs : \E f \in InJob(j) : f.id = k
      <3>1. \A e \in InHand : e.id < k
        BY <2>1 DEF Parts, OrderInv
      <3>2. QED
        BY <1>5, <2>1, <3>1 DEF OnTheWay
    <2>2. CASE \E f \in InList : f.id = k
      <3>1. \A e \in InHand : e.id < k
        BY <2>2 DEF Parts, OrderInv
      <3>2. QED
        BY <1>5, <2>2, <3>1 DEF OnTheWay
    <2>3. QED
      BY <1>17, <2>1, <2>2 DEF OnTheWay
  <1>18. SafeUpTo(m)'
    <2>1. ASSUME NEW k \in (LastOperId + 1)..m
          PROVE  \E r \in operlog' : r.id = k
      <3>1. CASE k <= n
        <4>1. k \in (LastOperId + 1)..n
          BY <1>15, <2>1, <3>1
        <4>2. QED
          BY <1>2, <4>1 DEF SafeUpTo
      <3>2. CASE k > n
        <4>1. k \in (n + 1)..Len(applied)
          BY <1>15, <1>16, <2>1, <3>2
        <4>2. OnTheWay(k)
          BY <4>1 DEF SafeUpTo
        <4>3. PICK e \in InHand : e.id = m
          BY <1>15, <1>16, <2>1, <3>2
        <4>4. ~ (e.id < k)
          BY <1>15, <1>16, <2>1, <4>3
        <4>5. PICK f \in InHand : f.id = k
          BY <1>17, <4>1, <4>2, <4>4
        <4>6. [day |-> working.day, id |-> f.id, op |-> f.op] \in operlog'
          BY <1>2 DEF RowsInHand
        <4>7. QED
          BY <4>5, <4>6
      <3>3. QED
        BY <1>15, <2>1, <3>1, <3>2
    <2>2. ASSUME NEW r \in operlog'
          PROVE  r.id <= m
      <3>1. CASE r \in operlog
        <4>1. r.id <= n /\ r.id \in Nat
          BY <1>7, <3>1 DEF SafeUpTo
        <4>2. QED
          BY <1>15, <1>16, <4>1
      <3>2. CASE r \notin operlog
        BY <1>4, <1>16, <3>2
      <3>3. QED
        BY <3>1, <3>2
    <2>3. ASSUME NEW k \in (m + 1)..Len(applied)
          PROVE  OnTheWay(k)'
      <3>1. k \in (n + 1)..Len(applied) /\ k > m
        BY <1>15, <1>16, <2>3
      <3>2. OnTheWay(k)
        BY <3>1 DEF SafeUpTo
      <3>3. ~\E e \in InHand : e.id = k
        BY <1>16, <3>1
      <3>4. QED
        BY <1>17, <3>1, <3>2, <3>3
    <2>4. QED
      BY <1>13, <1>15, <1>16, <2>1, <2>2, <2>3 DEF SafeUpTo
  <1>19. QED
    <2>1. m \in Nat /\ n <= m
      BY <1>15, <1>16
    <2>2. Keeps(m)
      BY <1>8, <1>9, <1>10, <1>11, <1>12, <1>13, <1>14, <1>18 DEF Keeps, Parts
    <2>3. QED
      BY <2>1, <2>2

\* The end of an engine, by a crash or an exit, takes what was on its way.
LEMMA GoneKeeps ==
  ASSUME Parts, NEW n \in Nat, SafeUpTo(n), Gone, stops' \in Nat,
         UNCHANGED <<day, log, slices, served, forks>>
  PROVE  Keeps(n) /\ applied' = applied
  <1> USE DEF log, slices
  <1>1. /\ mode' = "down" /\ operlog_id_start' = 0
        /\ list' = <<>> /\ table_last' = 0
        /\ jobs' = <<>> /\ working' = NoJob
        /\ applied' = applied
    BY DEF Gone
  <1>2. TypeOK
    BY DEF Parts
  <1>3. InList' = {} /\ InHand' = {} /\ Jobs' = {}
    BY <1>1 DEF InList, InHand, Jobs, NoJob, ToSet
  <1>4. TypeOK'
    <2>1. /\ <<>> \in Seq(Entry) /\ <<>> \in Seq(Statement)
          /\ NoJob \in Statement /\ 0 \in 0..day
      BY <1>2 DEF NoJob, Statement, TypeOK
    <2>2. QED
      BY <1>1, <1>2, <2>1 DEF TypeOK
  <1>5. MemoryInv' /\ OrderInv'
    BY <1>1, <1>3 DEF Parts, MemoryInv, OrderInv
  <1>6. LoggedInv'
    BY <1>1, <1>3 DEF Parts, LoggedInv, IsLogged
  <1>7. DaysInv'
    BY <1>1, <1>3 DEF Parts, DaysInv
  <1>8. ChildrenInv' /\ HistoryInv' /\ LastSlice' = LastSlice
        /\ LastOperId' = LastOperId
    BY <1>1, <1>2, Typed, SlicesStand DEF IsSnapshot
  <1>9. SinceInv'
    BY <1>3, <1>8 DEF Parts, SinceInv
  <1>10. SafeUpTo(n)'
    BY <1>1, <1>8 DEF SafeUpTo
  <1>11. QED
    BY <1>1, <1>4, <1>5, <1>6, <1>7, <1>8, <1>9, <1>10 DEF Keeps, Parts

\* Midnight: if no slice is recorded, nothing was served yet.
LEMMA NextDayKeeps ==
  ASSUME Faults = {}, Parts, NEW n \in Nat, SafeUpTo(n), NextDay
  PROVE  Keeps(n) /\ applied' = applied
  <1> USE DEF engine, queue, log, slices, counts
  <1>1. /\ slice_history # {} \/ served = 0
        /\ day' = day + 1
        /\ UNCHANGED <<engine, queue, log, slices, counts>>
    BY DEF NextDay
  <1>2. TypeOK /\ day \in Nat \ {0} /\ day' \in Nat \ {0} /\ day <= day'
    BY <1>1 DEF Parts, TypeOK
  <1>3. /\ InHand' = InHand /\ InList' = InList /\ Jobs' = Jobs
        /\ \A j \in Jobs : InJob(j)' = InJob(j)
    BY <1>1 DEF InHand, InList, Jobs, InJob
  <1>4. TypeOK'
    <2>1. 1..day \subseteq 1..day' /\ 0..day \subseteq 0..day'
      BY <1>1, <1>2
    <2>2. QED
      BY <1>1, <1>2, <2>1 DEF TypeOK
  <1>5. MemoryInv' /\ OrderInv'
    BY <1>1, <1>3 DEF Parts, MemoryInv, OrderInv
  <1>6. LoggedInv'
    BY <1>1, <1>3 DEF Parts, LoggedInv, IsLogged
  <1>7. DaysInv'
    <2>1. \A r \in operlog : r.day <= day'
      <3>1. \A r \in operlog : r.day \in Nat /\ r.day <= day
        BY <1>2, Typed DEF Parts, DaysInv
      <3>2. QED
        BY <1>1, <1>2, <3>1
    <2>2. 1..day \subseteq 1..day'
      BY <1>1, <1>2
    <2>3. \A e \in InHand : working.day <= day'
      <3>1. \A e \in InHand : working.day <= day /\ working.day \in Nat
        BY <1>2, Typed DEF Parts, DaysInv
      <3>2. QED
        BY <1>1, <1>2, <3>1
    <2>4. QED
      BY <1>1, <1>3, <2>1, <2>2, <2>3 DEF Parts, DaysInv
  <1>8. ChildrenInv' /\ HistoryInv' /\ LastSlice' = LastSlice
        /\ LastOperId' = LastOperId
    BY <1>1, <1>2, SlicesStand DEF IsSnapshot
  <1>9. SinceInv'
    <2>1. CASE slice_history # {}
      <3>1. LastSlice # 0
        BY <2>1, LastRecordIs DEF Parts
      <3>2. QED
        BY <1>1, <1>3, <1>8, <3>1 DEF Parts, SinceInv
    <2>2. CASE served = 0
      <3>1. applied = <<>>
        BY <2>2 DEF Parts, MemoryInv
      <3>2. \A x : ~IsLogged(x)
        BY <3>1 DEF IsLogged
      <3>3. /\ operlog = {} /\ InHand = {}
            /\ \A j \in Jobs : InJob(j) = {}
        BY <3>2 DEF Parts, LoggedInv
      <3>4. QED
        BY <1>1, <1>3, <3>3 DEF SinceInv
    <2>3. QED
      BY <1>1, <2>1, <2>2
  <1>10. SafeUpTo(n)'
    BY <1>1, <1>3, <1>8 DEF SafeUpTo, OnTheWay
  <1>11. QED
    BY <1>1, <1>4, <1>5, <1>6, <1>7, <1>8, <1>9, <1>10 DEF Keeps, Parts

\* make_slice: the child has the memory of this moment, and nothing on its
\* way or in the database is later than it.
LEMMA MakeSliceKeeps ==
  ASSUME Faults = {}, Parts, NEW n \in Nat, SafeUpTo(n), MakeSlice
  PROVE  Keeps(n) /\ applied' = applied
  <1> USE DEF engine, queue, log
  <1>0. PICK new : new = [step |-> "orders", time |-> day, state |-> applied,
                          end |-> operlog_id_start, victims |-> {}, victim |-> 0]
    OBVIOUS
  <1>1. /\ mode = "running" /\ forks < MaxSlices /\ NoneRuns
        /\ forks' = forks + 1
        /\ child' = [child EXCEPT ![forks + 1] = new]
        /\ UNCHANGED <<engine, queue, day, log, slice_order, slice_balance,
                       slice_history, served, stops>>
    BY <1>0 DEF MakeSlice
  <1>2. TypeOK /\ forks \in Nat /\ MaxSlices \in Nat /\ forks + 1 \in Slices
        /\ Len(applied) \in Nat
    BY SMTT(30), <1>1, Typed DEF Parts, TypeOK, Slices
  <1>3. operlog_id_start = Len(applied)
    BY <1>1 DEF Parts, MemoryInv
  <1>4. /\ new.step = "orders" /\ new.time = day /\ new.state = applied
        /\ new.end = Len(applied) /\ new \in Child
    <2>1. new \in Child
      <3>1. /\ applied \in Seq(Nat) /\ operlog_id_start \in Nat /\ day \in Nat
            /\ {} \subseteq Slices /\ 0 \in Nat /\ "orders" \in Steps
        BY <1>2 DEF TypeOK, Steps
      <3>2. QED
        BY <1>0, <3>1 DEF Child
    <2>2. QED
      BY <1>0, <1>3, <2>1
  <1>5. /\ child' \in [Slices -> Child] /\ child'[forks + 1] = new
        /\ \A i \in Slices : i # forks + 1 => child'[i] = child[i]
    BY <1>1, <1>2, <1>4 DEF TypeOK
  <1>6. /\ InHand' = InHand /\ InList' = InList /\ Jobs' = Jobs
        /\ \A j \in Jobs : InJob(j)' = InJob(j)
    BY <1>1 DEF InHand, InList, Jobs, InJob
  <1>7. TypeOK'
    BY <1>1, <1>2, <1>5 DEF TypeOK
  <1>8. MemoryInv' /\ OrderInv'
    BY <1>1, <1>6 DEF Parts, MemoryInv, OrderInv
  <1>9. LoggedInv' /\ DaysInv'
    BY <1>1, <1>6 DEF Parts, LoggedInv, IsLogged, DaysInv
  <1>10. /\ LastSlice' = LastSlice /\ LastSlice # forks + 1
         /\ LastOperId' = LastOperId /\ LastOperId <= Len(applied)
         /\ LastSlice # 0 => LastSlice \in Slices /\ LastSlice <= forks
    <2>1. LastSlice' = LastSlice
      BY <1>1 DEF LastSlice, LastRecord
    <2>2. LastSlice # 0 => LastSlice \in Slices /\ LastSlice <= forks
      BY LastRecordIs DEF Parts, LastSlice
    <2>3. LastSlice # forks + 1
      BY <1>2, <2>2, Typed
    <2>4. LastOperId' = LastOperId
      BY <1>5, <2>1, <2>2, <2>3 DEF LastOperId
    <2>5. LastOperId <= Len(applied)
      BY <1>2, LastOperIdNat DEF SafeUpTo, Parts
    <2>6. QED
      BY <2>1, <2>2, <2>3, <2>4, <2>5
  <1>11. HistoryInv'
    <2>1. \A r \in slice_history : r.slice <= forks'
      BY <1>1, <1>2, Typed DEF Parts, HistoryInv
    <2>2. LastSlice # 0 => (Whole(LastSlice) /\ IsSnapshot(LastSlice))'
      BY <1>1, <1>5, <1>10 DEF Parts, HistoryInv, Whole, IsSnapshot
    <2>3. QED
      BY <1>1, <1>10, <2>1, <2>2 DEF Parts, HistoryInv
  <1>12. ChildrenInv'
    <2>1. \A i \in Slices : /\ i > forks' => child'[i].step = "idle"
                            /\ child'[i].step \in Steps => i = forks'
      <3> SUFFICES ASSUME NEW i \in Slices
                   PROVE  /\ i > forks' => child'[i].step = "idle"
                          /\ child'[i].step \in Steps => i = forks'
        OBVIOUS
      <3>1. CASE i = forks + 1
        BY <1>1, <1>2, <3>1
      <3>2. CASE i # forks + 1
        <4>1. child'[i] = child[i] /\ ~ (child[i].step \in Steps)
          BY <1>1, <1>5, <3>2 DEF NoneRuns, Running
        <4>2. i > forks' => i > forks
          BY <1>1, <1>2, Typed
        <4>3. QED
          BY <4>1, <4>2 DEF Parts, ChildrenInv
      <3>3. QED
        BY <3>1, <3>2
    <2>2. \A i \in 1..forks : /\ i \in Slices /\ child'[i] = child[i]
                              /\ child[i].time \in Nat /\ child[i].time <= day
      BY <1>1, <1>2, <1>5, Typed DEF Parts, ChildrenInv, Slices
    <2>3. \A i \in 1..forks' : i \in 1..forks \/ i = forks + 1
      BY <1>1, <1>2
    <2>4. \A i, k \in 1..forks' : i <= k => child'[i].time <= child'[k].time
      <3> SUFFICES ASSUME NEW i \in 1..forks', NEW k \in 1..forks', i <= k
                   PROVE  child'[i].time <= child'[k].time
        OBVIOUS
      <3>1. CASE k \in 1..forks
        <4>1. i \in 1..forks
          BY <1>2, <3>1
        <4>2. QED
          BY <2>2, <3>1, <4>1 DEF Parts, ChildrenInv
      <3>2. CASE k = forks + 1
        BY <1>2, <1>4, <1>5, <2>2, <2>3, <3>2, Typed
      <3>3. QED
        BY <2>3, <3>1, <3>2
    <2>5. \A i \in 1..forks' : child'[i].time <= day
      BY <1>2, <1>4, <1>5, <2>2, <2>3, Typed
    <2>6. ASSUME NEW i \in Slices, child'[i].step \in Steps
          PROVE  /\ child'[i].step = "orders"
                 /\ IsSnapshot(i)' /\ LastOperId <= child'[i].end
                 /\ \A r \in slice_history : r.slice < i
      <3>1. i = forks + 1
        BY <1>1, <2>1, <2>6
      <3>2. SubSeq(applied, 1, Len(applied)) = applied
        BY <1>2 DEF TypeOK
      <3>3. \A r \in slice_history : r.slice < i
        BY <1>2, <3>1, Typed DEF Parts, HistoryInv
      <3>4. QED
        BY <1>1, <1>2, <1>4, <1>5, <1>10, <3>1, <3>2, <3>3 DEF IsSnapshot
    <2>7. QED
      BY <1>1, <1>10, <2>1, <2>4, <2>5, <2>6 DEF ChildrenInv, Running, Steps
  <1>13. SinceInv'
    <2>1. \A i \in 1..forks' : /\ i \in 1..forks => child'[i] = child[i]
                               /\ i \notin 1..forks => child'[i].end = Len(applied)
      BY <1>1, <1>2, <1>4, <1>5 DEF Slices
    <2>2. /\ \A r \in operlog : ~ (r.id > Len(applied))
          /\ \A e \in InHand : ~ (e.id > Len(applied))
          /\ \A j \in Jobs : \A e \in InJob(j) : ~ (e.id > Len(applied))
      BY <1>2 DEF Parts, LoggedInv, IsLogged
    <2>3. QED
      BY <1>1, <1>6, <1>10, <2>1, <2>2 DEF Parts, SinceInv
  <1>14. SafeUpTo(n)'
    BY <1>1, <1>6, <1>10 DEF SafeUpTo, OnTheWay
  <1>15. QED
    BY <1>1, <1>7, <1>8, <1>9, <1>11, <1>12, <1>13, <1>14 DEF Keeps, Parts

-------------------------------------------------------------------------------
(* The steps of a child.                                                   *)

\* What a child does not touch.
LEMMA ChildFrame ==
  ASSUME Parts, UNCHANGED <<engine, queue, day, log, counts>>
  PROVE  /\ MemoryInv' /\ LoggedInv' /\ OrderInv' /\ DaysInv'
         /\ InHand' = InHand /\ InList' = InList /\ Jobs' = Jobs
         /\ \A j \in Jobs : InJob(j)' = InJob(j)
         /\ \A m : OnTheWay(m)' <=> OnTheWay(m)
  <1> USE DEF engine, queue, log, counts
  <1>1. /\ InHand' = InHand /\ InList' = InList /\ Jobs' = Jobs
        /\ \A j \in Jobs : InJob(j)' = InJob(j)
    BY DEF InHand, InList, Jobs, InJob
  <1>2. MemoryInv' /\ OrderInv'
    BY <1>1 DEF Parts, MemoryInv, OrderInv
  <1>3. LoggedInv' /\ DaysInv'
    BY <1>1 DEF Parts, LoggedInv, IsLogged, DaysInv
  <1>4. \A m : OnTheWay(m)' <=> OnTheWay(m)
    BY <1>1 DEF OnTheWay
  <1>5. QED
    BY <1>1, <1>2, <1>3, <1>4

\* No child but the last fork runs.
LEMMA OthersDone ==
  ASSUME Parts, NEW i \in Slices, Running(i), NEW k \in Slices, k # i
  PROVE  ~Running(k)
  BY DEF Parts, ChildrenInv

\* A child that is still to record its slice is not the last one recorded.
LEMMA NotYetRecorded ==
  ASSUME Parts, NEW i \in Slices,
         child[i].step \in {"orders", "balance", "history"}
  PROVE  LastSlice # i
  <1>1. CASE slice_history = {}
    BY <1>1, Typed DEF LastSlice, Parts
  <1>2. CASE slice_history # {}
    <2>1. LastRecord \in slice_history /\ LastSlice = LastRecord.slice
      BY <1>2, LastRecordIs DEF Parts
    <2>2. LastRecord.slice < i
      BY <2>1 DEF Parts, ChildrenInv
    <2>3. QED
      BY <2>1, <2>2, Typed DEF Parts
  <1>3. QED
    BY <1>1, <1>2

\* A step of child i that leaves the last recorded slice: what it has to show.
LEMMA ChildGoes ==
  ASSUME Parts, NEW n \in Nat, SafeUpTo(n), NEW i \in Slices, Running(i),
         UNCHANGED <<engine, queue, day, log, counts>>, TypeOK',
         \A k \in Slices : /\ k # i => child'[k] = child[k]
                           /\ child'[k].end = child[k].end
                           /\ child'[k].time = child[k].time
                           /\ child'[k].state = child[k].state,
         HistoryInv', LastSlice' = LastSlice, slice_history' \subseteq slice_history,
         child'[i].step \in {"orders", "balance", "history"} =>
            child[i].step \in {"orders", "balance", "history"},
         child'[i].step \in {"balance", "history"} => slice_order'[i] = "whole",
         child'[i].step = "history" => slice_balance'[i] = "whole",
         child'[i].step \in {"drop_order", "drop_balance", "delete"} =>
            /\ LastSlice # 0
            /\ \A v \in child'[i].victims :
                  child[v].time < child[LastSlice].time,
         child'[i].step \in {"drop_balance", "delete"} =>
            child'[i].victim \in child'[i].victims
  PROVE  Keeps(n)
  <1>1. /\ InHand' = InHand /\ Jobs' = Jobs
        /\ \A j \in Jobs : InJob(j)' = InJob(j)
        /\ \A m : OnTheWay(m)' <=> OnTheWay(m)
        /\ applied' = applied /\ mode' = mode /\ operlog' = operlog
        /\ forks' = forks /\ day' = day /\ working' = working /\ jobs' = jobs
    BY ChildFrame DEF engine, log, counts, queue
  <1>2. LastSlice # 0 => LastSlice \in Slices
    BY LastRecordIs DEF Parts, LastSlice
  <1>3. LastOperId' = LastOperId
    BY <1>2 DEF LastOperId
  <1>4. \A k \in Slices : IsSnapshot(k)' <=> IsSnapshot(k)
    BY <1>1 DEF IsSnapshot
  <1>5. \A k \in Slices : k # i => /\ ~ (child'[k].step \in Steps)
                                   /\ ~ (child[k].step \in Steps)
    BY OthersDone DEF Running
  <1>6. \A k \in 1..forks : k \in Slices
    <2>1. forks \in 0..MaxSlices
      BY DEF Parts, TypeOK
    <2>2. MaxSlices \in Nat
      BY RecoveryAssumption
    <2>3. QED
      BY <2>1, <2>2 DEF Slices
  <1>7. i = forks /\ i \in Nat
    BY Typed DEF Parts, ChildrenInv
  <1>8. ChildrenInv'
    <2>1. \A k \in Slices : /\ k > forks => child'[k].step = "idle"
                            /\ Running(k)' => k = forks
      BY <1>5, <1>7 DEF Parts, ChildrenInv, Running
    <2>2. /\ \A k, m \in 1..forks : k <= m => child'[k].time <= child'[m].time
          /\ \A k \in 1..forks : child'[k].time <= day
      BY <1>6 DEF Parts, ChildrenInv
    <2>3. child'[i].step \in {"orders", "balance", "history"} =>
             /\ IsSnapshot(i)' /\ LastOperId <= child'[i].end
             /\ \A r \in slice_history' : r.slice < i
      BY <1>4 DEF Parts, ChildrenInv
    <2>4. \A v \in child'[i].victims : v \in Slices
      BY Typed DEF TypeOK, Child
    <2>5. \A k \in Slices : k # i =>
             child'[k].step \notin {"orders", "balance", "history", "drop_order",
                                    "drop_balance", "delete"}
      BY <1>5 DEF Steps
    <2>6. child'[i].step \in {"drop_order", "drop_balance", "delete"} =>
             /\ LastSlice # 0
             /\ \A v \in child'[i].victims :
                   child'[v].time < child'[LastSlice].time
      BY <1>2, <2>4
    <2>7. QED
      BY <1>1, <1>3, <2>1, <2>2, <2>3, <2>5, <2>6 DEF ChildrenInv
  <1>9. SinceInv'
    BY <1>1, <1>6 DEF Parts, SinceInv
  <1>10. SafeUpTo(n)'
    BY <1>1, <1>3 DEF SafeUpTo
  <1>11. QED
    BY <1>8, <1>9, <1>10, ChildFrame DEF Keeps, Parts

\* One step of the child's program: its field step is s.
LEMMA GoIs ==
  ASSUME TypeOK, NEW i \in Slices, NEW s \in Steps \cup {"done"}, Go(i, s)
  PROVE  /\ child' \in [Slices -> Child] /\ child'[i].step = s
         /\ child'[i].victims = child[i].victims
         /\ child'[i].victim = child[i].victim
         /\ \A k \in Slices : /\ k # i => child'[k] = child[k]
                              /\ child'[k].end = child[k].end
                              /\ child'[k].time = child[k].time
                              /\ child'[k].state = child[k].state
  <1>1. child \in [Slices -> Child]
    BY DEF TypeOK
  <1>2. child[i] \in Child
    BY <1>1
  <1>3. [child[i] EXCEPT !.step = s] \in Child
    BY <1>2 DEF Child
  <1>4. child' = [child EXCEPT ![i] = [child[i] EXCEPT !.step = s]]
    BY DEF Go
  <1>5. QED
    BY <1>1, <1>2, <1>3, <1>4 DEF Child

\* The last recorded slice keeps its row, its tables and its memory.
LEMMA HistoryStands ==
  ASSUME Parts, UNCHANGED <<slice_history, forks, applied>>,
         \A k \in Slices : /\ child'[k].end = child[k].end
                           /\ child'[k].state = child[k].state,
         LastSlice # 0 => /\ slice_order'[LastSlice] = "whole"
                          /\ slice_balance'[LastSlice] = "whole"
  PROVE  HistoryInv' /\ LastSlice' = LastSlice
  <1>1. LastSlice' = LastSlice
    BY DEF LastSlice, LastRecord
  <1>2. LastSlice # 0 => LastSlice \in Slices
    BY LastRecordIs DEF Parts, LastSlice
  <1>3. LastSlice # 0 => (Whole(LastSlice) /\ IsSnapshot(LastSlice))'
    BY <1>1, <1>2 DEF Parts, HistoryInv, IsSnapshot, Whole
  <1>4. QED
    BY <1>1, <1>3 DEF Parts, HistoryInv

\* dump_order_to_db and dump_balance_to_db: without refused INSERTs the table
\* is whole.
LEMMA DumpKeeps ==
  ASSUME Faults = {}, Parts, NEW n \in Nat, SafeUpTo(n), NEW i \in Slices,
         DumpOrders(i) \/ DumpBalance(i) \/ DumpFails(i),
         UNCHANGED <<engine, queue, day, log, counts>>
  PROVE  Keeps(n) /\ applied' = applied
  <1> USE DEF engine, queue, log, counts
  <1>0. TypeOK /\ applied' = applied /\ Written = {"whole"}
    BY DEF Parts, Written
  <1>1. CASE DumpOrders(i)
    <2>1. /\ child[i].step = "orders" /\ Go(i, "balance")
          /\ slice_order' = [slice_order EXCEPT ![i] = "whole"]
          /\ UNCHANGED <<slice_balance, slice_history>>
      BY <1>0, <1>1 DEF DumpOrders
    <2>2. LastSlice # i /\ Running(i)
      BY <2>1, NotYetRecorded DEF Running, Steps
    <2>3. /\ child' \in [Slices -> Child] /\ child'[i].step = "balance"
          /\ \A k \in Slices : /\ k # i => child'[k] = child[k]
                               /\ child'[k].end = child[k].end
                               /\ child'[k].time = child[k].time
                               /\ child'[k].state = child[k].state
      BY <1>0, <2>1, GoIs DEF Steps
    <2>4. /\ slice_order' \in [Slices -> Content] /\ slice_order'[i] = "whole"
          /\ \A k \in Slices : k # i => slice_order'[k] = slice_order[k]
      BY <1>0, <2>1 DEF TypeOK, Content
    <2>5. TypeOK'
      BY <1>0, <2>1, <2>3, <2>4 DEF TypeOK
    <2>6. HistoryInv' /\ LastSlice' = LastSlice
      <3>1. LastSlice # 0 => LastSlice \in Slices /\ Whole(LastSlice)
        BY LastRecordIs DEF Parts, LastSlice, HistoryInv
      <3>2. LastSlice # 0 => /\ slice_order'[LastSlice] = "whole"
                             /\ slice_balance'[LastSlice] = "whole"
        BY <2>1, <2>2, <2>4, <3>1 DEF Whole
      <3>3. QED
        BY <2>1, <2>3, <3>2, HistoryStands
    <2>7. QED
      BY <1>0, <2>1, <2>2, <2>3, <2>4, <2>5, <2>6, ChildGoes
  <1>2. CASE DumpBalance(i)
    <2>1. /\ child[i].step = "balance" /\ Go(i, "history")
          /\ slice_balance' = [slice_balance EXCEPT ![i] = "whole"]
          /\ UNCHANGED <<slice_order, slice_history>>
      BY <1>0, <1>2 DEF DumpBalance
    <2>2. LastSlice # i /\ Running(i) /\ slice_order[i] = "whole"
      BY <2>1, NotYetRecorded DEF Running, Steps, Parts, ChildrenInv
    <2>3. /\ child' \in [Slices -> Child] /\ child'[i].step = "history"
          /\ \A k \in Slices : /\ k # i => child'[k] = child[k]
                               /\ child'[k].end = child[k].end
                               /\ child'[k].time = child[k].time
                               /\ child'[k].state = child[k].state
      BY <1>0, <2>1, GoIs DEF Steps
    <2>4. /\ slice_balance' \in [Slices -> Content] /\ slice_balance'[i] = "whole"
          /\ \A k \in Slices : k # i => slice_balance'[k] = slice_balance[k]
      BY <1>0, <2>1 DEF TypeOK, Content
    <2>5. TypeOK'
      BY <1>0, <2>1, <2>3, <2>4 DEF TypeOK
    <2>6. HistoryInv' /\ LastSlice' = LastSlice
      <3>1. LastSlice # 0 => LastSlice \in Slices /\ Whole(LastSlice)
        BY LastRecordIs DEF Parts, LastSlice, HistoryInv
      <3>2. LastSlice # 0 => /\ slice_order'[LastSlice] = "whole"
                             /\ slice_balance'[LastSlice] = "whole"
        BY <2>1, <2>2, <2>4, <3>1 DEF Whole
      <3>3. QED
        BY <2>1, <2>3, <3>2, HistoryStands
    <2>7. QED
      BY <1>0, <2>1, <2>2, <2>3, <2>4, <2>5, <2>6, ChildGoes
  <1>3. CASE DumpFails(i)
    <2>1. /\ child[i].step \in Steps /\ Go(i, "clear")
          /\ UNCHANGED <<slice_order, slice_balance, slice_history>>
      BY <1>3 DEF DumpFails, Steps
    <2>2. /\ child' \in [Slices -> Child] /\ child'[i].step = "clear"
          /\ \A k \in Slices : /\ k # i => child'[k] = child[k]
                               /\ child'[k].end = child[k].end
                               /\ child'[k].time = child[k].time
                               /\ child'[k].state = child[k].state
      BY <1>0, <2>1, GoIs DEF Steps
    <2>3. TypeOK'
      BY <1>0, <2>1, <2>2 DEF TypeOK
    <2>4. HistoryInv' /\ LastSlice' = LastSlice
      BY <2>1, <2>2, HistoryStands DEF Parts, HistoryInv, Whole
    <2>5. QED
      BY <1>0, <2>1, <2>2, <2>3, <2>4, ChildGoes DEF Running
  <1>4. QED
    BY <1>1, <1>2, <1>3

\* The slices clear_slice deletes are older than the last one, which stays.
LEMMA VictimsOld ==
  ASSUME Parts, NEW i \in Slices, Running(i), NEW s \in Slices, NEW v \in Slices,
         \E r \in slice_history : r.slice = s,
         child[s].time >= child[i].time - KeepDays,
         ~ (child[v].time >= child[i].time - KeepDays)
  PROVE  LastSlice # 0 /\ child[v].time < child[LastSlice].time
  <1>1. LastSlice # 0 /\ LastSlice \in Slices /\ s <= LastSlice /\ LastSlice <= forks
    BY LastRecordIs DEF Parts
  <1>2. /\ child[s].time \in Nat /\ child[v].time \in Nat /\ child[i].time \in Nat
        /\ child[LastSlice].time \in Nat /\ KeepDays \in Nat
    BY <1>1, Typed, RecoveryAssumption DEF Parts
  <1>3. s \in 1..forks /\ LastSlice \in 1..forks
    BY <1>1, Typed DEF Parts, TypeOK, Slices
  <1>4. child[s].time <= child[LastSlice].time
    BY <1>1, <1>3 DEF Parts, ChildrenInv
  <1>5. QED
    BY <1>1, <1>2, <1>4

\* clear_slice chooses its victims.
LEMMA ListKeeps ==
  ASSUME Parts, NEW n \in Nat, SafeUpTo(n), NEW i \in Slices, ListOldSlices(i),
         UNCHANGED <<engine, queue, day, log, counts>>
  PROVE  Keeps(n) /\ applied' = applied
  <1> USE DEF engine, queue, log, counts
  <1> DEFINE recorded == {r.slice : r \in slice_history}
             recent == {s \in recorded : child[s].time >= child[i].time - KeepDays}
             goOn == recent # {} /\ recorded # recent
  <1>0. TypeOK /\ applied' = applied
    BY DEF Parts
  <1>1. PICK s \in {"drop_order", "done"}, V \in SUBSET Slices :
           /\ child' = [child EXCEPT ![i].step = s, ![i].victims = V]
           /\ s = "drop_order" => goOn /\ V = recorded \ recent
    <2>1. recorded \subseteq Slices
      BY <1>0, Typed
    <2> HIDE DEF recorded
    <2>2. child' = [child EXCEPT
                      ![i].step = IF goOn THEN "drop_order" ELSE "done",
                      ![i].victims = IF goOn THEN recorded \ recent ELSE {}]
      BY DEF ListOldSlices, recorded
    <2>3. CASE goOn
      BY <2>1, <2>2, <2>3
    <2>4. CASE ~goOn
      BY <2>1, <2>2, <2>4
    <2>5. QED
      BY <2>3, <2>4
  <1>2. /\ child[i].step = "clear" /\ Running(i)
        /\ UNCHANGED <<slice_order, slice_balance, slice_history>>
    BY DEF ListOldSlices, Running, Steps
  <1>3. /\ child' \in [Slices -> Child] /\ child'[i].step = s
        /\ child'[i].victims = V
        /\ \A k \in Slices : /\ k # i => child'[k] = child[k]
                             /\ child'[k].end = child[k].end
                             /\ child'[k].time = child[k].time
                             /\ child'[k].state = child[k].state
    <2>1. child \in [Slices -> Child] /\ child[i] \in Child
      BY <1>0 DEF TypeOK
    <2>2. s \in Steps \cup {"idle", "done"} /\ V \in SUBSET Slices
      BY DEF Steps
    <2>3. [child[i] EXCEPT !.step = s, !.victims = V] \in Child
      BY <2>1, <2>2 DEF Child
    <2>4. child' = [child EXCEPT ![i] =
                       [child[i] EXCEPT !.step = s, !.victims = V]]
      BY <1>1, <2>1
    <2>5. QED
      BY <2>1, <2>3, <2>4 DEF Child
  <1>4. TypeOK'
    BY <1>0, <1>2, <1>3 DEF TypeOK
  <1>5. HistoryInv' /\ LastSlice' = LastSlice
    BY <1>2, <1>3, HistoryStands DEF Parts, HistoryInv, Whole
  <1>6. ASSUME s = "drop_order"
        PROVE  /\ LastSlice # 0
               /\ \A v \in V : child[v].time < child[LastSlice].time
    <2>1. goOn /\ V = recorded \ recent
      BY <1>1, <1>6
    <2>2. PICK q \in slice_history : child[q.slice].time >= child[i].time - KeepDays
      BY <2>1
    <2>3. q.slice \in Slices
      BY <1>0, Typed
    <2>4. \A v \in V : v \in Slices /\ ~ (child[v].time >= child[i].time - KeepDays)
      BY <2>1
    <2>5. V # {}
      BY <2>1
    <2>6. QED
      BY <1>2, <2>2, <2>3, <2>4, <2>5, VictimsOld
  <1>7. QED
    BY <1>0, <1>2, <1>3, <1>4, <1>5, <1>6, ChildGoes

\* Two tables of an older slice are dropped, or a DROP fails, or the child
\* ends: the last slice keeps its tables.
LEMMA DropKeeps ==
  ASSUME Parts, NEW n \in Nat, SafeUpTo(n), NEW i \in Slices,
         DropOrder(i) \/ DropBalance(i) \/ ChildEnds(i),
         UNCHANGED <<engine, queue, day, log, counts>>
  PROVE  Keeps(n) /\ applied' = applied
  <1> USE DEF engine, queue, log, counts
  <1>0. TypeOK /\ applied' = applied
    BY DEF Parts
  <1>1. LastSlice # 0 => /\ LastSlice \in Slices
                         /\ slice_order[LastSlice] = "whole"
                         /\ slice_balance[LastSlice] = "whole"
    BY LastRecordIs DEF Parts, LastSlice, HistoryInv, Whole
  <1>2. ASSUME NEW v \in child[i].victims, Running(i),
               child[i].step \in {"drop_order", "drop_balance", "delete"}
        PROVE  LastSlice # 0 /\ LastSlice # v /\ v \in Slices
    <2>1. LastSlice # 0 /\ child[v].time < child[LastSlice].time /\ v \in Slices
      BY <1>2, Typed DEF Parts, ChildrenInv
    <2>2. child[v].time \in Nat
      BY <1>0, <2>1, Typed
    <2>3. QED
      BY <2>1, <2>2
  <1>3. CASE DropOrder(i)
    <2>1. /\ child[i].step = "drop_order" /\ Running(i)
          /\ UNCHANGED <<slice_balance, slice_history>>
      BY <1>3 DEF DropOrder, Running, Steps
    <2>2. PICK v \in child[i].victims, s \in {"drop_balance", "done"} :
             /\ slice_order' = [slice_order EXCEPT ![v] = "absent"]
             /\ child' = [child EXCEPT ![i].victim = v, ![i].step = s]
      BY <1>3 DEF DropOrder
    <2>3. LastSlice # 0 /\ LastSlice # v /\ v \in Slices /\ v \in Nat
      BY <1>0, <1>2, <2>1, Typed
    <2>4. /\ child' \in [Slices -> Child] /\ child'[i].step = s
          /\ child'[i].victim = v /\ child'[i].victims = child[i].victims
          /\ \A k \in Slices : /\ k # i => child'[k] = child[k]
                               /\ child'[k].end = child[k].end
                               /\ child'[k].time = child[k].time
                               /\ child'[k].state = child[k].state
      <3>1. child \in [Slices -> Child] /\ child[i] \in Child
        BY <1>0 DEF TypeOK
      <3>2. s \in Steps \cup {"idle", "done"}
        BY DEF Steps
      <3>3. [child[i] EXCEPT !.victim = v, !.step = s] \in Child
        BY <2>3, <3>1, <3>2 DEF Child
      <3>4. child' = [child EXCEPT ![i] =
                         [child[i] EXCEPT !.victim = v, !.step = s]]
        BY <2>2, <3>1
      <3>5. QED
        BY <3>1, <3>3, <3>4 DEF Child
    <2>5. /\ slice_order' \in [Slices -> Content]
          /\ slice_order'[LastSlice] = "whole"
      BY <1>0, <1>1, <2>2, <2>3 DEF TypeOK, Content
    <2>6. TypeOK'
      BY <1>0, <2>1, <2>4, <2>5 DEF TypeOK
    <2>7. HistoryInv' /\ LastSlice' = LastSlice
      BY <1>1, <2>1, <2>4, <2>5, HistoryStands
    <2>8. \A u \in child[i].victims : child[u].time < child[LastSlice].time
      BY <2>1 DEF Parts, ChildrenInv
    <2>9. QED
      BY <1>0, <2>1, <2>3, <2>4, <2>6, <2>7, <2>8, ChildGoes
  <1>4. CASE DropBalance(i)
    <2> DEFINE v == child[i].victim
    <2>1. /\ child[i].step = "drop_balance" /\ Running(i)
          /\ slice_balance' = [slice_balance EXCEPT ![v] = "absent"]
          /\ UNCHANGED <<slice_order, slice_history>>
      BY <1>4 DEF DropBalance, Running, Steps
    <2>2. PICK s \in {"delete", "done"} : Go(i, s)
      BY <1>4 DEF DropBalance
    <2>3. v \in child[i].victims
      BY <2>1 DEF Parts, ChildrenInv
    <2>4. LastSlice # 0 /\ LastSlice # v /\ v \in Slices
      BY <1>2, <2>1, <2>3
    <2>5. /\ child' \in [Slices -> Child] /\ child'[i].step = s
          /\ child'[i].victim = v /\ child'[i].victims = child[i].victims
          /\ \A k \in Slices : /\ k # i => child'[k] = child[k]
                               /\ child'[k].end = child[k].end
                               /\ child'[k].time = child[k].time
                               /\ child'[k].state = child[k].state
      BY <1>0, <2>2, GoIs DEF Steps
    <2>6. /\ slice_balance' \in [Slices -> Content]
          /\ slice_balance'[LastSlice] = "whole"
      BY <1>0, <1>1, <2>1, <2>4 DEF TypeOK, Content
    <2>7. TypeOK'
      BY <1>0, <2>1, <2>5, <2>6 DEF TypeOK
    <2>8. HistoryInv' /\ LastSlice' = LastSlice
      BY <1>1, <2>1, <2>5, <2>6, HistoryStands
    <2>9. \A u \in child[i].victims : child[u].time < child[LastSlice].time
      BY <2>1 DEF Parts, ChildrenInv
    <2>10. QED
      BY <1>0, <2>1, <2>3, <2>4, <2>5, <2>7, <2>8, <2>9, ChildGoes
  <1>5. CASE ChildEnds(i)
    <2>1. /\ Running(i) /\ Go(i, "done")
          /\ UNCHANGED <<slice_order, slice_balance, slice_history>>
      BY <1>5 DEF ChildEnds
    <2>2. /\ child' \in [Slices -> Child] /\ child'[i].step = "done"
          /\ \A k \in Slices : /\ k # i => child'[k] = child[k]
                               /\ child'[k].end = child[k].end
                               /\ child'[k].time = child[k].time
                               /\ child'[k].state = child[k].state
      BY <1>0, <2>1, GoIs
    <2>3. TypeOK'
      BY <1>0, <2>1, <2>2 DEF TypeOK
    <2>4. HistoryInv' /\ LastSlice' = LastSlice
      BY <1>1, <2>1, <2>2, HistoryStands
    <2>5. QED
      BY <1>0, <2>1, <2>2, <2>3, <2>4, ChildGoes
  <1>6. QED
    BY <1>3, <1>4, <1>5

\* A row of the table of slices is its id and its slice, and one that no row
\* follows is the only one.
LEMMA LastRecordUnique ==
  ASSUME TypeOK, HistoryInv, NEW r \in slice_history, NEW q \in slice_history,
         r.id = q.id
  PROVE  r = q
  <1>1. /\ r = [id |-> r.id, slice |-> r.slice]
        /\ q = [id |-> q.id, slice |-> q.slice]
    BY DEF TypeOK, Record
  <1>2. /\ r.id \in Nat /\ q.id \in Nat
        /\ r.slice \in Nat /\ q.slice \in Nat
    BY Typed
  <1>3. ~ (r.slice < q.slice) /\ ~ (q.slice < r.slice)
    BY <1>2 DEF HistoryInv
  <1>4. r.slice = q.slice
    BY <1>2, <1>3
  <1>5. QED
    BY <1>1, <1>4

\* delete_slice, the last of its statements: the row of an older slice goes.
LEMMA DeleteKeeps ==
  ASSUME Parts, NEW n \in Nat, SafeUpTo(n), NEW i \in Slices, DeleteRow(i),
         UNCHANGED <<engine, queue, day, log, counts>>
  PROVE  Keeps(n) /\ applied' = applied
  <1> USE DEF engine, queue, log, counts
  <1> DEFINE v == child[i].victim
  <1>0. TypeOK /\ HistoryInv /\ applied' = applied /\ forks' = forks
    BY DEF Parts
  <1> DEFINE V == child[i].victims \ {v}
  <1>1. PICK s \in {"done", "drop_order"} :
           child' = [child EXCEPT ![i].victims = V, ![i].step = s]
    BY DEF DeleteRow
  <1>2. /\ child[i].step = "delete" /\ Running(i)
        /\ slice_history' = {r \in slice_history : r.slice # v}
        /\ UNCHANGED <<slice_order, slice_balance>>
    BY DEF DeleteRow, Running, Steps
  <1>3. /\ v \in child[i].victims /\ v \in Slices /\ LastSlice # 0
        /\ \A u \in child[i].victims : child[u].time < child[LastSlice].time
    BY <1>0, <1>2, Typed DEF Parts, ChildrenInv
  <1>4. LastSlice # v
    BY <1>0, <1>3, Typed
  <1>5. /\ child' \in [Slices -> Child] /\ child'[i].step = s
        /\ child'[i].victims = V
        /\ \A k \in Slices : /\ k # i => child'[k] = child[k]
                             /\ child'[k].end = child[k].end
                             /\ child'[k].time = child[k].time
                             /\ child'[k].state = child[k].state
    <2>1. child \in [Slices -> Child] /\ child[i] \in Child
      BY <1>0 DEF TypeOK
    <2>2. s \in Steps \cup {"idle", "done"} /\ V \in SUBSET Slices
      BY <1>0, <1>1, Typed DEF Steps
    <2>3. [child[i] EXCEPT !.victims = V, !.step = s] \in Child
      BY <2>1, <2>2 DEF Child
    <2>4. child' = [child EXCEPT ![i] =
                       [child[i] EXCEPT !.victims = V, !.step = s]]
      BY <1>1, <2>1
    <2>5. QED
      BY <2>1, <2>3, <2>4 DEF Child
  <1>6. TypeOK'
    <2>1. slice_history' \subseteq Record
      BY <1>0, <1>2 DEF TypeOK
    <2>2. QED
      BY <1>0, <1>2, <1>5, <2>1 DEF TypeOK
  <1>7. slice_history # {}
    BY <1>3 DEF LastSlice
  <1>8. PICK last : last = LastRecord
    OBVIOUS
  <1>9. /\ last \in slice_history /\ \A q \in slice_history : q.id <= last.id
        /\ LastSlice = last.slice /\ LastSlice \in Slices
    BY <1>0, <1>7, <1>8, LastRecordIs
  <1>10. last \in slice_history' /\ \A q \in slice_history' : q.id <= last.id
    BY <1>2, <1>4, <1>9
  <1>11. ASSUME NEW r \in slice_history', \A q \in slice_history' : q.id <= r.id
         PROVE  r = last
    <2>1. r \in slice_history /\ last.id <= r.id /\ r.id <= last.id
      BY <1>2, <1>9, <1>10, <1>11
    <2>2. r.id = last.id
      BY <1>0, <1>9, <2>1, Typed
    <2>3. QED
      BY <1>0, <1>9, <2>1, <2>2, LastRecordUnique
  <1>12. (CHOOSE r \in slice_history' : \A q \in slice_history' : q.id <= r.id)
            = last
    BY <1>10, <1>11
  <1>13. LastSlice' = LastSlice
    <2>1. slice_history' # {}
      BY <1>10
    <2>2. QED
      BY <1>9, <1>12, <2>1 DEF LastSlice, LastRecord
  <1>14. HistoryInv'
    <2>1. slice_history' \subseteq slice_history
      BY <1>2
    <2>2. (Whole(LastSlice) /\ IsSnapshot(LastSlice))'
      BY <1>0, <1>2, <1>3, <1>5, <1>9, <1>13 DEF HistoryInv, Whole, IsSnapshot
    <2>3. \A r \in slice_history' : r.slice <= forks'
      BY <1>0, <2>1 DEF HistoryInv
    <2>4. \A q, r \in slice_history' : q.id < r.id <=> q.slice < r.slice
      BY <1>0, <2>1 DEF HistoryInv
    <2>5. QED
      BY <1>10, <2>2, <2>3, <2>4 DEF HistoryInv
  <1>15. QED
    BY <1>0, <1>1, <1>2, <1>3, <1>5, <1>6, <1>13, <1>14, ChildGoes

\* update_slice_history: the new row follows all others, so the slice of
\* child i, which is whole, is the last one from now on.
LEMMA Recorded ==
  ASSUME Faults = {}, Parts, NEW i \in Slices, UpdateSliceHistory(i),
         UNCHANGED <<engine, queue, day, log, counts>>
  PROVE  /\ TypeOK' /\ HistoryInv'
         /\ LastSlice' = i /\ LastOperId' = child[i].end
         /\ child'[i].step = "clear"
         /\ \A k \in Slices : /\ k # i => child'[k] = child[k]
                              /\ child'[k].end = child[k].end
                              /\ child'[k].time = child[k].time
                              /\ child'[k].state = child[k].state
  <1> USE DEF engine, queue, log, counts
  <1>0. TypeOK /\ HistoryInv /\ applied' = applied /\ forks' = forks
    BY DEF Parts
  <1>1. PICK id : id = NextId
    OBVIOUS
  <1>2. PICK row : row = [id |-> id, slice |-> i]
    OBVIOUS
  <1>3. /\ child[i].step = "history" /\ Go(i, "clear")
        /\ slice_history' = slice_history \cup {row}
        /\ UNCHANGED <<slice_order, slice_balance>>
    BY <1>1, <1>2 DEF UpdateSliceHistory
  <1>4. /\ IsSnapshot(i) /\ Whole(i) /\ i = forks
        /\ \A r \in slice_history : r.slice < i
    BY <1>3 DEF Parts, ChildrenInv, Whole, Running, Steps
  <1>5. id \in Nat /\ \A q \in slice_history : q.id < id
    <2>1. CASE slice_history = {}
      BY <1>1, <2>1 DEF NextId
    <2>2. CASE slice_history # {}
      <3>1. /\ LastRecord \in slice_history
            /\ \A q \in slice_history : q.id <= LastRecord.id
        BY <1>0, <2>2, LastRecordIs
      <3>2. id = LastRecord.id + 1
        BY <1>1, <2>2 DEF NextId
      <3>3. LastRecord.id \in Nat /\ \A q \in slice_history : q.id \in Nat
        BY <1>0, <3>1, Typed
      <3>4. QED
        BY <3>1, <3>2, <3>3
    <2>3. QED
      BY <2>1, <2>2
  <1>6. /\ row.id = id /\ row.slice = i /\ row \in Record
    BY <1>2, <1>5 DEF Record
  <1>7. /\ child' \in [Slices -> Child] /\ child'[i].step = "clear"
        /\ \A k \in Slices : /\ k # i => child'[k] = child[k]
                             /\ child'[k].end = child[k].end
                             /\ child'[k].time = child[k].time
                             /\ child'[k].state = child[k].state
    BY <1>0, <1>3, GoIs DEF Steps
  <1>8. TypeOK'
    <2>1. slice_history' \subseteq Record
      BY <1>0, <1>3, <1>6 DEF TypeOK
    <2>2. QED
      BY <1>0, <1>3, <1>7, <2>1 DEF TypeOK
  <1>9. /\ row \in slice_history' /\ slice_history' # {}
        /\ \A q \in slice_history' : q = row \/ (q \in slice_history /\ q.id < id)
    BY <1>3, <1>5
  <1>10. \A q \in slice_history : q.id \in Nat /\ q.slice \in Nat
    BY <1>0, Typed
  <1>11. \A q \in slice_history' : q.id <= row.id
    BY <1>5, <1>6, <1>9, <1>10
  <1>12. ASSUME NEW r \in slice_history', \A q \in slice_history' : q.id <= r.id
         PROVE  r = row
    <2>1. row.id <= r.id
      BY <1>9, <1>12
    <2>2. CASE r \in slice_history /\ r.id < id
      BY <1>5, <1>6, <1>10, <2>1, <2>2
    <2>3. QED
      BY <1>9, <1>12, <2>2
  <1>13. (CHOOSE r \in slice_history' : \A q \in slice_history' : q.id <= r.id)
            = row
    BY <1>9, <1>11, <1>12
  <1>14. LastSlice' = i
    BY <1>6, <1>9, <1>13 DEF LastSlice, LastRecord
  <1>15. LastOperId' = child[i].end
    <2>1. i # 0
      BY <1>0, Typed
    <2>2. QED
      BY <1>7, <1>14, <2>1 DEF LastOperId
  <1>16. HistoryInv'
    <2>1. i \in Nat
      BY <1>0, Typed
    <2>2. \A r \in slice_history' : r.slice <= forks'
      BY <1>0, <1>4, <1>6, <1>9, <2>1 DEF HistoryInv
    <2>3. ASSUME NEW q \in slice_history', NEW r \in slice_history'
          PROVE  q.id < r.id <=> q.slice < r.slice
      <3>1. CASE q \in slice_history /\ r \in slice_history
        BY <1>0, <3>1 DEF HistoryInv
      <3>2. CASE q \in slice_history /\ r = row
        BY <1>4, <1>5, <1>6, <3>2
      <3>3. CASE q = row /\ r \in slice_history
        <4>1. r.id < id /\ r.slice < i /\ r.id \in Nat /\ r.slice \in Nat
          BY <1>4, <1>5, <1>10, <3>3
        <4>2. q.id = id /\ q.slice = i
          BY <1>6, <3>3
        <4>3. QED
          BY <1>5, <2>1, <4>1, <4>2
      <3>4. CASE q = row /\ r = row
        BY <1>5, <1>6, <2>1, <3>4
      <3>5. QED
        BY <1>9, <2>3, <3>1, <3>2, <3>3, <3>4
    <2>4. (Whole(LastSlice) /\ IsSnapshot(LastSlice))'
      BY <1>0, <1>3, <1>4, <1>7, <1>14 DEF Whole, IsSnapshot
    <2>5. QED
      BY <1>9, <1>11, <2>2, <2>3, <2>4 DEF HistoryInv
  <1>17. QED
    BY <1>7, <1>8, <1>14, <1>15, <1>16

\* A new slice only adds to what is safe: what its memory has.
LEMMA RecordKeeps ==
  ASSUME Faults = {}, Parts, NEW n \in Nat, SafeUpTo(n), NEW i \in Slices,
         UpdateSliceHistory(i), UNCHANGED <<engine, queue, day, log, counts>>
  PROVE  applied' = applied /\ \E m \in Nat : n <= m /\ Keeps(m)
  <1> DEFINE end == child[i].end
  <1>1. /\ TypeOK' /\ HistoryInv'
        /\ LastSlice' = i /\ LastOperId' = end
        /\ child'[i].step = "clear"
        /\ \A k \in Slices : /\ k # i => child'[k] = child[k]
                             /\ child'[k].end = child[k].end
                             /\ child'[k].time = child[k].time
                             /\ child'[k].state = child[k].state
    BY Recorded
  <1>2. /\ MemoryInv' /\ LoggedInv' /\ OrderInv' /\ DaysInv'
        /\ InHand' = InHand /\ Jobs' = Jobs
        /\ \A j \in Jobs : InJob(j)' = InJob(j)
        /\ \A m : OnTheWay(m)' <=> OnTheWay(m)
        /\ applied' = applied /\ mode' = mode /\ operlog' = operlog
        /\ forks' = forks /\ day' = day /\ working' = working /\ jobs' = jobs
    BY ChildFrame DEF engine, log, counts, queue
  <1>3. child[i].step = "history" /\ Running(i)
    BY DEF UpdateSliceHistory, Running, Steps
  <1>4. /\ LastOperId <= end /\ end <= Len(applied) /\ i = forks
        /\ end \in Nat /\ LastOperId \in Nat /\ Len(applied) \in Nat /\ i # 0
    BY <1>3, LastOperIdNat, Typed DEF Parts, ChildrenInv, IsSnapshot
  <1>5. \A k \in Slices : k # i => ~ (child'[k].step \in Steps)
    BY <1>1, <1>3, OthersDone DEF Running
  <1>6. \A k \in 1..forks : k \in Slices
    <2>1. forks \in 0..MaxSlices /\ MaxSlices \in Nat
      BY RecoveryAssumption DEF Parts, TypeOK
    <2>2. QED
      BY <2>1 DEF Slices
  <1>7. ChildrenInv'
    <2>1. \A k \in Slices : /\ k > forks => child'[k].step = "idle"
                            /\ Running(k)' => k = forks
      <3>1. i \in Nat
        BY Typed DEF Parts
      <3>2. QED
        BY <1>1, <1>4, <1>5, <3>1 DEF Parts, ChildrenInv, Running
    <2>2. /\ \A k, m \in 1..forks : k <= m => child'[k].time <= child'[m].time
          /\ \A k \in 1..forks : child'[k].time <= day
      BY <1>1, <1>6 DEF Parts, ChildrenInv
    <2>3. \A k \in Slices :
             child'[k].step \notin {"orders", "balance", "history", "drop_order",
                                    "drop_balance", "delete"}
      BY <1>1, <1>5 DEF Steps
    <2>4. QED
      BY <1>2, <2>1, <2>2, <2>3 DEF ChildrenInv
  <1>8. SinceInv'
    BY <1>1, <1>2, <1>4, <1>6 DEF Parts, SinceInv
  <1>9. \A r \in operlog : r.id \in Nat /\ r.id <= n
    BY Typed DEF Parts, SafeUpTo
  <1>10. PICK m \in {n, end} : n <= m /\ end <= m
    BY <1>4
  <1>11. m \in Nat /\ m <= Len(applied)
    BY <1>4 DEF SafeUpTo
  <1>12. SafeUpTo(m)'
    <2>1. \A k \in (end + 1)..m : \E r \in operlog : r.id = k
      <3> SUFFICES ASSUME NEW k \in (end + 1)..m
                   PROVE  \E r \in operlog : r.id = k
        OBVIOUS
      <3>1. m = n
        BY <1>4, <1>11, <1>10
      <3>2. k \in (LastOperId + 1)..n
        BY <1>4, <3>1
      <3>3. QED
        BY <3>2 DEF SafeUpTo
    <2>2. \A r \in operlog : r.id <= m
      BY <1>9, <1>10, <1>11
    <2>3. mode # "down" => \A k \in (m + 1)..Len(applied) : OnTheWay(k)
      <3>1. \A k \in (m + 1)..Len(applied) : k \in (n + 1)..Len(applied)
        BY <1>4, <1>10, <1>11
      <3>2. QED
        BY <3>1 DEF SafeUpTo
    <2>4. QED
      BY <1>1, <1>2, <1>10, <1>11, <2>1, <2>2, <2>3 DEF SafeUpTo
  <1>13. QED
    BY <1>1, <1>2, <1>7, <1>8, <1>10, <1>11, <1>12 DEF Keeps, Parts

-------------------------------------------------------------------------------
(* All steps.                                                              *)

\* Before the first start there is nothing.
LEMMA InitHolds ==
  ASSUME Init
  PROVE  Parts /\ SafeUpTo(0)
  <1> USE DEF Init
  <1>1. MaxSlices \in Nat /\ Slices \subseteq Nat
    BY RecoveryAssumption DEF Slices
  <1>2. InHand = {} /\ InList = {} /\ Jobs = {} /\ LastSlice = 0 /\ LastOperId = 0
    BY DEF InHand, InList, Jobs, NoJob, ToSet, LastSlice, LastOperId
  <1>3. \A i \in Slices : child[i] = IdleChild
    OBVIOUS
  <1>4. TypeOK
    <2>1. IdleChild \in Child
      BY DEF IdleChild, Child
    <2>2. child \in [Slices -> Child]
      BY <2>1
    <2>3. /\ slice_order \in [Slices -> Content]
          /\ slice_balance \in [Slices -> Content]
      BY DEF Content
    <2>4. working \in Statement
      BY DEF NoJob, Statement
    <2>5. list \in Seq(Entry) /\ jobs \in Seq(Statement) /\ applied \in Seq(Nat)
      OBVIOUS
    <2>6. QED
      BY <1>1, <2>2, <2>3, <2>4, <2>5 DEF TypeOK
  <1>5. MemoryInv /\ LoggedInv /\ OrderInv /\ DaysInv
    BY <1>2 DEF MemoryInv, LoggedInv, OrderInv, DaysInv
  <1>6. SinceInv
    BY <1>2 DEF SinceInv
  <1>7. ChildrenInv
    BY <1>3 DEF ChildrenInv, Running, Steps, IdleChild
  <1>8. HistoryInv
    BY <1>2 DEF HistoryInv
  <1>9. SafeUpTo(0)
    BY <1>2 DEF SafeUpTo
  <1>10. QED
    BY <1>4, <1>5, <1>6, <1>7, <1>8, <1>9 DEF Parts

\* Nothing but the mode changes, to "stopping", or nothing at all.
LEMMA SameKeeps ==
  ASSUME Parts, NEW n \in Nat, SafeUpTo(n), stops' \in Nat,
         mode' = mode \/ (mode = "running" /\ mode' = "stopping"),
         UNCHANGED <<applied, operlog_id_start, list, table_last, queue, day,
                     log, slices, served, forks>>
  PROVE  Keeps(n) /\ applied' = applied
  <1> USE DEF queue, log, slices
  <1>1. /\ InHand' = InHand /\ InList' = InList /\ Jobs' = Jobs
        /\ \A j \in Jobs : InJob(j)' = InJob(j)
    BY DEF InHand, InList, Jobs, InJob
  <1>2. /\ mode' \in {"running", "stopping", "down"}
        /\ mode' = "down" <=> mode = "down"
    BY DEF Parts, TypeOK
  <1>3. TypeOK'
    BY <1>2 DEF Parts, TypeOK
  <1>4. MemoryInv'
    BY <1>2 DEF Parts, MemoryInv
  <1>5. LoggedInv'
    BY <1>1 DEF Parts, LoggedInv, IsLogged
  <1>6. OrderInv'
    BY <1>1 DEF Parts, OrderInv
  <1>7. DaysInv'
    BY <1>1 DEF Parts, DaysInv
  <1>8. ChildrenInv' /\ HistoryInv' /\ LastSlice' = LastSlice
        /\ LastOperId' = LastOperId
    <2>1. \A i \in Slices : IsSnapshot(i) => IsSnapshot(i)'
      BY DEF IsSnapshot
    <2>2. day' \in Nat /\ day <= day'
      BY Typed DEF Parts
    <2>3. QED
      BY <2>1, <2>2, SlicesStand
  <1>9. SinceInv'
    BY <1>1, <1>8 DEF Parts, SinceInv
  <1>10. SafeUpTo(n)'
    BY <1>1, <1>2, <1>8 DEF SafeUpTo, OnTheWay
  <1>11. QED
    BY <1>3, <1>4, <1>5, <1>6, <1>7, <1>8, <1>9, <1>10 DEF Keeps, Parts

\* Whatever the step, at least as many operations are safe after it, and they
\* are those of the engine, a new one or the one that goes on.
LEMMA StepKeeps ==
  ASSUME Faults = {}, Parts, NEW n \in Nat, SafeUpTo(n), [Next]_vars
  PROVE  /\ \E m \in Nat : n <= m /\ Keeps(m)
         /\ applied' = applied \/ Durable!Restart \/ Durable!Acknowledge
  <1> USE DEF engine, queue, log, slices, counts
  <1>1. ASSUME Keeps(n)
        PROVE  \E m \in Nat : n <= m /\ Keeps(m)
    BY <1>1
  <1>2. TypeOK /\ stops \in Nat
    BY DEF Parts, TypeOK
  <1>3. CASE Start
    BY <1>1, <1>3, StartKeeps DEF Durable!Restart
  <1>4. CASE Serve
    BY <1>1, <1>4, ServeKeeps
  <1>5. CASE FlushTimer
    <2>1. /\ flush_log /\ mode # "down" /\ mode' \in {"running", "stopping"}
          /\ stops' \in Nat
          /\ UNCHANGED <<applied, operlog_id_start, working, day, log, slices,
                         served, forks>>
      BY <1>2, <1>5 DEF FlushTimer
    <2>2. QED
      BY <1>1, <2>1, FlushKeeps
  <1>6. CASE Take
    BY <1>1, <1>6, TakeKeeps
  <1>7. CASE OnJob \/ OnJobUnanswered
    <2>1. /\ mode # "down" /\ working # NoJob /\ Execute(working)
          /\ working' \in {working, NoJob}
          /\ UNCHANGED <<engine, jobs, day, slices, counts>>
      BY <1>7 DEF OnJob, OnJobUnanswered
    <2>2. QED
      BY <2>1, ExecuteKeeps
  <1>8. CASE Crash \/ Exit
    <2>1. /\ Gone /\ stops' \in Nat
          /\ UNCHANGED <<day, log, slices, served, forks>>
      BY <1>2, <1>8 DEF Crash, Exit
    <2>2. QED
      BY <1>1, <2>1, GoneKeeps
  <1>9. CASE Shutdown
    <2>1. /\ mode = "running" /\ mode' = "stopping" /\ stops' \in Nat
          /\ UNCHANGED <<applied, operlog_id_start, working, day, log, slices,
                         served, forks>>
          /\ flush_log \/ UNCHANGED <<jobs, list, table_last>>
      BY <1>2, <1>9 DEF Shutdown
    <2>2. CASE flush_log
      BY <1>1, <2>1, <2>2, FlushKeeps
    <2>3. CASE UNCHANGED <<jobs, list, table_last>>
      BY <1>1, <2>1, <2>3, SameKeeps
    <2>4. QED
      BY <2>1, <2>2, <2>3
  <1>10. CASE MakeSlice
    BY <1>1, <1>10, MakeSliceKeeps
  <1>11. CASE NextDay
    BY <1>1, <1>11, NextDayKeeps
  <1>12. CASE \E i \in Slices : ChildStep(i)
    <2>1. PICK i \in Slices : ChildStep(i)
      BY <1>12
    <2>2. UNCHANGED <<engine, queue, day, log, counts>>
      BY <2>1 DEF ChildStep
    <2>3. CASE DumpOrders(i) \/ DumpBalance(i) \/ DumpFails(i)
      BY <1>1, <2>2, <2>3, DumpKeeps
    <2>4. CASE UpdateSliceHistory(i)
      BY <2>2, <2>4, RecordKeeps
    <2>5. CASE ListOldSlices(i)
      BY <1>1, <2>2, <2>5, ListKeeps
    <2>6. CASE DropOrder(i) \/ DropBalance(i) \/ ChildEnds(i)
      BY <1>1, <2>2, <2>6, DropKeeps
    <2>7. CASE DeleteRow(i)
      BY <1>1, <2>2, <2>7, DeleteKeeps
    <2>8. QED
      BY <2>1, <2>3, <2>4, <2>5, <2>6, <2>7 DEF ChildStep
  <1>13. CASE UNCHANGED vars
    BY <1>1, <1>2, <1>13, SameKeeps DEF vars
  <1>14. QED
    BY <1>3, <1>4, <1>5, <1>6, <1>7, <1>8, <1>9, <1>10, <1>11, <1>12, <1>13
       DEF Next

\* Without the faults of Faults the invariant holds at every moment.
THEOREM RecoveryInvariant ==
  ASSUME Faults = {}
  PROVE  Spec => []RecoveryInv
  <1>1. Init => RecoveryInv
    BY InitHolds DEF RecoveryInv
  <1>2. RecoveryInv /\ [Next]_vars => RecoveryInv'
    <2> SUFFICES ASSUME RecoveryInv, [Next]_vars
                 PROVE  RecoveryInv'
      OBVIOUS
    <2>1. PICK n \in Nat : SafeUpTo(n)
      BY DEF RecoveryInv
    <2>2. PICK m \in Nat : Keeps(m)
      BY <2>1, StepKeeps DEF RecoveryInv
    <2>3. QED
      BY <2>2 DEF Keeps, RecoveryInv
  <1>3. QED
    BY <1>1, <1>2, PTL DEF Spec

\* AlwaysLoadable: whenever the engine stops, a new one can load, as the last
\* slice is whole and the rows after it have the ids that follow.
THEOREM AlwaysLoads ==
  ASSUME Faults = {}
  PROVE  Spec => []AlwaysLoadable
  <1>1. RecoveryInv => AlwaysLoadable
    BY LoadFinds DEF RecoveryInv, AlwaysLoadable
  <1>2. QED
    BY <1>1, RecoveryInvariant, PTL

\* RefusedOnlyWhenLogged: on_job may take errno 1062 for success, as an id in
\* the table is that of the same operation, also after restarts.
THEOREM RefusedWhenLogged ==
  ASSUME Faults = {}
  PROVE  Spec => []RefusedOnlyWhenLogged
  <1>1. RecoveryInv => RefusedOnlyWhenLogged
    <2> SUFFICES ASSUME RecoveryInv,
                        NEW sql \in ToSet(jobs) \cup {working},
                        NEW r \in operlog, NEW e \in ToSet(sql.rows),
                        r.id = e.id
                 PROVE  r.op = e.op
      BY DEF RefusedOnlyWhenLogged
    <2>1. IsLogged(r)
      BY DEF RecoveryInv, Parts, LoggedInv
    <2>2. IsLogged(e)
      <3>1. CASE sql = working
        BY <3>1 DEF RecoveryInv, Parts, LoggedInv, InHand
      <3>2. CASE sql \in ToSet(jobs)
        <4>1. PICK j \in DOMAIN jobs : sql = jobs[j]
          BY <3>2 DEF ToSet
        <4>2. j \in Jobs /\ e \in InJob(j)
          BY <4>1 DEF RecoveryInv, Parts, TypeOK, Jobs, InJob
        <4>3. QED
          BY <4>2 DEF RecoveryInv, Parts, LoggedInv
      <3>3. QED
        BY <3>1, <3>2
    <2>3. QED
      BY <2>1, <2>2 DEF IsLogged
  <1>2. QED
    BY <1>1, RecoveryInvariant, PTL

\* ImplementsDurableLog: the memory of the engine and what a load would find
\* change only as those of a log that loses at most its newest operations.
THEOREM RecoveryImplementsDurableLog ==
  ASSUME Faults = {}
  PROVE  Spec => ImplementsDurableLog
  <1>1. Init => Durable!Init
    <2> SUFFICES ASSUME Init
                 PROVE  applied = <<>> /\ Recovered = <<>>
      BY DEF Durable!Init
    <2>1. applied = <<>>
      BY DEF Init
    <2>2. Recovered = SubSeq(applied, 1, 0)
      BY InitHolds, LoadFinds
    <2>3. QED
      BY <2>1, <2>2
  <1>2. RecoveryInv /\ [Next]_vars => [Durable!Next]_Durable!vars
    <2> SUFFICES ASSUME RecoveryInv, [Next]_vars
                 PROVE  [Durable!Next]_Durable!vars
      OBVIOUS
    <2>1. PICK n \in Nat : SafeUpTo(n)
      BY DEF RecoveryInv
    <2>2. Parts
      BY DEF RecoveryInv
    <2>3. PICK m \in Nat : n <= m /\ Keeps(m)
      BY <2>1, <2>2, StepKeeps
    <2>4. /\ Recovered = SubSeq(applied, 1, n)
          /\ n <= Len(applied) /\ Len(applied) \in Nat
      BY <2>1, <2>2, LoadFinds
    <2>5. Recovered' = SubSeq(applied', 1, m) /\ m <= Len(applied')
      BY <2>3, NextLoadFinds DEF LoadedAre, Keeps, SafeUpTo
    <2>6. ASSUME applied' = applied
          PROVE  Durable!Save
      <3>1. Len(Recovered) = n
        BY <2>2, <2>4 DEF Parts, TypeOK
      <3>2. m \in n..Len(applied)
        BY <2>3, <2>4, <2>5, <2>6
      <3>3. QED
        BY <2>5, <2>6, <3>1, <3>2 DEF Durable!Save
    <2>7. applied' = applied \/ Durable!Restart \/ Durable!Acknowledge
      BY <2>1, <2>2, StepKeeps
    <2>8. QED
      BY <2>6, <2>7 DEF Durable!Next
  <1>3. QED
    BY <1>1, <1>2, RecoveryInvariant, PTL DEF Spec, ImplementsDurableLog, Durable!Spec

\* RecoversPrefix: a new engine has the first of the acknowledged operations.
\* A run finds it violated when a child may outlive the engine that forked it.
THEOREM PrefixRecovered ==
  ASSUME Faults = {}
  PROVE  Spec => []RecoversPrefix
  <1>1. RecoveryInv => RecoversPrefix
    <2> SUFFICES ASSUME RecoveryInv
                 PROVE  RecoversPrefix
      OBVIOUS
    <2>1. PICK n \in Nat : SafeUpTo(n)
      BY DEF RecoveryInv
    <2>2. /\ Recovered = SubSeq(applied, 1, n)
          /\ n <= Len(applied) /\ Len(applied) \in Nat
          /\ applied \in Seq(Nat)
      BY <2>1, LoadFinds DEF RecoveryInv, Parts, TypeOK
    <2>3. Len(Recovered) = n /\ Recovered \in Seq(Nat)
      BY <2>2
    <2>4. SubSeq(Recovered, 1, Len(Recovered)) = Recovered
      BY <2>3
    <2>5. QED
      BY <2>2, <2>3, <2>4 DEF RecoversPrefix, IsPrefix
  <1>2. QED
    BY <1>1, RecoveryInvariant, PTL
================================================================================
