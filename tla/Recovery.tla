------------------------------- MODULE Recovery -------------------------------
(***************************************************************************)
(* matchengine/me_operlog.c, me_persist.c, me_dump.c and me_load.c: how    *)
(* the operations an in-memory engine has acknowledged get into MySQL and  *)
(* how a new process gets them back.                                       *)
(*                                                                         *)
(* Processes.  The engine's loop serves requests and runs the timers.  One *)
(* worker thread (nw_job) sends the queued statements to the database.  A  *)
(* slice is written by a forked child, which nothing stops when the engine *)
(* dies.  process_keepalive starts a new engine after a crash.             *)
(*                                                                         *)
(* Data.  What an operation does to books and balances is Market.tla; here *)
(* an operation is a number of its own and the engine's state is the       *)
(* sequence of operations applied to it.  Time is the day: tables are      *)
(* named by it, and the hourly schedule of slices is any moment.  A slice  *)
(* is named by the fork that writes it instead of by its second.           *)
(*                                                                         *)
(* What may go wrong.  Always: the engine crashes between two steps, a     *)
(* statement is executed but its answer is lost, a child is killed.        *)
(* Faults lists what else a run allows.  Never: a slice takes longer to    *)
(* write than the time to the next, slice_interval.                        *)
(***************************************************************************)
EXTENDS Integers, FiniteSets, SequencesExt

CONSTANTS
    MaxPending,  \* MAX_PENDING_OPERLOG
    KeepDays,    \* slice_keeptime, in days
    Faults,      \* a subset of AllFaults
    MaxOps, MaxDay, MaxSlices, MaxStops  \* bounds on how much happens

AllFaults == {
    "refused",  \* the database refuses an INSERT of a slice
    "orphan",   \* an engine is started while a child of the last one runs
    "unsliced"} \* a day ends before the first slice is recorded

ASSUME RecoveryAssumption ==
    /\ MaxPending \in Nat \ {0}
    /\ KeepDays \in Nat
    /\ Faults \subseteq AllFaults
    /\ {MaxOps, MaxDay, MaxSlices, MaxStops} \subseteq Nat

VARIABLES
    mode,              \* of the engine: "running", "stopping" or "down"
    applied,           \* the operations its memory is, or was, the result of
    operlog_id_start,
    list,              \* the log entries not yet in a statement
    table_last,        \* the day whose table the engine last asked for
    jobs, working,     \* the statements queued, the one being executed
    day,
    tables, operlog,   \* the operlog_<day> tables there are, and their rows
    child,             \* child[i]: the process the i-th fork made
    slice_order, slice_balance,  \* the tables slice_*_<i>
    slice_history,     \* the table of the recorded slices
    served, forks, stops

engine == <<mode, applied, operlog_id_start, list, table_last>>
queue == <<jobs, working>>
log == <<tables, operlog>>
slices == <<child, slice_order, slice_balance, slice_history>>
counts == <<served, forks, stops>>
vars == <<engine, queue, day, log, slices, counts>>

NoJob == [day |-> 0, rows |-> <<>>]
Slices == 1..MaxSlices
IdleChild == [step |-> "idle", time |-> 0, state |-> <<>>, end |-> 0,
              victims |-> {}, victim |-> 0]
Steps == {"orders", "balance", "history", "clear",
          "drop_order", "drop_balance", "delete"}

Entry == [id : Nat, op : Nat]
Statement == [day : Nat, rows : Seq(Entry)]
Row == [day : Nat, id : Nat, op : Nat]
Record == [id : Nat, slice : Slices]
Content == {"absent", "partial", "whole"}
Child == [step : Steps \cup {"idle", "done"}, time : Nat, end : Nat,
          state : Seq(Nat), victims : SUBSET Slices, victim : Nat]

TypeOK ==
    /\ mode \in {"running", "stopping", "down"}
    /\ applied \in Seq(Nat)
    /\ operlog_id_start \in Nat
    /\ list \in Seq(Entry)
    /\ jobs \in Seq(Statement) /\ working \in Statement
    /\ day \in Nat \ {0} /\ table_last \in 0..day
    /\ tables \subseteq 1..day /\ operlog \subseteq Row
    /\ child \in [Slices -> Child]
    /\ slice_order \in [Slices -> Content]
    /\ slice_balance \in [Slices -> Content]
    /\ slice_history \subseteq Record
    /\ served \in Nat /\ forks \in 0..MaxSlices /\ stops \in Nat

Running(i) == child[i].step \in Steps
NoneRuns == \A i \in Slices : ~Running(i)

Init ==
    /\ mode = "down" /\ applied = <<>> /\ operlog_id_start = 0
    /\ list = <<>> /\ table_last = 0
    /\ jobs = <<>> /\ working = NoJob
    /\ day = 1 /\ tables = {} /\ operlog = {}
    /\ child = [i \in Slices |-> IdleChild]
    /\ slice_order = [i \in Slices |-> "absent"]
    /\ slice_balance = [i \in Slices |-> "absent"]
    /\ slice_history = {}
    /\ served = 0 /\ forks = 0 /\ stops = 0

-----------------------------------------------------------------------------
(* Loading: init_from_db *)

\* get_last_slice: ORDER BY id DESC LIMIT 1; 0 is last_slice_time = 0.
LastRecord ==
    CHOOSE r \in slice_history : \A q \in slice_history : q.id <= r.id
LastSlice == IF slice_history = {} THEN 0 ELSE LastRecord.slice

LastOperId == IF LastSlice = 0 THEN 0 ELSE child[LastSlice].end

Faulty_DaysRead_today == {day}

\* The tables that are read: today's, or all since the day of the slice.
DaysRead == IF LastSlice = 0 THEN {day} ELSE child[LastSlice].time..day

RowsRead == {r \in operlog : r.day \in DaysRead}

Faulty_Redone_again ==
    {r \in RowsRead : /\ r.id >= LastOperId
                      /\ \A q \in RowsRead : q.day < r.day => q.id < r.id}

\* load_operlog skips, table after table, the ids not above the last one.
Redone ==
    {r \in RowsRead : /\ r.id > LastOperId
                      /\ \A q \in RowsRead : q.day < r.day => q.id < r.id}

\* The load succeeds when the slice's tables are there and every id read is
\* the last one plus one.
Loadable ==
    /\ LastSlice # 0 => /\ slice_order[LastSlice] # "absent"
                        /\ slice_balance[LastSlice] # "absent"
    /\ {r.id : r \in Redone} =
           (LastOperId + 1)..(LastOperId + Cardinality(Redone))

\* A slice with a table that is not whole loads as if nothing was in it.
Snapshot ==
    IF LastSlice # 0 /\ slice_order[LastSlice] = "whole"
                     /\ slice_balance[LastSlice] = "whole"
    THEN child[LastSlice].state ELSE <<>>

Faulty_RestartId_slice == LastOperId

\* operlog_id_start after the load: the id of the last operation redone.
RestartId == LastOperId + Cardinality(Redone)

\* What the engine's memory holds after init_from_db.
Recovered ==
    Snapshot \o [n \in 1..Cardinality(Redone) |->
                   (CHOOSE r \in Redone : r.id = LastOperId + n).op]

\* main, init_from_db.  A load that fails ends the process.
Start ==
    /\ mode = "down"
    /\ "orphan" \in Faults \/ NoneRuns
    /\ Loadable
    /\ mode' = "running"
    /\ applied' = Recovered
    /\ operlog_id_start' = RestartId
    /\ UNCHANGED <<list, table_last, queue, day, log, slices, counts>>

-----------------------------------------------------------------------------
(* Logging: me_operlog.c *)

is_operlog_block == Len(jobs) >= MaxPending

\* A handler of me_server.c that changes state: it executes the operation,
\* appends it to the log and replies.
Serve ==
    /\ mode = "running" /\ ~is_operlog_block
    /\ served < MaxOps
    /\ served' = served + 1
    /\ applied' = Append(applied, served')
    /\ operlog_id_start' = operlog_id_start + 1
    /\ list' = Append(list, [id |-> operlog_id_start', op |-> served'])
    /\ UNCHANGED <<mode, table_last, queue, day, log, slices, forks, stops>>

Faulty_flush_log_no_create ==
    /\ jobs' = Append(jobs, [day |-> day, rows |-> list])
    /\ table_last' = day
    /\ list' = <<>>

\* flush_log: the table is that of the day of the flush; its CREATE is a
\* statement of its own, queued when the day is not the last flush's.
flush_log ==
    /\ jobs' = jobs \o (IF table_last = day THEN <<>>
                        ELSE <<[day |-> day, rows |-> <<>>]>>)
                    \o <<[day |-> day, rows |-> list]>>
    /\ table_last' = day
    /\ list' = <<>>

FlushTimer ==
    /\ mode = "running" /\ list # <<>>
    /\ flush_log
    /\ UNCHANGED <<mode, applied, operlog_id_start, working, day, log,
                   slices, counts>>

\* thread_routine takes the head of the queue.
Take ==
    /\ mode # "down" /\ working = NoJob /\ jobs # <<>>
    /\ working' = Head(jobs)
    /\ jobs' = Tail(jobs)
    /\ UNCHANGED <<engine, day, log, slices, counts>>

\* The database executes the statement.  An INSERT needs its table; one with
\* an id that is there already changes nothing (errno 1062).
Execute(sql) ==
    LET rows == {[day |-> sql.day, id |-> e.id, op |-> e.op] :
                     e \in ToSet(sql.rows)}
        clash == \E r \in rows, q \in operlog : q.day = r.day /\ q.id = r.id
    IN  /\ sql.rows # <<>> => sql.day \in tables
        /\ tables' = IF sql.rows = <<>> THEN tables \cup {sql.day} ELSE tables
        /\ operlog' = IF clash THEN operlog ELSE operlog \cup rows

\* on_job: the worker goes on when the statement succeeds or answers 1062.
\* On any other error it sends the statement again, which changes nothing.
OnJob ==
    /\ mode # "down" /\ working # NoJob
    /\ Execute(working)
    /\ working' = NoJob
    /\ UNCHANGED <<engine, jobs, day, slices, counts>>

\* The statement is executed but the connection breaks before the answer:
\* the worker will send it again.
OnJobUnanswered ==
    /\ mode # "down" /\ working # NoJob
    /\ Execute(working)
    /\ UNCHANGED <<engine, queue, day, slices, counts>>

-----------------------------------------------------------------------------
(* The end of an engine *)

\* The memory of the process and its queue are gone; applied is kept, only
\* to say what they were.
Gone ==
    /\ mode' = "down" /\ operlog_id_start' = 0
    /\ list' = <<>> /\ table_last' = 0
    /\ jobs' = <<>> /\ working' = NoJob
    /\ UNCHANGED applied

Crash ==
    /\ mode # "down" /\ stops < MaxStops
    /\ stops' = stops + 1
    /\ Gone
    /\ UNCHANGED <<day, log, slices, served, forks>>

\* main after nw_loop_run, fini_operlog: the last flush, then the worker has
\* 100 ms for what is queued.
Shutdown ==
    /\ mode = "running" /\ stops < MaxStops
    /\ stops' = stops + 1
    /\ mode' = "stopping"
    /\ IF list = <<>> THEN UNCHANGED <<jobs, list, table_last>> ELSE flush_log
    /\ UNCHANGED <<applied, operlog_id_start, working, day, log, slices,
                   served, forks>>

\* nw_job_release: the worker ends its statement, what is queued is dropped.
Exit ==
    /\ mode = "stopping" /\ working = NoJob
    /\ Gone
    /\ UNCHANGED <<day, log, slices, counts>>

-----------------------------------------------------------------------------
(* Slices: me_persist.c, me_dump.c *)

\* on_timer, make_slice: the slice of the hour before is written.  The child
\* has the engine's memory of this moment.
MakeSlice ==
    /\ mode = "running" /\ forks < MaxSlices
    /\ "orphan" \in Faults \/ NoneRuns
    /\ forks' = forks + 1
    /\ child' = [child EXCEPT ![forks'] =
                    [step |-> "orders", time |-> day, state |-> applied,
                     end |-> operlog_id_start, victims |-> {}, victim |-> 0]]
    /\ UNCHANGED <<engine, queue, day, log, slice_order, slice_balance,
                   slice_history, served, stops>>

\* What a dumped table may hold.  An INSERT that is refused goes unnoticed:
\* mysql_real_query returns a positive number and the dump looks for ret < 0.
Written == {"whole"} \cup (IF "refused" \in Faults THEN {"partial"} ELSE {})

Go(i, step) == child' = [child EXCEPT ![i].step = step]

DumpOrders(i) ==
    /\ child[i].step = "orders"
    /\ \E c \in Written : slice_order' = [slice_order EXCEPT ![i] = c]
    /\ Go(i, "balance")
    /\ UNCHANGED <<slice_balance, slice_history>>

DumpBalance(i) ==
    /\ child[i].step = "balance"
    /\ \E c \in Written : slice_balance' = [slice_balance EXCEPT ![i] = c]
    /\ Go(i, "history")
    /\ UNCHANGED <<slice_order, slice_history>>

\* The DROP or the CREATE of a table fails: "dump fail", then clear_slice.
DumpFails(i) ==
    /\ child[i].step \in {"orders", "balance"}
    /\ Go(i, "clear")
    /\ UNCHANGED <<slice_order, slice_balance, slice_history>>

\* The id that AUTO_INCREMENT gives to a row inserted with id NULL.
NextId == IF slice_history = {} THEN 1 ELSE LastRecord.id + 1

\* update_slice_history; a refused INSERT goes unnoticed here too.
UpdateSliceHistory(i) ==
    /\ child[i].step = "history"
    /\ \/ slice_history' = slice_history \cup {[id |-> NextId, slice |-> i]}
       \/ "refused" \in Faults /\ UNCHANGED slice_history
    /\ Go(i, "clear")
    /\ UNCHANGED <<slice_order, slice_balance>>

\* clear_slice: nothing is deleted unless a recent slice is recorded.
ListOldSlices(i) ==
    LET recorded == {r.slice : r \in slice_history}
        recent == {s \in recorded : child[s].time >= child[i].time - KeepDays}
        goOn == recent # {} /\ recorded # recent
    IN  /\ child[i].step = "clear"
        /\ child' = [child EXCEPT
                        ![i].step = IF goOn THEN "drop_order" ELSE "done",
                        ![i].victims = IF goOn THEN recorded \ recent ELSE {}]
        /\ UNCHANGED <<slice_order, slice_balance, slice_history>>

\* delete_slice, for one victim after the other, in any order as the SELECT
\* has none: three statements.  A DROP of a table that is not there fails and
\* ends the clearing.
DropOrder(i) ==
    /\ child[i].step = "drop_order"
    /\ \E v \in child[i].victims :
          /\ slice_order' = [slice_order EXCEPT ![v] = "absent"]
          /\ child' = [child EXCEPT
                          ![i].victim = v,
                          ![i].step = IF slice_order[v] = "absent" THEN "done"
                                      ELSE "drop_balance"]
    /\ UNCHANGED <<slice_balance, slice_history>>

DropBalance(i) ==
    /\ child[i].step = "drop_balance"
    /\ LET v == child[i].victim
       IN  /\ slice_balance' = [slice_balance EXCEPT ![v] = "absent"]
           /\ Go(i, IF slice_balance[v] = "absent" THEN "done" ELSE "delete")
    /\ UNCHANGED <<slice_order, slice_history>>

DeleteRow(i) ==
    /\ child[i].step = "delete"
    /\ LET v == child[i].victim
           left == child[i].victims \ {v}
       IN  /\ slice_history' = {r \in slice_history : r.slice # v}
           /\ child' = [child EXCEPT
                           ![i].victims = left,
                           ![i].step = IF left = {} THEN "done"
                                       ELSE "drop_order"]
    /\ UNCHANGED <<slice_order, slice_balance>>

\* The child is killed, or a statement of clear_slice fails.
ChildEnds(i) ==
    /\ Running(i)
    /\ Go(i, "done")
    /\ UNCHANGED <<slice_order, slice_balance, slice_history>>

ChildStep(i) ==
    /\ \/ DumpOrders(i) \/ DumpBalance(i) \/ DumpFails(i)
       \/ UpdateSliceHistory(i)
       \/ ListOldSlices(i) \/ DropOrder(i) \/ DropBalance(i) \/ DeleteRow(i)
       \/ ChildEnds(i)
    /\ UNCHANGED <<engine, queue, day, log, counts>>

-----------------------------------------------------------------------------
\* Midnight.  A slice begun on an earlier day is written by now, and the
\* hourly slices of the first day have produced one.
NextDay ==
    /\ day < MaxDay
    /\ \A i \in Slices : Running(i) => child[i].time = day
    /\ "unsliced" \in Faults \/ slice_history # {} \/ served = 0
    /\ day' = day + 1
    /\ UNCHANGED <<engine, queue, log, slices, counts>>

Next ==
    \/ Start \/ Serve \/ FlushTimer
    \/ Take \/ OnJob \/ OnJobUnanswered
    \/ Crash \/ Shutdown \/ Exit
    \/ MakeSlice \/ NextDay
    \/ \E i \in Slices : ChildStep(i)

\* The timer of 0.1 s and the worker thread keep going, and the database
\* does not refuse a statement for ever.
Spec == /\ Init /\ [][Next]_vars
        /\ WF_vars(FlushTimer) /\ WF_vars(Take) /\ WF_vars(OnJob)
=============================================================================
