-------------------------- MODULE RecoveryProperties --------------------------
(***************************************************************************)
(* What must be true of the match engine's persistence, Recovery.tla.      *)
(***************************************************************************)
EXTENDS Recovery

\* Whatever has happened, init_from_db can load what is in the database: the
\* tables of the last slice are there, however many slices clear_slice has
\* deleted, and the ids load_operlog reads follow each other.
AlwaysLoadable == Loadable

\* me_persist.c, me_load.c: an engine started now would have the first of the
\* operations the last one acknowledged, in their order, none missing between
\* and none that was never acknowledged.
RecoversPrefix == IsPrefix(Recovered, applied)

\* me_operlog.c, on_job: errno 1062 is taken for success.  That is right only
\* if an id that is already in the table belongs to the very same operation,
\* also after a crash, when the ids of lost operations are given out again.
RefusedOnlyWhenLogged ==
    \A sql \in ToSet(jobs) \cup {working}, r \in operlog :
        \A e \in ToSet(sql.rows) : r.id = e.id => r.op = e.op

\* The engine's timer and the worker get every acknowledged operation into
\* the database, unless the engine ends first.
LoggedEventually ==
    \A op \in 1..MaxOps :
        op \in ToSet(applied) ~> (op \in ToSet(Recovered) \/ mode = "down")

\* me_operlog.c to me_load.c implement DurableLog: losing the engine costs at
\* most the newest operations, and nothing that was safe is lost by a flush,
\* a new slice, a deleted one, a new day or a restart.
Durable == INSTANCE DurableLog WITH ops <- applied, saved <- Recovered
ImplementsDurableLog == Durable!Spec

\* The instance for TLC: the last slice or the last operation, not both.
FewerSlices == served' < MaxOps \/ forks' < MaxSlices
MCSpec == /\ Init /\ [][Next /\ FewerSlices]_vars
          /\ WF_vars(FlushTimer) /\ WF_vars(Take) /\ WF_vars(OnJob)
=============================================================================
