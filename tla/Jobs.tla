-------------------------------- MODULE Jobs --------------------------------
(***************************************************************************)
(* network/nw_job.c: worker threads take requests from the main thread in  *)
(* the order they were added, each on its own, and give their answers      *)
(* back in the order they are done with them.  A byte in a pipe wakes the  *)
(* main thread.  The modules that use a job say what on_job and on_finish  *)
(* do; without an entry a thread holds <<>>.                               *)
(***************************************************************************)
EXTENDS Naturals, Sequences, SequencesExt

CONSTANT Thread

VARIABLE job

nw_job_create ==
    job = [requests |-> <<>>, running |-> [t \in Thread |-> <<>>],
           replies |-> <<>>, pipe |-> FALSE, reading |-> FALSE, shutdown |-> FALSE]

Recreated == job' = [requests |-> <<>>, running |-> [t \in Thread |-> <<>>],
                     replies |-> <<>>, pipe |-> FALSE, reading |-> FALSE, shutdown |-> FALSE]

request_count == Len(job.requests)

Running == {t \in Thread : job.running[t] # <<>>}

(* The entries that wait for a thread or are with one.                     *)
Pending == ToSet(job.requests) \cup {job.running[t][1] : t \in Running}

(* A sequence of entries, as a handler may add several.                    *)
nw_job_add(entries) == job' = [job EXCEPT !.requests = @ \o entries]

(* thread_routine takes the head of the list under the lock.               *)
Take(t) ==
    /\ ~job.shutdown
    /\ job.running[t] = <<>> /\ job.requests # <<>>
    /\ job' = [job EXCEPT !.running[t] = <<Head(job.requests)>>, !.requests = Tail(@)]

(* After on_job the entry is put behind the others, with its reply, and a  *)
(* byte is written before the lock is given back.  A full pipe has one.    *)
Done(t, entry) ==
    /\ job.running[t] # <<>>
    /\ job' = [job EXCEPT !.running[t] = <<>>, !.replies = Append(@, entry), !.pipe = TRUE]

(* Of a job without on_finish the main thread only frees the entries.      *)
DoneUnanswered(t) ==
    /\ job.running[t] # <<>>
    /\ job' = [job EXCEPT !.running[t] = <<>>]

(* on_can_read empties the pipe, then the list, one entry at a time.       *)
Wake ==
    /\ job.pipe /\ ~job.reading
    /\ job' = [job EXCEPT !.pipe = FALSE, !.reading = TRUE]

Reply ==
    /\ job.reading /\ job.replies # <<>>
    /\ job' = [job EXCEPT !.replies = Tail(@)]

Emptied ==
    /\ job.reading /\ job.replies = <<>>
    /\ job' = [job EXCEPT !.reading = FALSE]

(* nw_job_release tells the threads to end; one that runs a request does   *)
(* so after it, and the requests nobody has taken are dropped.             *)
nw_job_release == job' = [job EXCEPT !.shutdown = TRUE]

Joined == job.shutdown /\ Running = {}
=============================================================================
