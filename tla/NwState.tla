------------------------------- MODULE NwState -------------------------------
(***************************************************************************)
(* network/nw_state.c: what waits for an answer, each entry under an id    *)
(* and with a timer.  A context is a record of the last id given and the   *)
(* entries; the hash table that finds them is left out.                    *)
(***************************************************************************)
EXTENDS Naturals, FiniteSetsExt

nw_state_create(last) == [id_start |-> last, entries |-> {}]

nw_state_get(context, id) == {e \in context.entries : e.id = id}

(* The first id after the last one that is neither 0 nor in use.           *)
get_available_id(context, uint_max) ==
    LET free == {n \in 1..uint_max : nw_state_get(context, n) = {}}
        later == {n \in free : n > context.id_start}
    IN Min(IF later = {} THEN free ELSE later)

nw_state_add(context, uint_max, data) ==
    LET id == get_available_id(context, uint_max)
    IN [id_start |-> id, entries |-> context.entries \cup {[id |-> id, data |-> data]}]

(* nw_state_del, and on_timeout once the owner's has returned.             *)
state_remove(context, e) == [context EXCEPT !.entries = @ \ {e}]
==============================================================================
