------------------------------ MODULE MCOutput ------------------------------
(***************************************************************************)
(* Instances of EngineOutput.  The rows and the messages of the commands   *)
(* have nothing to do with each other, so that a behaviour lets one of     *)
(* them fall behind: the other is done with before its next step, and      *)
(* does not fail.  Idle threads are alike, so that the first one takes     *)
(* what there is; and so are tables with a primary key, or without one, of *)
(* which one has its statement sent again.  After a restart that took rows *)
(* one thread takes all, as where the messages fall behind.                *)
(***************************************************************************)
EXTENDS EngineOutput

CONSTANT FirstThread

VARIABLE behind

(* One order of one user, without a deal. *)
OneOrder == (1 :> Order(1, FALSE))

MessagesDone == \A t \in Topics : list[t] = <<>> /\ queue[t] = <<>>
RowsDone == dict_sql = <<>> /\ Pending = {}

MCInit == init_output /\ behind \in {"rows", "messages"}

MCNext ==
    /\ OutputNext /\ UNCHANGED behind
    /\ Running = {} \/ lost # {} \/ behind = "messages" => Running' \subseteq {FirstThread}
    /\ \A r \in repeated' : r.key[1] \in {"user_balance", "order_detail"}
    /\ phase = "loop" /\ phase' = "loop" =>
           IF behind = "rows"
           THEN /\ job' # job => MessagesDone
                /\ dropped' # dropped => lost' # lost
           ELSE /\ repeated' = repeated
                /\ <<queue, troubles>>' # <<queue, troubles>> /\ commands' = commands =>
                       RowsDone
    /\ behind = "messages" /\ phase' # phase => RowsDone

MCSpec == MCInit /\ [][MCNext]_<<outputVars, behind>> /\ OutputFairness
=============================================================================
