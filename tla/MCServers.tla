------------------------------ MODULE MCServers ------------------------------
(***************************************************************************)
(* Instances for TLC of two servers over the network library: the HTTP     *)
(* gateway, HttpGateway.tla, and the history reader, HistoryReader.tla,    *)
(* which have no state in common.  A behaviour has one part: of the        *)
(* gateway, connections that are handed to workers, all of which may end,  *)
(* or the first worker, which does not, serving requests; of the reader,   *)
(* two sessions at a time, of which the pager's asks once, or one at a     *)
(* time, the other's asking nothing.                                       *)
(*                                                                         *)
(* Of things that nothing distinguishes yet, a certain one is used first.  *)
(***************************************************************************)
EXTENDS HttpGatewayProperties, HistoryReaderProperties, TLC

CONSTANTS FirstConn, FirstWorker, FirstSlot, Pager, Other

VARIABLE part

Row(n) == [id |-> n, owner |-> 1, subject |-> "m", time |-> n]
TwoRows == {Row(1), Row(3)}
OneMore == {Row(2)}

FewAsks == (Pager :> 2) @@ (Other :> 1)

Query(command, limit) ==
    [command |-> command, owner |-> 1, subject |-> "m", start_time |-> 0, end_time |-> 0,
     offset |-> 0, limit |-> limit]
SomeOthers ==
    {Query("order_detail", 0), Query("unknown", 0), Query("not an array", 0)}

(* A new process of the server knows no slot, a worker none before it has  *)
(* had a session.                                                          *)
FirstSlotFirst ==
    svr_id_start \in {0, UINT_MAX} /\ svr_ses # svr_ses' => svr_ses'[FirstSlot] # NoSes
FirstOnesFirst ==
    /\ \A w \in Workers : svr_id[w] = 0 /\ svr_id'[w] = 1 => ses'[w][FirstSlot].id = 1
    /\ backlog = {} /\ accepted = {} => backlog' \subseteq {FirstConn}
    /\ links = 0 /\ links' = 1 => link'[FirstWorker] = 1

Reading ==
    /\ part \in {"two sessions", "two pages"}
    /\ ReaderNext /\ UNCHANGED vars
    /\ FirstSlotFirst
    /\ part = "two sessions" => asks'[Pager] <= 1
    /\ part = "two pages" =>
          /\ asks'[Other] = 0
          /\ \A s \in SesSlots \ {FirstSlot} : svr_ses'[s] = NoSes
Serving ==
    /\ part \in {"handing over", "serving"}
    /\ Next /\ UNCHANGED readerVars
    /\ FirstOnesFirst
    /\ part = "handing over" => written' = written /\ connected' = connected
    /\ part = "serving" =>
          /\ stops' = 0
          /\ \A w \in Workers \ {FirstWorker} : link'[w] = 0 /\ w \in connected'
          /\ workers # {} => link' = link /\ workers' = workers

Parts == {"two sessions", "two pages", "handing over", "serving"}
MCInit == Init /\ ReaderInit /\ part \in Parts
MCNext == (Reading \/ Serving) /\ UNCHANGED part
MCSpec == MCInit /\ [][MCNext]_<<vars, readerVars, part>> /\ Fairness
==============================================================================
