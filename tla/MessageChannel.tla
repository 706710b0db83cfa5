---------------------------- MODULE MessageChannel ----------------------------
(***************************************************************************)
(* What a client of a connection that carries messages may rely on: the    *)
(* other side gets its messages, whole, in order and each once, until the  *)
(* connection ends.                                                        *)
(***************************************************************************)
EXTENDS Naturals, Sequences

VARIABLES sent, got, open

vars == <<sent, got, open>>

Init == sent = <<>> /\ got = <<>> /\ open = TRUE

Send ==
    /\ Len(sent') = Len(sent) + 1 /\ SubSeq(sent', 1, Len(sent)) = sent
    /\ UNCHANGED <<got, open>>

Deliver ==
    /\ open
    /\ \E n \in Len(got)..Len(sent) : got' = SubSeq(sent, 1, n)
    /\ open' \in BOOLEAN
    /\ UNCHANGED sent

Next == Send \/ Deliver

(* What has been sent does not wait for ever.                              *)
Spec == Init /\ [][Next]_vars /\ WF_vars(got # sent /\ Deliver)
===============================================================================
