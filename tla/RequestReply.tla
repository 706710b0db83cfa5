----------------------------- MODULE RequestReply -----------------------------
(***************************************************************************)
(* What a client of a gateway may rely on: a request is answered at most   *)
(* once, on the connection that asked, while that is open.                 *)
(***************************************************************************)
EXTENDS Naturals, Sequences

CONSTANTS MaxRequests

VARIABLES
    open,     \* the connections there are, by number
    last,     \* the last number given to one
    asked,    \* the connection of each request
    answers   \* for each request, the connections an answer was given to

vars == <<open, last, asked, answers>>

Init ==
    /\ open = {} /\ last = 0
    /\ asked = <<>>
    /\ answers = [r \in 1..MaxRequests |-> <<>>]

Connect ==
    /\ last' = last + 1
    /\ open' = open \cup {last + 1}
    /\ UNCHANGED <<asked, answers>>

(* Connections end when either side likes, also instead of an answer.      *)
Disconnect ==
    /\ open' \subseteq open
    /\ UNCHANGED <<last, asked, answers>>

Answer(r) ==
    /\ r \in DOMAIN asked
    /\ asked[r] \in open
    /\ answers[r] = <<>>
    /\ answers' = [answers EXCEPT ![r] = <<asked[r]>>]
    /\ UNCHANGED <<open, last, asked>>

(* Requests come, several perhaps at once; any of them may be answered, or *)
(* end their connection, at once.                                          *)
Ask(c) ==
    /\ c \in open
    /\ \E n \in 1..MaxRequests - Len(asked) :
          /\ asked' = asked \o [i \in 1..n |-> c]
          /\ \E now \in SUBSET (Len(asked) + 1..Len(asked) + n) :
                answers' = [r \in DOMAIN answers |->
                               IF r \in now THEN <<c>> ELSE answers[r]]
    /\ open' \in {open, open \ {c}}
    /\ UNCHANGED last

Next ==
    \/ Connect
    \/ Disconnect
    \/ \E r \in 1..MaxRequests : Answer(r)
    \/ \E c \in open : Ask(c)

Spec == Init /\ [][Next]_vars
===============================================================================
