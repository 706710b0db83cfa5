------------------------------ MODULE DurableLog ------------------------------
(***************************************************************************)
(* What the match engine's persistence promises, whatever its queues,      *)
(* tables and slices: the operations that survive an end of the engine are *)
(* the first ones it acknowledged, in their order, and what has become     *)
(* safe stays safe.  Only the newest operations may be lost.               *)
(***************************************************************************)
EXTENDS Naturals, Sequences

VARIABLES
    ops,    \* the operations acknowledged and not lost
    saved   \* those of them that a new engine would have

vars == <<ops, saved>>

Init == ops = <<>> /\ saved = <<>>

\* The engine acknowledges one more operation.
Acknowledge ==
    /\ Len(ops') = Len(ops) + 1
    /\ SubSeq(ops', 1, Len(ops)) = ops
    /\ UNCHANGED saved

\* More operations become safe.
Save ==
    /\ \E n \in Len(saved)..Len(ops) : saved' = SubSeq(ops, 1, n)
    /\ UNCHANGED ops

\* A new engine has what was safe.
Restart ==
    /\ ops' = saved
    /\ UNCHANGED saved

Next == Acknowledge \/ Save \/ Restart

Spec == Init /\ [][Next]_vars
=============================================================================
