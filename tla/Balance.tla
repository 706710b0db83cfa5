------------------------------- MODULE Balance -------------------------------
(***************************************************************************)
(* matchengine/me_balance.c: the table dict_balance that maps (user, type, *)
(* asset) to an amount, and the operations every other part of the match   *)
(* engine moves money with.                                                *)
(*                                                                         *)
(* An operator takes the whole table and returns the next one.  The C      *)
(* functions return NULL when they refuse; here the refusal leaves the     *)
(* table unchanged, and Covers tells the caller which of the two happened. *)
(*                                                                         *)
(* Simplifications:                                                        *)
(*  - amounts are naturals counting units of 10^-prec_save, so a stored    *)
(*    amount is never negative and needs no rescaling; a caller that       *)
(*    subtracts a fraction of a unit passes its ceiling, which is what     *)
(*    mpd_sub followed by the ROUND_DOWN rescale takes away;               *)
(*  - a key that is not in the dict and a key that maps to zero are the    *)
(*    same amount 0: the engine asks only for amounts greater than zero,   *)
(*    and both are refused as too small;                                   *)
(*  - one market, so two assets, its stock and its money.                  *)
(*                                                                         *)
(* Here and in the other modules an operator Faulty_<definition>_<fault>   *)
(* is that definition with a bug; no specification uses it.  README.md     *)
(* says which property notices which of them.                              *)
(***************************************************************************)
EXTENDS Naturals

CONSTANT Users     \* the user ids that hold balances or send requests

BalanceTypes == {"available", "freeze"}
Assets == {"stock", "money"}

(* struct balance_key, and a table over all of its values. *)
BalanceKey == Users \X BalanceTypes \X Assets
Balances == [BalanceKey -> Nat]

EmptyBalances == [k \in BalanceKey |-> 0]

(* The test before a subtraction: the entry exists and is large enough. *)
Covers(b, k, x) == b[k] >= x

balance_add(b, k, x) == [b EXCEPT ![k] = @ + x]

balance_sub(b, k, x) ==
    IF Covers(b, k, x) THEN [b EXCEPT ![k] = @ - x] ELSE b

(* Move x of an asset between a user's two entries, or do nothing. *)
Faulty_balance_freeze_copies(b, u, a, x) ==
    IF Covers(b, <<u, "available", a>>, x)
    THEN [b EXCEPT ![<<u, "freeze", a>>] = @ + x] ELSE b
balance_freeze(b, u, a, x) ==
    IF Covers(b, <<u, "available", a>>, x)
    THEN [b EXCEPT ![<<u, "freeze", a>>] = @ + x,
                   ![<<u, "available", a>>] = @ - x]
    ELSE b

Faulty_balance_unfreeze_copies(b, u, a, x) ==
    IF Covers(b, <<u, "freeze", a>>, x)
    THEN [b EXCEPT ![<<u, "available", a>>] = @ + x] ELSE b
balance_unfreeze(b, u, a, x) ==
    IF Covers(b, <<u, "freeze", a>>, x)
    THEN [b EXCEPT ![<<u, "available", a>>] = @ + x,
                   ![<<u, "freeze", a>>] = @ - x]
    ELSE b

balance_total(b, u, a) == b[<<u, "available", a>>] + b[<<u, "freeze", a>>]
==============================================================================
