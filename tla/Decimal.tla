-------------------------------- MODULE Decimal --------------------------------
(***************************************************************************)
(* utils/ut_decimal.c: an asset has two precisions.  A balance is kept     *)
(* with prec_save, in units that are the integers of the other modules,    *)
(* and shown to clients, and read from them, with prec_show.               *)
(***************************************************************************)
EXTENDS Integers

CONSTANT ShowUnit   \* units of prec_save in one unit of prec_show

ASSUME DecimalAssumption == ShowUnit \in Nat \ {0}

(* decimal and mpd_rescale with MPD_ROUND_DOWN: the digits beyond the      *)
(* precision are cut off, whatever the sign.                               *)
AtPrecision(x, unit) == IF x >= 0 THEN (x \div unit) * unit
                        ELSE -(((-x) \div unit) * unit)
===============================================================================
