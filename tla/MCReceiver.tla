------------------------------ MODULE MCReceiver ------------------------------
(* One row of two columns, 1 and 3, and a system key between them.  Blocks *)
(* of two bytes and a bit count that overflows its first word after four   *)
(* bytes, in the second value of a row.                                    *)
EXTENDS Receiver

z == <<"0">>
e == <<"e">>
MCEpoch == <<e, e>>
MCZeroDate == <<z, z, z>>
MCZeroNumber == <<z>>
MCValues == {<<>>, MCEpoch}
===============================================================================
