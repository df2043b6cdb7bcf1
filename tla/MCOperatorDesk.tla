--------------------------- MODULE MCOperatorDesk ----------------------------
(* Small instances of OperatorDesk for TLC.                                *)
EXTENDS OperatorDeskProperties

CONSTANTS k1, k2, p1, p2, c1

Ask(k, purchase, d, code) ==
    [key |-> k, purchase |-> purchase, decision |-> d, code |-> code]

(* One key used for two decisions about the first purchase, for one about  *)
(* the second and to read both, and another one under which the same code  *)
(* is recorded for the second.                                             *)
MCCalls ==
    {Ask(k1, p1, "failed", NoCode), Ask(k1, p2, "failed", NoCode), Ask(k1, p1, "succeeded", c1),
     Ask(k2, p2, "succeeded", c1),
     Ask(k1, p1, "read", NoCode), Ask(k1, p2, "read", NoCode)}
=============================================================================
