---------------------------- MODULE VoucherOrder ----------------------------
(***************************************************************************)
(* What buying a quantity of vouchers promises its owner, with no batch,   *)
(* lock, renewal or position in it: the ordered quantity is bought one at  *)
(* a time, the next only when the outcome of the last one is known, and    *)
(* what was not bought can still be, but never more than was ordered.      *)
(***************************************************************************)
EXTENDS Naturals

CONSTANT Quantities   \* that may be ordered

VARIABLES wanted,   \* vouchers still to be bought
          unknown,  \* purchases without an outcome
          bought    \* vouchers paid for

orderVars == <<wanted, unknown, bought>>

OrderInit == wanted = 0 /\ unknown = 0 /\ bought = 0

Place ==
    /\ wanted + unknown + bought = 0
    /\ wanted' \in Quantities
    /\ UNCHANGED <<unknown, bought>>

Buy ==
    /\ wanted > 0
    /\ unknown = 0
    /\ wanted' = wanted - 1
    /\ unknown' = 1
    /\ UNCHANGED bought

Bought ==
    /\ unknown = 1
    /\ unknown' = 0
    /\ bought' = bought + 1
    /\ UNCHANGED wanted

NotBought ==
    /\ unknown = 1
    /\ unknown' = 0
    /\ wanted' = wanted + 1
    /\ UNCHANGED bought

OrderNext == Place \/ Buy \/ Bought \/ NotBought

OrderSpec == OrderInit /\ [][OrderNext]_orderVars
=============================================================================
