-------------------------- MODULE MCPurchaseIntake ---------------------------
(* A small instance of PurchaseIntake for TLC.                             *)
EXTENDS PurchaseIntakeProperties

CONSTANTS k1, k2, o1, o2, t1

(* Under one key two orders and a topup, and one of them under another key.*)
MCCalls == [key : {k1}, order : {o1, o2, t1}] \cup [key : {k2}, order : {o1}]
=============================================================================
