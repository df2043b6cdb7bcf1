-------------------------- MODULE PurchaseContract --------------------------
(***************************************************************************)
(* What Supplier Hub promises to the consumer (Seller) that ordered a      *)
(* purchase and to whoever pays the supplier's bill, with no worker, lease *)
(* or message in it.  An order is open until the Hub commits to paying;    *)
(* the supplier charges at most once, and only for a committed order; an   *)
(* order the Hub reports failed has not been charged and never will be,    *)
(* which is what lets the consumer fall back to its own pool; and a        *)
(* success is reported only for a charged order.  An operator may override *)
(* the outcome of a committed order: the person answers for it then, and   *)
(* a charge the supplier still makes is no longer the Hub's statement.     *)
(***************************************************************************)
CONSTANT Purchases

VARIABLES phase,      \* what the Hub has committed to or reported
          charged,    \* whether the supplier has taken the money
          overridden  \* whether an operator decided the outcome

contractVars == <<phase, charged, overridden>>

Phase == {"absent", "open", "committed", "succeeded", "failed"}

ContractTypeOK ==
    /\ phase \in [Purchases -> Phase]
    /\ charged \in [Purchases -> BOOLEAN]
    /\ overridden \in [Purchases -> BOOLEAN]

ContractInit ==
    /\ phase = [p \in Purchases |-> "absent"]
    /\ charged = [p \in Purchases |-> FALSE]
    /\ overridden = [p \in Purchases |-> FALSE]

Order(p) ==
    /\ phase[p] = "absent"
    /\ phase' = [phase EXCEPT ![p] = "open"]
    /\ UNCHANGED <<charged, overridden>>

(* The order is refused before anything was committed.                     *)
Refuse(p) ==
    /\ phase[p] = "open"
    /\ phase' = [phase EXCEPT ![p] = "failed"]
    /\ UNCHANGED <<charged, overridden>>

Commit(p) ==
    /\ phase[p] = "open"
    /\ phase' = [phase EXCEPT ![p] = "committed"]
    /\ UNCHANGED <<charged, overridden>>

Charge(p) ==
    /\ ~charged[p]
    /\ phase[p] = "committed" \/ overridden[p]
    /\ charged' = [charged EXCEPT ![p] = TRUE]
    /\ UNCHANGED <<phase, overridden>>

Succeed(p) ==
    /\ phase[p] = "committed"
    /\ charged[p]
    /\ phase' = [phase EXCEPT ![p] = "succeeded"]
    /\ UNCHANGED <<charged, overridden>>

(* The supplier rejected the payment: no Charge is enabled from here on.   *)
Reject(p) ==
    /\ phase[p] = "committed"
    /\ ~charged[p]
    /\ phase' = [phase EXCEPT ![p] = "failed"]
    /\ UNCHANGED <<charged, overridden>>

Override(p) ==
    /\ phase[p] = "committed"
    /\ \E outcome \in {"succeeded", "failed"} :
           phase' = [phase EXCEPT ![p] = outcome]
    /\ overridden' = [overridden EXCEPT ![p] = TRUE]
    /\ UNCHANGED charged

ContractNext ==
    \E p \in Purchases :
        \/ Order(p) \/ Refuse(p) \/ Commit(p) \/ Charge(p)
        \/ Succeed(p) \/ Reject(p) \/ Override(p)

ContractSpec == ContractInit /\ [][ContractNext]_contractVars
=============================================================================
