---------------------------- MODULE PurchaseRows ----------------------------
(***************************************************************************)
(* What becomes of purchases at Supplier Hub, as their rows tell it, with  *)
(* no lease, lock, request or transaction in it: workers end with each one *)
(* or leave it to the operators, who decide what was left to them.         *)
(*                                                                         *)
(* HubPurchases has the workers in detail and takes an operator's decision *)
(* in one step; OperatorDesk has the operators in detail and takes the end *)
(* of the workers' work in one step.  Both implement this specification:   *)
(* each does to the rows what the other expects of it.                     *)
(***************************************************************************)
CONSTANTS Purchases,
          Topups,       \* those that are delivered without a code
          Codes,
          OldCodes,     \* those stored with purchases of the past
          NoCode

VARIABLES phase,    \* what the row says of a purchase
          code,     \* the code stored with it
          decided   \* what an operator decided about it, or "none"

rowsVars == <<phase, code, decided>>

Outcome == {"succeeded", "failed"}

RowsInit ==
    /\ phase \in [Purchases -> {"worked", "attention"}]
    /\ code = [p \in Purchases |-> NoCode]
    /\ decided = [p \in Purchases |-> "none"]

(* A code comes with every success but that of a topup, and with one only. *)
Free(p, c) == c = NoCode \/ (c \notin OldCodes /\ \A q \in Purchases \ {p} : code[q] # c)

End(p, outcome, c) ==
    /\ c # NoCode <=> outcome = "succeeded" /\ p \notin Topups
    /\ Free(p, c)
    /\ phase' = [phase EXCEPT ![p] = outcome]
    /\ code' = [code EXCEPT ![p] = c]

WorkerEnds(p, outcome, c) ==
    /\ phase[p] = "worked"
    /\ End(p, outcome, c)
    /\ UNCHANGED decided

WorkerGivesUp(p) ==
    /\ phase[p] = "worked"
    /\ phase' = [phase EXCEPT ![p] = "attention"]
    /\ UNCHANGED <<code, decided>>

OperatorEnds(p, outcome, c) ==
    /\ phase[p] = "attention"
    /\ End(p, outcome, c)
    /\ decided' = [decided EXCEPT ![p] = outcome]

WorkerDoes(p) ==
    \/ \E outcome \in Outcome, c \in Codes \cup {NoCode} : WorkerEnds(p, outcome, c)
    \/ WorkerGivesUp(p)

RowsNext ==
    \E p \in Purchases :
        \/ WorkerDoes(p)
        \/ \E outcome \in Outcome, c \in Codes \cup {NoCode} : OperatorEnds(p, outcome, c)

RowsSpec == RowsInit /\ [][RowsNext]_rowsVars
=============================================================================
