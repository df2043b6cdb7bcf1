-------------------------- MODULE OperatorDecisions -------------------------
(***************************************************************************)
(* What operators are promised who decide about purchases and read their   *)
(* codes: every request is served at one moment, by the rows and the logs  *)
(* as they are then, and its answer says what it did or why it did         *)
(* nothing.  A request whose answer is lost may not have been served.      *)
(***************************************************************************)
EXTENDS PurchaseRows

CONSTANTS Requests, Keys, Calls, NoPurchase, NoReply

VARIABLES actions,  \* the log of decisions, by key
          accesses, \* the log of codes that were shown, by key
          reply     \* what a request was told, if its answer arrived

decisionsVars == <<rowsVars, actions, accesses, reply>>

DecisionsInit ==
    /\ RowsInit
    /\ actions = {}
    /\ accesses = [k \in Keys |-> NoPurchase]
    /\ reply = [r \in Requests |-> NoReply]

Reply(r, c, says) ==
    /\ reply[r] = NoReply
    /\ reply' = [reply EXCEPT ![r] = [call |-> c, says |-> says]]

-----------------------------------------------------------------------------
(* A key stands for one decision.                                          *)
KeyIsUsed(c) == \E a \in actions : a.key = c.key

Resolve(r, c) ==
    /\ Reply(r, c, "resolved")
    /\ ~ KeyIsUsed(c)
    /\ OperatorEnds(c.purchase, c.decision, c.code)
    /\ actions' = actions \cup {c}
    /\ UNCHANGED accesses

(* What nothing is done about, and why.                                    *)
Repeated(c) == c \in actions
Misused(c) == KeyIsUsed(c) /\ c \notin actions
NotAwaiting(c) == ~ KeyIsUsed(c) /\ phase[c.purchase] # "attention"
CodeInUse(c) == phase[c.purchase] = "attention" /\ ~ Free(c.purchase, c.code)

Decline(r, c) ==
    /\ \/ Reply(r, c, "repeated") /\ Repeated(c)
       \/ Reply(r, c, "conflict") /\ Misused(c)
       \/ Reply(r, c, "not_awaiting") /\ NotAwaiting(c)
       \/ Reply(r, c, "duplicate") /\ (Misused(c) \/ CodeInUse(c))
    /\ UNCHANGED <<rowsVars, actions, accesses>>

-----------------------------------------------------------------------------
(* A code is shown once its access stands in the log, and a key there for  *)
(* one purchase.                                                           *)
HasCode(p) == phase[p] = "succeeded" /\ code[p] # NoCode

Show(r, c) ==
    /\ Reply(r, c, "shown")
    /\ HasCode(c.purchase)
    /\ accesses[c.key] \in {NoPurchase, c.purchase}
    /\ accesses' = [accesses EXCEPT ![c.key] = c.purchase]
    /\ UNCHANGED <<rowsVars, actions>>

Withhold(r, c) ==
    /\ \/ Reply(r, c, "unavailable") /\ ~ HasCode(c.purchase)
       \/ Reply(r, c, "conflict") /\ accesses[c.key] \notin {NoPurchase, c.purchase}
    /\ UNCHANGED <<rowsVars, actions, accesses>>

-----------------------------------------------------------------------------
DecisionsNext ==
    \/ \E r \in Requests, c \in Calls :
          IF c.decision = "read" THEN Show(r, c) \/ Withhold(r, c)
                                 ELSE Resolve(r, c) \/ Decline(r, c)
    \/ /\ UNCHANGED <<actions, accesses, reply>>
       /\ \E p \in Purchases : WorkerDoes(p)

DecisionsSpec == DecisionsInit /\ [][DecisionsNext]_decisionsVars
=============================================================================
