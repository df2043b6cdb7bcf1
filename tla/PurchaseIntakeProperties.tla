---------------------- MODULE PurchaseIntakeProperties ----------------------
(***************************************************************************)
(* What must hold of PurchaseIntake, and the promise it implements.        *)
(***************************************************************************)
EXTENDS PurchaseIntake

NoReply == [key |-> "none", order |-> "none", says |-> "none", purchase |-> NoRequest]

Replies ==
    [r \in Requests |->
        IF answer[r] \in {"none", "lost"} THEN NoReply
        ELSE [key |-> call[r].key, order |-> call[r].order,
              says |-> answer[r], purchase |-> found[r]]]

Book == INSTANCE OrderBook WITH NoEntry <- NoRow, book <- purchase, reply <- Replies

(* ARCHITECTURE.md:20-21, "A stable consumer idempotency key returns the   *)
(* original operation" and "Reusing the same key with different arguments  *)
(* is rejected": however requests with one key interleave, crash and lose  *)
(* their answers, the key stands for one purchase, ordered as every        *)
(* accepted request orders it, and nobody is answered with an error.       *)
ImplementsOrderBook == Book!BookSpec

(* A request that waits for another one's insert is answered, whether that *)
(* one commits, fails or dies.                                             *)
RequestsEnd == \A r \in Requests : pc[r] # "new" ~> pc[r] = "answered"
=============================================================================
