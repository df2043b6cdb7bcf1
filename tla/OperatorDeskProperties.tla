----------------------- MODULE OperatorDeskProperties ------------------------
(***************************************************************************)
(* What must hold of OperatorDesk, and the promises it implements.         *)
(***************************************************************************)
EXTENDS OperatorDesk

(* docs/ARCHITECTURE.md:39, every decision is taken under the lock of the  *)
(* row and recorded: a purchase is decided at most once, and its row says  *)
(* what its action says, whoever else decided, saved or crashed meanwhile. *)
ActionsMatchRows ==
    /\ \A a, b \in actions : a.purchase = b.purchase \/ a.key = b.key => a = b
    /\ \A a \in actions : state[a.purchase] = a.decision /\ result_hash[a.purchase] = a.code

(* repository.py:379, "so the retry remains idempotent": a request whose   *)
(* decision has been recorded, by itself before its answer was lost or by  *)
(* a concurrent repetition, is never refused.                              *)
RetriesAreHonoured ==
    [][\A r \in Requests :
          answer'[r] # answer[r] /\ answer'[r] \in {"conflict", "not_awaiting", "duplicate"}
          => call'[r] \notin actions]_vars

(* README.md:82: a code is shown only for a purchase that has one, and only*)
(* when the access stands in the log under the request's key, though two   *)
(* requests with that key read different purchases at the same time.       *)
ShownIsAudited ==
    \A r \in Requests : answer[r] = "shown" =>
        /\ accesses[call[r].key] = call[r].purchase
        /\ HasCode(call[r].purchase)

-----------------------------------------------------------------------------
(* What the rows, the log of decisions and the answers amount to.          *)
Phases ==
    [p \in Purchases |-> CASE state[p] = "processing" -> "worked"
                          [] state[p] = "requires_attention" -> "attention"
                          [] OTHER -> state[p]]

Decided == [p \in Purchases |-> IF \E a \in actions : a.purchase = p THEN state[p] ELSE "none"]

NoReply == [call |-> NoCall, says |-> "none"]
Replies ==
    [r \in Requests |-> IF answer[r] \in {"none", "lost"} THEN NoReply
                        ELSE [call |-> call[r], says |-> answer[r]]]

Decisions == INSTANCE OperatorDecisions WITH
    OldCodes <- {}, phase <- Phases, code <- result_hash, decided <- Decided, reply <- Replies

(* repository.py:369-380: the statements, locks and re-reads of concurrent *)
(* requests amount to decisions and disclosures of one step each: what a   *)
(* request is told was true of rows and logs at one moment, and this moment*)
(* is when it changed them.                                                *)
ImplementsDecisions == Decisions!DecisionsSpec

(* What they do to the rows is what HubPurchases expects of operators.     *)
ImplementsRows == Decisions!RowsSpec

(* Requests that wait for a row, for a code or for a key of one another    *)
(* never wait in a circle, nor for a request that has been answered.       *)
RequestsEnd == \A r \in Requests : pc[r] # "new" ~> pc[r] = "answered"
=============================================================================
