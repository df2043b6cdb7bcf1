---------------------------- MODULE HubProperties ---------------------------
(***************************************************************************)
(* What must hold of HubPurchases, and the contract it implements.         *)
(***************************************************************************)
EXTENDS HubPurchases

PastPayment == {"payment_started", "processing", "succeeded", "failed", "requires_attention"}

(* The supplier has the money, or may still take it without any further    *)
(* step of the Hub.                                                        *)
MayBeCharged(p) == pay_in_flight[p] \/ remote[p] \in {"processing", "paid"}

(* service.py:145, "From this point onward pay is never retried": whatever *)
(* crashes, lapsed leases and lost answers happen, a purchase is sent to   *)
(* InterHub for payment at most once.                                      *)
PayAtMostOnce == \A p \in Purchases : pay_calls[p] <= 1

(* ARCHITECTURE.md:15, "payment_started is persisted before the pay        *)
(* request": a purchase whose pay request was ever sent, or is about to    *)
(* be sent by some worker, is on disk as one that blocks a second attempt. *)
PaymentIsOnDisk ==
    /\ \A p \in Purchases : pay_calls[p] > 0 => state[p] \in PastPayment
    /\ \A w \in Workers : pc[w] = "paying" => state[Job(w)] \in PastPayment

(* The two together: no crash between the commit and the request leads to a*)
(* second request, and none is sent that a crash could make forget.        *)
PaidOnceOnDisk == PayAtMostOnce /\ PaymentIsOnDisk

(* ARCHITECTURE.md:56, the fallback contract: when the Hub itself reports a*)
(* purchase failed, InterHub has not charged it, and no request that could *)
(* still make it charge is on the wire or about to be sent.                *)
FailedIsDefinitive ==
    \A p \in Purchases :
        state[p] = "failed" /\ decision[p] = "none" =>
            /\ ~ MayBeCharged(p)
            /\ \A w \in Workers : Job(w) = p => pc[w] # "paying"

(* A success the Hub reports without an operator was charged, and a        *)
(* voucher then carries the very code that InterHub issued for it          *)
(* (_save_result and mark_provider_result under stale and duplicate        *)
(* answers).                                                               *)
SucceededIsTrue ==
    \A p \in Purchases :
        state[p] = "succeeded" /\ decision[p] = "none" =>
            /\ remote[p] = "paid"
            /\ p \notin Topups => result_hash[p] = issued[p] /\ issued[p] # NoCode

(* ARCHITECTURE.md:22: one code is never accepted for two purchases,       *)
(* whether a worker or an operator stores it, neither of which looks first *)
(* (service.py:195 meets the violated index when it commits).              *)
CodesAreUnique ==
    \A p \in Purchases :
        /\ result_hash[p] \notin OldCodes
        /\ \A q \in Purchases \ {p} : result_hash[p] = result_hash[q] => result_hash[p] = NoCode

(* A purchase reaches an operator only with its status checks used up, or  *)
(* because its code is held by another purchase (service.py:154, :206).    *)
AttentionIsJustified ==
    \A p \in Purchases :
        state[p] = "requires_attention" =>
            \/ status_check_attempts[p] = MaxStatusChecks
            \/ p \notin Topups /\ Taken(p, issued[p])

(* The counters are bounded by the limits although a slow worker may save  *)
(* against a snapshot that is no longer current.                           *)
AttemptsAreBounded ==
    \A p \in Purchases :
        /\ status_check_attempts[p] <= MaxStatusChecks
        /\ preflight_attempts[p] <= MaxPreflightAttempts

(* ARCHITECTURE.md:18: a finished purchase never changes again, neither its*)
(* state nor its code, also not through a worker that was polling it when  *)
(* it was finished or an operator acting on an old list.                   *)
FinishedIsFinal ==
    [][\A p \in Purchases :
          state[p] \in Terminal =>
              /\ state'[p] = state[p]
              /\ result_hash'[p] = result_hash[p]
              /\ decision'[p] = decision[p]]_vars

(* Workers fail and outrun their leases only finitely often.  Dropping a   *)
(* claim because the lease was lost looks like a failure and is none.      *)
FaultsStop ==
    <>[][/\ \A w \in Workers : WorkerFails(w) => WorkerStep(w)
         /\ \A p \in Purchases : ~ LeaseOutrun(p)]_vars

Settled(p) == state[p] \in Terminal \cup {"requires_attention"}

(* A voucher that was ordered is eventually delivered, refused or handed to*)
(* an operator, whatever InterHub answers or fails to answer; and so is a  *)
(* topup whose payment has begun, even if its permission is withdrawn      *)
(* meanwhile: the gate (service.py:80) holds back only unpaid ones.        *)
PurchasesSettle ==
    FaultsStop =>
        /\ \A p \in Purchases \ Topups : state[p] = "created" ~> Settled(p)
        /\ \A p \in Topups : state[p] = "payment_started" ~> Settled(p)

-----------------------------------------------------------------------------
(* The contract: what the rows and the supplier's ledger amount to.        *)
PhaseOf(p) ==
    CASE state[p] = "absent" -> "absent"
      [] state[p] \in {"created", "checked"} -> "open"
      [] state[p] \in Reconcilable \cup {"requires_attention"} -> "committed"
      [] OTHER -> state[p]

Contract == INSTANCE PurchaseContract WITH
    phase <- [p \in Purchases |-> PhaseOf(p)],
    charged <- [p \in Purchases |-> remote[p] = "paid"],
    overridden <- [p \in Purchases |-> decision[p] # "none"]

(* Every behaviour of rows, workers and InterHub is one the contract       *)
(* allows: charged at most once, only after commitment, never after a      *)
(* failure the Hub reported.                                               *)
ImplementsContract == Contract!ContractSpec

-----------------------------------------------------------------------------
(* The rows, in the words of those who do not see how workers come by what *)
(* they write.                                                             *)
RowPhases ==
    [p \in Purchases |-> CASE state[p] \in Terminal -> state[p]
                          [] state[p] = "requires_attention" -> "attention"
                          [] OTHER -> "worked"]

Decided ==
    [p \in Purchases |-> CASE decision[p] = "confirm_failed" -> "failed"
                          [] decision[p] = "record_success" -> "succeeded"
                          [] OTHER -> "none"]

Rows == INSTANCE PurchaseRows WITH phase <- RowPhases, code <- result_hash, decided <- Decided

(* What workers and operators do to the rows is what OperatorDesk expects  *)
(* of workers and does as operators: a purchase ends once, by one of them, *)
(* from the state that entitles him, and with a code exactly when a voucher*)
(* succeeded, which no other purchase, past or present, has.               *)
ImplementsRows == Rows!RowsSpec
=============================================================================
