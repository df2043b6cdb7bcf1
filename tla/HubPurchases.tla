---------------------------- MODULE HubPurchases ----------------------------
(***************************************************************************)
(* The life of purchases in Supplier Hub: the rows of                      *)
(* supplier_hub.purchases, the polling workers that lease a row, call      *)
(* InterHub and write the outcome back in short transactions, the          *)
(* operator who closes what the workers gave up on, and, as the            *)
(* environment, InterHub itself, the network to it and the passing of      *)
(* time.  Every database transaction, and every request sent or answer     *)
(* received, is one step, so workers, lapsed leases and crashes interleave *)
(* as they can in production.                                              *)
(*                                                                         *)
(* A definition named Slip_... is a plausible programming slip; it stands   *)
(* before the definition it would replace and no action uses it.           *)
(*                                                                         *)
(* Sources: api/hub/service.py, api/hub/repository.py, api/hub/worker.py,  *)
(* api/hub/operator_service.py, api/hub/domain.py.                         *)
(***************************************************************************)
EXTENDS Naturals, FiniteSets, InterHubAdapter

CONSTANTS
    Purchases,             \* purchases that may be ordered (one idempotency key each)
    Topups,                \* those of kind steam_topup; the others are vouchers
    Workers,               \* polling worker processes
    Codes,                 \* voucher codes InterHub may deliver
    OldCodes,              \* those stored with purchases of the past
    NoWorker, NoPurchase, NoCode,
    MaxPurchases,          \* bound on the purchases ordered
    MaxStatusChecks,       \* settings.max_status_checks
    MaxPreflightAttempts,  \* 4 in service.py
    StatusOfUnpaid,        \* what check_status may say of an operation whose pay has not arrived
    Garbled                \* purchases whose answers may be illegible (empty or foreign JSON)

ASSUME TopupsAssumption == Topups \subseteq Purchases
ASSUME NoWorkerAssumption == NoWorker \notin Workers
ASSUME NoPurchaseAssumption == NoPurchase \notin Purchases
ASSUME NoCodeAssumption == NoCode \notin Codes
ASSUME OldCodesAssumption == OldCodes \subseteq Codes
ASSUME MaxPurchasesAssumption == MaxPurchases \in Nat
ASSUME LimitsAssumption == MaxStatusChecks \in Nat \ {0} /\ MaxPreflightAttempts \in Nat
ASSUME StatusOfUnpaidAssumption == StatusOfUnpaid \subseteq {"processing", "failed"}

VARIABLES
    \* Columns of supplier_hub.purchases.
    state,                  \* "absent" before the row is inserted
    lease_token,            \* the worker whose uuid the row holds
    leased,                 \* lease_until is set and in the future
    due,                    \* next_attempt_at <= now()
    status_check_attempts,
    preflight_attempts,
    result_hash,            \* the code stored with the row
    decision,               \* the row of operator_actions for the purchase
    \* Worker processes.
    pc,                     \* where process_claimed stands
    claim,                  \* the snapshot of the row that claim_due returned
    answer,                 \* the supplier's answer being saved
    \* Outside the Hub.
    topup_allowed,          \* the topup switch and permission, as read for a purchase
    pay_calls,              \* pay requests sent for the purchase
    pay_in_flight,          \* a pay request that has not reached InterHub
    remote,                 \* InterHub's view of the operation
    issued                  \* the code InterHub delivers for it

rowVars == <<state, lease_token, leased, due, status_check_attempts,
             preflight_attempts, result_hash, decision>>
workerVars == <<pc, claim, answer>>
supplierVars == <<pay_calls, pay_in_flight, remote, issued>>
vars == <<rowVars, workerVars, topup_allowed, supplierVars>>

PurchaseState == {"created", "checked", "payment_started", "processing",
                  "succeeded", "failed", "requires_attention"}
Reconcilable == {"payment_started", "processing"}
Terminal == {"succeeded", "failed"}

Step == {"idle", "claimed", "preflight", "deferring", "starting", "paying",
         "pay_sent", "polling", "saving", "attention"}
Answer == {"none", "processing", "succeeded", "no_code", "failed",
           "unrecognised", "error"}
Remote == {"unpaid", "processing", "paid", "rejected"}

Claim == [purchase : Purchases \cup {NoPurchase},
          state : PurchaseState \cup {"absent"},
          status_check_attempts : Nat,
          preflight_attempts : Nat]
NoClaim == [purchase |-> NoPurchase, state |-> "absent",
            status_check_attempts |-> 0, preflight_attempts |-> 0]

TypeOK ==
    /\ state \in [Purchases -> PurchaseState \cup {"absent"}]
    /\ lease_token \in [Purchases -> Workers \cup {NoWorker}]
    /\ leased \in [Purchases -> BOOLEAN]
    /\ due \in [Purchases -> BOOLEAN]
    /\ status_check_attempts \in [Purchases -> Nat]
    /\ preflight_attempts \in [Purchases -> Nat]
    /\ result_hash \in [Purchases -> Codes \cup {NoCode}]
    /\ decision \in [Purchases -> {"none", "confirm_failed", "record_success"}]
    /\ pc \in [Workers -> Step]
    /\ claim \in [Workers -> Claim]
    /\ answer \in [Workers -> Answer]
    /\ topup_allowed \in [Purchases -> BOOLEAN]
    /\ pay_calls \in [Purchases -> Nat]
    /\ pay_in_flight \in [Purchases -> BOOLEAN]
    /\ remote \in [Purchases -> Remote]
    /\ issued \in [Purchases -> Codes \cup {NoCode}]

Init ==
    /\ state = [p \in Purchases |-> "absent"]
    /\ lease_token = [p \in Purchases |-> NoWorker]
    /\ leased = [p \in Purchases |-> FALSE]
    /\ due = [p \in Purchases |-> FALSE]
    /\ status_check_attempts = [p \in Purchases |-> 0]
    /\ preflight_attempts = [p \in Purchases |-> 0]
    /\ result_hash = [p \in Purchases |-> NoCode]
    /\ decision = [p \in Purchases |-> "none"]
    /\ pc = [w \in Workers |-> "idle"]
    /\ claim = [w \in Workers |-> NoClaim]
    /\ answer = [w \in Workers |-> "none"]
    /\ topup_allowed = [p \in Purchases |-> TRUE]
    /\ pay_calls = [p \in Purchases |-> 0]
    /\ pay_in_flight = [p \in Purchases |-> FALSE]
    /\ remote = [p \in Purchases |-> "unpaid"]
    /\ issued = [p \in Purchases |-> NoCode]

-----------------------------------------------------------------------------
(* Consumers, the topup permission and the clock.                          *)

Room == Cardinality({p \in Purchases : state[p] # "absent"}) < MaxPurchases

(* A first POST /v1/purchases inserts the row; retries find it and write   *)
(* nothing.  A topup is accepted only while its permission holds.          *)
Enqueue(p) ==
    /\ state[p] = "absent"
    /\ Room
    /\ p \in Topups => topup_allowed[p]
    /\ state' = [state EXCEPT ![p] = "created"]
    /\ due' = [due EXCEPT ![p] = TRUE]
    /\ UNCHANGED <<lease_token, leased, status_check_attempts, preflight_attempts,
                   result_hash, decision, workerVars, topup_allowed, supplierVars>>

(* An administrator edits topup_permissions at any time.                   *)
ChangePermission(p) ==
    /\ p \in Topups
    /\ topup_allowed' = [topup_allowed EXCEPT ![p] = ~ @]
    /\ UNCHANGED <<rowVars, workerVars, supplierVars>>

BecomeDue(p) ==
    /\ state[p] # "absent"
    /\ ~ due[p]
    /\ due' = [due EXCEPT ![p] = TRUE]
    /\ UNCHANGED <<state, lease_token, leased, status_check_attempts, preflight_attempts,
                   result_hash, decision, workerVars, topup_allowed, supplierVars>>

(* The purchase w's process_claimed is running for.                        *)
Job(w) == claim[w].purchase

(* A live worker still runs the claim that the row's token belongs to.     *)
Attended(p) == lease_token[p] \in Workers /\ Job(lease_token[p]) = p

Lapse(p) ==
    /\ leased[p]
    /\ leased' = [leased EXCEPT ![p] = FALSE]
    /\ UNCHANGED <<state, lease_token, due, status_check_attempts, preflight_attempts,
                   result_hash, decision, workerVars, topup_allowed, supplierVars>>

(* The lease of a worker that died or gave up runs out.                    *)
LeaseExpires(p) == ~ Attended(p) /\ Lapse(p)

(* A slow worker is still busy when its lease runs out.                    *)
LeaseOutrun(p) == Attended(p) /\ Lapse(p)

-----------------------------------------------------------------------------
(* A worker claims a row and decides what to do with it.                   *)

Slip_ForgetStarted == {"created", "checked", "processing"}
Claimable == {"created", "checked"} \cup Reconcilable

(* claim_due: the oldest due row of an unfinished state whose lease is     *)
(* free.  The token is fresh; the snapshot is what the worker acts on.     *)
ClaimDue(w, p) ==
    /\ pc[w] = "idle"
    /\ state[p] \in Claimable
    /\ due[p]
    /\ ~ leased[p]
    /\ lease_token' = [lease_token EXCEPT ![p] = w]
    /\ leased' = [leased EXCEPT ![p] = TRUE]
    /\ pc' = [pc EXCEPT ![w] = "claimed"]
    /\ claim' = [claim EXCEPT ![w] =
                    [purchase |-> p, state |-> state[p],
                     status_check_attempts |-> status_check_attempts[p],
                     preflight_attempts |-> preflight_attempts[p]]]
    /\ UNCHANGED <<state, due, status_check_attempts, preflight_attempts, result_hash,
                   decision, answer, topup_allowed, supplierVars>>

(* process_claimed, on the snapshot: the topup gate is read for a row not  *)
(* yet paid for, and a row past payment is only ever reconciled, until its *)
(* status checks are used up.                                              *)
Slip_GateAfterPayment(c) == c.purchase \in Topups
Gated(c) == c.purchase \in Topups /\ c.state \notin Reconcilable

Slip_OneCheckLess(c) == c.status_check_attempts + 1 >= MaxStatusChecks
Exhausted(c) == c.status_check_attempts >= MaxStatusChecks

Slip_ResumePayment == [created |-> "preflight", checked |-> "starting",
                       payment_started |-> "paying", processing |-> "polling"]
Slip_PayBeforeCommit == [created |-> "preflight", checked |-> "paying",
                         payment_started |-> "polling", processing |-> "polling"]
StepFor == [created |-> "preflight", checked |-> "starting",
            payment_started |-> "polling", processing |-> "polling"]

NextStep(c) ==
    IF Gated(c) /\ ~ topup_allowed[c.purchase] THEN "deferring"
    ELSE IF c.state \in Reconcilable /\ Exhausted(c) THEN "attention"
    ELSE StepFor[c.state]

Dispatch(w) ==
    /\ pc[w] = "claimed"
    /\ pc' = [pc EXCEPT ![w] = NextStep(claim[w])]
    /\ UNCHANGED <<rowVars, claim, answer, topup_allowed, supplierVars>>

-----------------------------------------------------------------------------
(* The worker's transactions.  Every one ends process_claimed except       *)
(* mark_payment_started, which is followed by the pay request.             *)

Slip_NoToken(w, allowed) == state[Job(w)] \in allowed

(* WHERE id AND lease_token AND state = ANY(allowed), FOR UPDATE.  Whether *)
(* the lease has run out is not looked at, only whether the token changed. *)
Fenced(w, allowed) == lease_token[Job(w)] = w /\ state[Job(w)] \in allowed

Finish(w) ==
    /\ pc' = [pc EXCEPT ![w] = "idle"]
    /\ claim' = [claim EXCEPT ![w] = NoClaim]
    /\ answer' = [answer EXCEPT ![w] = "none"]

Release(p) ==
    /\ lease_token' = [lease_token EXCEPT ![p] = NoWorker]
    /\ leased' = [leased EXCEPT ![p] = FALSE]

MarkChecked(w) ==
    /\ pc[w] = "preflight"
    /\ Fenced(w, {"created"})
    /\ state' = [state EXCEPT ![Job(w)] = "checked"]
    /\ due' = [due EXCEPT ![Job(w)] = TRUE]
    /\ Release(Job(w))
    /\ Finish(w)
    /\ UNCHANGED <<status_check_attempts, preflight_attempts, result_hash, decision,
                   topup_allowed, supplierVars>>

(* A transient error of a topup's check is retried a few times.            *)
MayRetryCheck(w) ==
    Job(w) \in Topups /\ claim[w].preflight_attempts < MaxPreflightAttempts

RetryTopupCheck(w) ==
    /\ pc[w] = "preflight"
    /\ MayRetryCheck(w)
    /\ Fenced(w, {"created"})
    /\ preflight_attempts' = [preflight_attempts EXCEPT ![Job(w)] = @ + 1]
    /\ due' = [due EXCEPT ![Job(w)] = FALSE]
    /\ Release(Job(w))
    /\ Finish(w)
    /\ UNCHANGED <<state, status_check_attempts, result_hash, decision,
                   topup_allowed, supplierVars>>

(* calculate or check rejected the order, or failed with no retry left.    *)
MarkPreflightFailed(w) ==
    /\ pc[w] = "preflight"
    /\ Fenced(w, {"created"})
    /\ state' = [state EXCEPT ![Job(w)] = "failed"]
    /\ Release(Job(w))
    /\ Finish(w)
    /\ UNCHANGED <<due, status_check_attempts, preflight_attempts, result_hash, decision,
                   topup_allowed, supplierVars>>

(* An unpaid topup whose permission is gone waits; nothing is written when *)
(* the lease has changed hands, and that is no error.                      *)
DeferTopup(w) ==
    /\ pc[w] = "deferring"
    /\ \/ /\ Fenced(w, {"created", "checked"})
          /\ due' = [due EXCEPT ![Job(w)] = FALSE]
          /\ Release(Job(w))
       \/ /\ ~ Fenced(w, {"created", "checked"})
          /\ UNCHANGED <<due, lease_token, leased>>
    /\ Finish(w)
    /\ UNCHANGED <<state, status_check_attempts, preflight_attempts, result_hash, decision,
                   topup_allowed, supplierVars>>

(* The intent to pay is on disk, and the lease kept, before the request.   *)
MarkPaymentStarted(w) ==
    /\ pc[w] = "starting"
    /\ Fenced(w, {"checked"})
    /\ state' = [state EXCEPT ![Job(w)] = "payment_started"]
    /\ due' = [due EXCEPT ![Job(w)] = FALSE]
    /\ pc' = [pc EXCEPT ![w] = "paying"]
    /\ UNCHANGED <<lease_token, leased, status_check_attempts, preflight_attempts,
                   result_hash, decision, claim, answer, topup_allowed, supplierVars>>

(* The state an answer is saved as: a voucher sold without its code is not *)
(* a success yet, and an unrecognised answer keeps a topup processing.     *)
Slip_ErrorIsRefusal(p, a) ==
    CASE a = "succeeded" -> "succeeded"
      [] a \in {"failed", "error"} -> "failed"
      [] OTHER -> "processing"
Slip_CodeOptional(p, a) ==
    CASE a \in {"succeeded", "no_code"} -> "succeeded"
      [] a = "failed" -> "failed"
      [] OTHER -> "processing"
Slip_AcceptedIsSuccess(p, a) ==
    CASE a \in {"succeeded", "processing"} -> "succeeded"
      [] a = "failed" -> "failed"
      [] OTHER -> "processing"
SavedState(p, a) ==
    CASE a = "succeeded" -> "succeeded"
      [] a = "failed" -> "failed"
      [] OTHER -> "processing"

SavedCode(p, a) == IF a = "succeeded" /\ p \notin Topups THEN issued[p] ELSE NoCode

(* The unique index on result_hash, over the purchases of the past too.    *)
Slip_NotIndexed(p, code) == FALSE
Taken(p, code) ==
    code # NoCode /\ (code \in OldCodes \/ \E q \in Purchases \ {p} : result_hash[q] = code)

(* Every answer, and every error, of check_status uses up an attempt.      *)
CountedAttempts(w) ==
    IF claim[w].state \in Reconcilable
    THEN status_check_attempts[Job(w)] + 1
    ELSE status_check_attempts[Job(w)]

SaveResult(w) ==
    LET p == Job(w) IN
    /\ pc[w] = "saving"
    /\ Fenced(w, Reconcilable)
    /\ ~ Taken(p, SavedCode(p, answer[w]))
    /\ state' = [state EXCEPT ![p] = SavedState(p, answer[w])]
    /\ result_hash' = [result_hash EXCEPT ![p] = SavedCode(p, answer[w])]
    /\ status_check_attempts' = [status_check_attempts EXCEPT ![p] = CountedAttempts(w)]
    /\ due' = [due EXCEPT ![p] = SavedState(p, answer[w]) # "processing"]
    /\ Release(p)
    /\ Finish(w)
    /\ UNCHANGED <<preflight_attempts, decision, topup_allowed, supplierVars>>

(* The code is already another purchase's: that transaction is rolled back *)
(* and the purchase goes to an operator in a transaction of its own.       *)
SaveDuplicate(w) ==
    /\ pc[w] = "saving"
    /\ Fenced(w, Reconcilable)
    /\ Taken(Job(w), SavedCode(Job(w), answer[w]))
    /\ pc' = [pc EXCEPT ![w] = "attention"]
    /\ UNCHANGED <<rowVars, claim, answer, topup_allowed, supplierVars>>

MarkRequiresAttention(w) ==
    /\ pc[w] = "attention"
    /\ Fenced(w, Reconcilable)
    /\ state' = [state EXCEPT ![Job(w)] = "requires_attention"]
    /\ Release(Job(w))
    /\ Finish(w)
    /\ UNCHANGED <<due, status_check_attempts, preflight_attempts, result_hash, decision,
                   topup_allowed, supplierVars>>

(* The states a worker's pending transaction expects the row to be in.     *)
Expected(w) ==
    CASE pc[w] = "preflight" -> {"created"}
      [] pc[w] = "starting" -> {"checked"}
      [] OTHER -> Reconcilable

(* "Purchase lease or state changed": nothing is written, the claim is     *)
(* dropped.                                                                *)
LeaseLost(w) ==
    /\ pc[w] \in {"preflight", "starting", "saving", "attention"}
    /\ ~ Fenced(w, Expected(w))
    /\ Finish(w)
    /\ UNCHANGED <<rowVars, topup_allowed, supplierVars>>

(* A crash and restart, or an exception other than ProviderError: the row  *)
(* keeps the token and the lease runs out by itself.                       *)
WorkerFails(w) ==
    /\ pc[w] # "idle"
    /\ Finish(w)
    /\ UNCHANGED <<rowVars, topup_allowed, supplierVars>>

-----------------------------------------------------------------------------
(* Requests to InterHub.  An error (ProviderError) may be reported at any  *)
(* moment, also while the request is still on its way.                     *)

SendPay(w) ==
    /\ pc[w] = "paying"
    /\ pay_calls' = [pay_calls EXCEPT ![Job(w)] = @ + 1]
    /\ pay_in_flight' = [pay_in_flight EXCEPT ![Job(w)] = TRUE]
    /\ pc' = [pc EXCEPT ![w] = "pay_sent"]
    /\ UNCHANGED <<rowVars, claim, answer, topup_allowed, remote, issued>>

(* What InterHub says of an operation it knows.                            *)
Report(p) ==
    CASE remote[p] = "processing" -> {"processing"}
      [] remote[p] = "paid" -> IF p \in Topups THEN {"succeeded"} ELSE {"succeeded", "no_code"}
      [] remote[p] = "rejected" -> {"failed"}
      [] OTHER -> {}

(* What the worker is left with when InterHub has reports to make about p: *)
(* the reading of some body, or a ProviderError.                           *)
Heard(p, reports) ==
    {"error"} \cup
    {Read(p \in Topups, b) :
        b \in (UNION {Words[r] : r \in reports}) \cup (IF p \in Garbled THEN Illegible ELSE {})}

PayAnswer(w) ==
    /\ pc[w] = "pay_sent"
    /\ \E a \in Heard(Job(w), IF pay_in_flight[Job(w)] THEN {} ELSE Report(Job(w))) :
           answer' = [answer EXCEPT ![w] = a]
    /\ pc' = [pc EXCEPT ![w] = "saving"]
    /\ UNCHANGED <<rowVars, claim, topup_allowed, supplierVars>>

StatusAnswer(w) ==
    /\ pc[w] = "polling"
    /\ \E a \in Heard(Job(w), IF remote[Job(w)] = "unpaid" THEN StatusOfUnpaid ELSE Report(Job(w))) :
           answer' = [answer EXCEPT ![w] = a]
    /\ pc' = [pc EXCEPT ![w] = "saving"]
    /\ UNCHANGED <<rowVars, claim, topup_allowed, supplierVars>>

(* InterHub decides about p: it goes on working, charges, or rejects.  The *)
(* code delivered for a voucher may be one it has delivered before.        *)
SupplierDecides(p) ==
    \/ /\ remote' = [remote EXCEPT ![p] = "paid"]
       /\ IF p \in Topups
          THEN UNCHANGED issued
          ELSE \E c \in Codes : issued' = [issued EXCEPT ![p] = c]
    \/ /\ remote' = [remote EXCEPT ![p] = "rejected"]
       /\ UNCHANGED issued

PayArrives(p) ==
    /\ pay_in_flight[p]
    /\ pay_in_flight' = [pay_in_flight EXCEPT ![p] = FALSE]
    /\ \/ SupplierDecides(p)
       \/ remote' = [remote EXCEPT ![p] = "processing"] /\ UNCHANGED issued
    /\ UNCHANGED <<rowVars, workerVars, topup_allowed, pay_calls>>

PayLost(p) ==
    /\ pay_in_flight[p]
    /\ pay_in_flight' = [pay_in_flight EXCEPT ![p] = FALSE]
    /\ UNCHANGED <<rowVars, workerVars, topup_allowed, pay_calls, remote, issued>>

SupplierSettles(p) ==
    /\ remote[p] = "processing"
    /\ SupplierDecides(p)
    /\ UNCHANGED <<rowVars, workerVars, topup_allowed, pay_calls, pay_in_flight>>

-----------------------------------------------------------------------------
(* The operator's decision about a purchase that requires attention; a     *)
(* recovered code that another purchase holds is refused.                  *)

Slip_AnyNotRunning(p) == state[p] \notin Claimable \cup {"absent"}
AwaitsOperator(p) == state[p] = "requires_attention"

ConfirmFailed(p) ==
    /\ AwaitsOperator(p)
    /\ state' = [state EXCEPT ![p] = "failed"]
    /\ decision' = [decision EXCEPT ![p] = "confirm_failed"]
    /\ Release(p)
    /\ UNCHANGED <<due, status_check_attempts, preflight_attempts, result_hash,
                   workerVars, topup_allowed, supplierVars>>

RecordSuccess(p) ==
    /\ AwaitsOperator(p)
    /\ \E code \in IF p \in Topups THEN {NoCode} ELSE Codes :
           /\ ~ Taken(p, code)
           /\ result_hash' = [result_hash EXCEPT ![p] = code]
    /\ state' = [state EXCEPT ![p] = "succeeded"]
    /\ decision' = [decision EXCEPT ![p] = "record_success"]
    /\ Release(p)
    /\ UNCHANGED <<due, status_check_attempts, preflight_attempts,
                   workerVars, topup_allowed, supplierVars>>

-----------------------------------------------------------------------------
WorkerStep(w) ==
    \/ Dispatch(w) \/ DeferTopup(w)
    \/ MarkChecked(w) \/ RetryTopupCheck(w) \/ MarkPreflightFailed(w)
    \/ MarkPaymentStarted(w) \/ SendPay(w) \/ PayAnswer(w)
    \/ StatusAnswer(w) \/ SaveResult(w) \/ SaveDuplicate(w)
    \/ MarkRequiresAttention(w) \/ LeaseLost(w)

Next ==
    \/ \E w \in Workers :
          \/ WorkerStep(w)
          \/ WorkerFails(w)
          \/ \E p \in Purchases : ClaimDue(w, p)
    \/ \E p \in Purchases :
          \/ Enqueue(p) \/ ChangePermission(p)
          \/ BecomeDue(p) \/ LeaseExpires(p) \/ LeaseOutrun(p)
          \/ PayArrives(p) \/ PayLost(p) \/ SupplierSettles(p)
          \/ ConfirmFailed(p) \/ RecordSuccess(p)

Spec == Init /\ [][Next]_vars

(* Time passes, a running worker finishes the step it is in, and claims go *)
(* to the row that has been due the longest, so no due row is passed over  *)
(* for ever.  Nothing is assumed of InterHub, operators or consumers.      *)
Fairness ==
    /\ \A w \in Workers : WF_vars(WorkerStep(w))
    /\ \A p \in Purchases :
          /\ WF_vars(BecomeDue(p))
          /\ WF_vars(LeaseExpires(p))
          /\ SF_vars(\E w \in Workers : ClaimDue(w, p))

FairSpec == Spec /\ Fairness
=============================================================================
