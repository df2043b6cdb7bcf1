------------------------------ MODULE HubProofs -----------------------------
(***************************************************************************)
(* Proofs about HubPurchases for any number of purchases, workers, codes   *)
(* and any limits.                                                         *)
(***************************************************************************)
EXTENDS HubProperties, TLAPS

(* The rows and worker processes stay within their types.                  *)
LEMMA TypeInit == Init => TypeOK
  BY DEF Init, TypeOK, NoClaim, Claim, Step, Answer, Remote

(* A busy worker's claim names a purchase in a state that can be claimed.   *)
BusyOnPurchase ==
    \A w \in Workers : pc[w] # "idle" => Job(w) \in Purchases /\ claim[w].state \in Claimable

TypeInv == TypeOK /\ BusyOnPurchase

(* Whatever InterHub has to report and however it words it, an answer is   *)
(* what a worker is left with.                                             *)
LEMMA HeardIsAnswer ==
  ASSUME NEW p, NEW reports, NEW a \in Heard(p, reports)
  PROVE  a \in Answer
<1>1. ASSUME NEW b PROVE Read(p \in Topups, b) \in Answer
  BY DEF Read, Answer
<1> QED BY <1>1 DEF Heard, Answer

LEMMA TypeStep == TypeInv /\ [Next]_vars => TypeInv'
<1> SUFFICES ASSUME TypeInv, [Next]_vars PROVE TypeInv'
  OBVIOUS
<1> USE DEF TypeInv, TypeOK, BusyOnPurchase, Job
<1>1. ASSUME NEW w \in Workers, Dispatch(w) PROVE TypeInv'
  <2>1. NextStep(claim[w]) \in Step
    BY <1>1 DEF Dispatch, NextStep, StepFor, Step, Claimable, Reconcilable
  <2> QED BY <1>1, <2>1 DEF Dispatch, rowVars, supplierVars
<1>2. ASSUME NEW w \in Workers, DeferTopup(w) PROVE TypeInv'
  <2>1. Finish(w) /\ UNCHANGED <<state, status_check_attempts, preflight_attempts, result_hash,
                                 decision, topup_allowed, supplierVars>>
    BY <1>2 DEF DeferTopup
  <2>2. /\ due' \in [Purchases -> BOOLEAN]
        /\ lease_token' \in [Purchases -> Workers \cup {NoWorker}]
        /\ leased' \in [Purchases -> BOOLEAN]
    BY <1>2 DEF DeferTopup, Release
  <2> QED BY <2>1, <2>2 DEF Finish, NoClaim, Claim, Step, Answer, supplierVars
<1>3. ASSUME NEW w \in Workers, MarkChecked(w) PROVE TypeInv'
  BY <1>3 DEF MarkChecked, Release, Finish, NoClaim, Claim, Step, Answer, supplierVars,
              PurchaseState
<1>4. ASSUME NEW w \in Workers, RetryTopupCheck(w) PROVE TypeInv'
  BY <1>4 DEF RetryTopupCheck, Release, Finish, NoClaim, Claim, Step, Answer, supplierVars
<1>5. ASSUME NEW w \in Workers, MarkPreflightFailed(w) PROVE TypeInv'
  BY <1>5 DEF MarkPreflightFailed, Release, Finish, NoClaim, Claim, Step, Answer, supplierVars,
              PurchaseState
<1>6. ASSUME NEW w \in Workers, MarkPaymentStarted(w) PROVE TypeInv'
  BY <1>6 DEF MarkPaymentStarted, Step, supplierVars, PurchaseState
<1>7. ASSUME NEW w \in Workers, SendPay(w) PROVE TypeInv'
  BY <1>7 DEF SendPay, Step, rowVars
<1>8. ASSUME NEW w \in Workers, PayAnswer(w) PROVE TypeInv'
  BY <1>8, HeardIsAnswer DEF PayAnswer, Step, rowVars, supplierVars
<1>9. ASSUME NEW w \in Workers, StatusAnswer(w) PROVE TypeInv'
  BY <1>9, HeardIsAnswer DEF StatusAnswer, Step, rowVars, supplierVars
<1>10. ASSUME NEW w \in Workers, SaveResult(w) PROVE TypeInv'
  <2>1. SavedState(Job(w), answer[w]) \in PurchaseState
    BY DEF SavedState, PurchaseState
  <2>2. SavedCode(Job(w), answer[w]) \in Codes \cup {NoCode}
    BY <1>10 DEF SavedCode, SaveResult
  <2>3. CountedAttempts(w) \in Nat
    BY <1>10 DEF CountedAttempts, SaveResult
  <2> QED BY <1>10, <2>1, <2>2, <2>3 DEF SaveResult, Release, Finish, NoClaim, Claim, Step,
                                         Answer, supplierVars
<1>11. ASSUME NEW w \in Workers, SaveDuplicate(w) PROVE TypeInv'
  BY <1>11 DEF SaveDuplicate, Step, rowVars, supplierVars
<1>12. ASSUME NEW w \in Workers, MarkRequiresAttention(w) PROVE TypeInv'
  BY <1>12 DEF MarkRequiresAttention, Release, Finish, NoClaim, Claim, Step, Answer, supplierVars,
               PurchaseState
<1>13. ASSUME NEW w \in Workers, LeaseLost(w) \/ WorkerFails(w) PROVE TypeInv'
  <2>1. Finish(w) /\ UNCHANGED <<rowVars, topup_allowed, supplierVars>>
    BY <1>13 DEF LeaseLost, WorkerFails
  <2> QED BY <2>1 DEF Finish, NoClaim, Claim, Step, Answer, rowVars, supplierVars
<1>14. ASSUME NEW w \in Workers, NEW p \in Purchases, ClaimDue(w, p) PROVE TypeInv'
  BY <1>14 DEF ClaimDue, Claim, Claimable, Reconcilable, Step, supplierVars
<1>15. ASSUME NEW p \in Purchases, Enqueue(p) \/ ChangePermission(p) \/ BecomeDue(p)
              PROVE TypeInv'
  BY <1>15 DEF Enqueue, ChangePermission, BecomeDue, PurchaseState, rowVars, workerVars,
               supplierVars
<1>16. ASSUME NEW p \in Purchases, LeaseExpires(p) \/ LeaseOutrun(p) PROVE TypeInv'
  BY <1>16 DEF LeaseExpires, LeaseOutrun, Lapse, rowVars, workerVars, supplierVars
<1>17. ASSUME NEW p \in Purchases, PayArrives(p) \/ PayLost(p) \/ SupplierSettles(p)
              PROVE TypeInv'
  <2>1. UNCHANGED <<rowVars, workerVars, topup_allowed, pay_calls>>
    BY <1>17 DEF PayArrives, PayLost, SupplierSettles
  <2>2. pay_in_flight' \in [Purchases -> BOOLEAN]
    BY <1>17 DEF PayArrives, PayLost, SupplierSettles
  <2>3. remote' \in [Purchases -> Remote]
    BY <1>17 DEF PayArrives, PayLost, SupplierSettles, SupplierDecides, Remote
  <2>4. issued' \in [Purchases -> Codes \cup {NoCode}]
    BY <1>17 DEF PayArrives, PayLost, SupplierSettles, SupplierDecides
  <2> QED BY <2>1, <2>2, <2>3, <2>4 DEF rowVars, workerVars
<1>18. ASSUME NEW p \in Purchases, ConfirmFailed(p) PROVE TypeInv'
  BY <1>18 DEF ConfirmFailed, Release, PurchaseState, workerVars, supplierVars
<1>19. ASSUME NEW p \in Purchases, RecordSuccess(p) PROVE TypeInv'
  BY <1>19 DEF RecordSuccess, Release, PurchaseState, workerVars, supplierVars
<1>20. CASE UNCHANGED vars
  BY <1>20 DEF vars, rowVars, workerVars, supplierVars
<1> QED
  BY <1>1, <1>2, <1>3, <1>4, <1>5, <1>6, <1>7, <1>8, <1>9, <1>10, <1>11, <1>12, <1>13,
     <1>14, <1>15, <1>16, <1>17, <1>18, <1>19, <1>20 DEF Next, WorkerStep

THEOREM TypeCorrect == Spec => []TypeOK
<1>1. Init => TypeInv
  BY TypeInit DEF Init, TypeInv, BusyOnPurchase
<1>2. TypeInv => TypeOK
  BY DEF TypeInv
<1> QED BY <1>1, <1>2, TypeStep, PTL DEF Spec

-----------------------------------------------------------------------------
(* Why pay is sent at most once: only one worker can stand between         *)
(* payment_started and the request, because the row has left "checked" for *)
(* good by then, and no request has been sent before.                      *)
PayInv ==
    /\ PayAtMostOnce
    /\ PaymentIsOnDisk
    /\ \A w \in Workers : pc[w] = "paying" => pay_calls[Job(w)] = 0
    /\ \A u, w \in Workers :
           pc[u] = "paying" /\ pc[w] = "paying" /\ Job(u) = Job(w) => u = w

LEMMA PayStep == TypeInv /\ PayInv /\ [Next]_vars => PayInv'
<1> SUFFICES ASSUME TypeInv, PayInv, [Next]_vars PROVE PayInv'
  OBVIOUS
<1> USE DEF TypeInv, TypeOK, BusyOnPurchase, Job, PayInv, PayAtMostOnce, PaymentIsOnDisk, PastPayment
<1>1. ASSUME NEW w \in Workers, Dispatch(w) PROVE PayInv'
  <2>1. NextStep(claim[w]) # "paying"
    BY <1>1 DEF Dispatch, NextStep, StepFor, Claimable, Reconcilable
  <2> QED BY <1>1, <2>1 DEF Dispatch, rowVars, supplierVars
<1>2. ASSUME NEW w \in Workers, DeferTopup(w) PROVE PayInv'
  BY <1>2 DEF DeferTopup, Finish, supplierVars
<1>3. ASSUME NEW w \in Workers, MarkChecked(w) PROVE PayInv'
  BY <1>3 DEF MarkChecked, Fenced, Finish, supplierVars
<1>4. ASSUME NEW w \in Workers, RetryTopupCheck(w) PROVE PayInv'
  BY <1>4 DEF RetryTopupCheck, Finish, supplierVars
<1>5. ASSUME NEW w \in Workers, MarkPreflightFailed(w) PROVE PayInv'
  BY <1>5 DEF MarkPreflightFailed, Finish, supplierVars
<1>6. ASSUME NEW w \in Workers, MarkPaymentStarted(w) PROVE PayInv'
  BY <1>6 DEF MarkPaymentStarted, Fenced, supplierVars
<1>7. ASSUME NEW w \in Workers, SendPay(w) PROVE PayInv'
  BY <1>7 DEF SendPay, rowVars
<1>8. ASSUME NEW w \in Workers, PayAnswer(w) \/ StatusAnswer(w) PROVE PayInv'
  BY <1>8 DEF PayAnswer, StatusAnswer, rowVars, supplierVars
<1>9. ASSUME NEW w \in Workers, SaveResult(w) PROVE PayInv'
  <2>1. SavedState(Job(w), answer[w]) \in PastPayment
    BY DEF SavedState
  <2> QED BY <1>9, <2>1 DEF SaveResult, Finish, supplierVars
<1>10. ASSUME NEW w \in Workers, SaveDuplicate(w) PROVE PayInv'
  BY <1>10 DEF SaveDuplicate, rowVars, supplierVars
<1>11. ASSUME NEW w \in Workers, MarkRequiresAttention(w) PROVE PayInv'
  BY <1>11 DEF MarkRequiresAttention, Finish, supplierVars
<1>12. ASSUME NEW w \in Workers, LeaseLost(w) \/ WorkerFails(w) PROVE PayInv'
  <2>1. Finish(w) /\ UNCHANGED <<rowVars, topup_allowed, supplierVars>>
    BY <1>12 DEF LeaseLost, WorkerFails
  <2> QED BY <2>1 DEF Finish, rowVars, supplierVars
<1>13. ASSUME NEW w \in Workers, NEW p \in Purchases, ClaimDue(w, p) PROVE PayInv'
  BY <1>13 DEF ClaimDue, supplierVars
<1>14. ASSUME NEW p \in Purchases, Enqueue(p) PROVE PayInv'
  BY <1>14 DEF Enqueue, workerVars, supplierVars
<1>15. ASSUME NEW p \in Purchases, ConfirmFailed(p) \/ RecordSuccess(p) PROVE PayInv'
  <2>1. /\ state' = [state EXCEPT ![p] = "failed"] \/ state' = [state EXCEPT ![p] = "succeeded"]
        /\ UNCHANGED <<pc, claim, pay_calls>>
    BY <1>15 DEF ConfirmFailed, RecordSuccess, workerVars, supplierVars
  <2>2. \A q \in Purchases : state[q] \in PastPayment => state'[q] \in PastPayment
    BY <2>1
  <2> QED BY <2>1, <2>2
<1>16. ASSUME UNCHANGED <<state, pay_calls, workerVars>> PROVE PayInv'
  BY <1>16 DEF workerVars
<1>17. ASSUME NEW p \in Purchases,
              \/ ChangePermission(p) \/ BecomeDue(p) \/ LeaseExpires(p) \/ LeaseOutrun(p)
              \/ PayArrives(p) \/ PayLost(p) \/ SupplierSettles(p)
              PROVE UNCHANGED <<state, pay_calls, workerVars>>
  BY <1>17 DEF ChangePermission, BecomeDue, LeaseExpires, LeaseOutrun, Lapse, PayArrives,
               PayLost, SupplierSettles, rowVars, supplierVars
<1> QED
  <2>1. CASE UNCHANGED vars
    BY <2>1, <1>16 DEF vars, rowVars, supplierVars
  <2> QED
    BY <2>1, <1>1, <1>2, <1>3, <1>4, <1>5, <1>6, <1>7, <1>8, <1>9, <1>10, <1>11, <1>12,
       <1>13, <1>14, <1>15, <1>16, <1>17 DEF Next, WorkerStep

(* For any number of workers, failing and losing leases at any time, a     *)
(* purchase is sent to InterHub for payment at most once, and never without*)
(* the intent on disk.                                                     *)
THEOREM PaidAtMostOnce == Spec => []PaidOnceOnDisk
<1>1. Init => TypeInv /\ PayInv
  BY TypeInit DEF Init, TypeInv, BusyOnPurchase, PayInv, PayAtMostOnce, PaymentIsOnDisk
<1>2. TypeInv /\ PayInv /\ [Next]_vars => (TypeInv /\ PayInv)'
  BY TypeStep, PayStep
<1>3. PayInv => PaidOnceOnDisk
  BY DEF PayInv, PaidOnceOnDisk
<1> QED BY <1>1, <1>2, <1>3, PTL DEF Spec

-----------------------------------------------------------------------------
(* What the Hub knows about InterHub.  Answers about vouchers, whose types *)
(* nobody looks at, are legible; and, for the fallback contract only,      *)
(* InterHub never reports an operation failed before its pay has arrived.  *)
LegibleVouchers == Garbled \subseteq Topups
PatientStatus == "failed" \notin StatusOfUnpaid

(* InterHub acts on an operation only when its single pay request arrives. *)
SupplierInv ==
    /\ \A p \in Purchases : pay_calls[p] = 0 => ~ pay_in_flight[p] /\ remote[p] = "unpaid"
    /\ \A p \in Purchases : pay_in_flight[p] => remote[p] = "unpaid"
    /\ \A p \in Purchases : remote[p] = "paid" /\ p \notin Topups => issued[p] # NoCode

(* An answer about to be saved is still true when it is saved, however     *)
(* late that is: charges and rejections are final.                         *)
AnswerInv ==
    \A w \in Workers : pc[w] = "saving" =>
        /\ answer[w] = "succeeded" => remote[Job(w)] = "paid"
        /\ PatientStatus /\ answer[w] = "failed" => remote[Job(w)] = "rejected"

TruthInv == SupplierInv /\ AnswerInv

(* provider_state and the checks of _save_result add nothing to what a     *)
(* legible supplier reports: they find it out, or recognise nothing.       *)
LEMMA HeardIsReported ==
  ASSUME LegibleVouchers, NEW p \in Purchases,
         NEW reports \in SUBSET {"processing", "succeeded", "no_code", "failed"},
         p \in Topups => "no_code" \notin reports,
         NEW a \in Heard(p, reports)
  PROVE  a \in reports \cup {"error", "unrecognised"}
<1>1. ASSUME NEW r \in reports, NEW b \in Words[r] PROVE Read(p \in Topups, b) = r
  BY <1>1 DEF Words, Body, Success, Status, Read, Recognised, Typed, ProviderState, Truth, Number
<1>2. ASSUME NEW b \in Illegible, p \in Garbled PROVE Read(p \in Topups, b) = "unrecognised"
  BY <1>2 DEF Illegible, Read, Recognised, LegibleVouchers
<1> QED BY <1>1, <1>2 DEF Heard

LEMMA TruthStep ==
  ASSUME LegibleVouchers, TypeInv, PayInv, TruthInv, [Next]_vars
  PROVE  TruthInv'
<1> USE DEF TypeInv, TypeOK, BusyOnPurchase, Job, PayInv, PayAtMostOnce, TruthInv, SupplierInv, AnswerInv
<1>1. ASSUME NEW w \in Workers, Dispatch(w) PROVE TruthInv'
  <2>1. NextStep(claim[w]) # "saving"
    BY <1>1 DEF Dispatch, NextStep, StepFor, Claimable, Reconcilable
  <2> QED BY <1>1, <2>1 DEF Dispatch, rowVars, supplierVars
<1>2. ASSUME NEW w \in Workers, Finish(w), UNCHANGED supplierVars PROVE TruthInv'
  BY <1>2 DEF Finish, supplierVars
<1>3. ASSUME NEW w \in Workers,
             \/ DeferTopup(w) \/ MarkChecked(w) \/ RetryTopupCheck(w) \/ MarkPreflightFailed(w)
             \/ SaveResult(w) \/ MarkRequiresAttention(w) \/ LeaseLost(w) \/ WorkerFails(w)
      PROVE  Finish(w) /\ UNCHANGED supplierVars
  BY <1>3 DEF DeferTopup, MarkChecked, RetryTopupCheck, MarkPreflightFailed, SaveResult,
              MarkRequiresAttention, LeaseLost, WorkerFails, supplierVars
<1>4. ASSUME NEW w \in Workers, MarkPaymentStarted(w) \/ SaveDuplicate(w) PROVE TruthInv'
  BY <1>4 DEF MarkPaymentStarted, SaveDuplicate, rowVars, supplierVars
<1>5. ASSUME NEW w \in Workers, SendPay(w) PROVE TruthInv'
  BY <1>5 DEF SendPay, rowVars
<1>6. ASSUME NEW w \in Workers, PayAnswer(w) PROVE TruthInv'
  <2>1. Report(Job(w)) \in SUBSET {"processing", "succeeded", "no_code", "failed"}
    BY DEF Report
  <2>2. Job(w) \in Topups => "no_code" \notin Report(Job(w))
    BY DEF Report
  <2>3. Job(w) \in Purchases
    BY <1>6 DEF PayAnswer
  <2>4. PICK a \in Heard(Job(w), IF pay_in_flight[Job(w)] THEN {} ELSE Report(Job(w))) :
           answer' = [answer EXCEPT ![w] = a]
    BY <1>6 DEF PayAnswer
  <2>5. a \in Report(Job(w)) \cup {"error", "unrecognised"}
    BY <2>1, <2>2, <2>3, <2>4, HeardIsReported
  <2> QED BY <1>6, <2>4, <2>5 DEF PayAnswer, Report, rowVars, supplierVars
<1>7. ASSUME NEW w \in Workers, StatusAnswer(w) PROVE TruthInv'
  <2> DEFINE reports == IF remote[Job(w)] = "unpaid" THEN StatusOfUnpaid ELSE Report(Job(w))
  <2>1. reports \in SUBSET {"processing", "succeeded", "no_code", "failed"}
    BY StatusOfUnpaidAssumption DEF Report
  <2>2. Job(w) \in Topups => "no_code" \notin reports
    BY StatusOfUnpaidAssumption DEF Report
  <2>3. Job(w) \in Purchases
    BY <1>7 DEF StatusAnswer
  <2>4. PICK a \in Heard(Job(w), reports) : answer' = [answer EXCEPT ![w] = a]
    BY <1>7 DEF StatusAnswer
  <2>5. a \in reports \cup {"error", "unrecognised"}
    BY <2>1, <2>2, <2>3, <2>4, HeardIsReported
  <2>6. (answer'[w] = "succeeded" => remote[Job(w)] = "paid")
        /\ (PatientStatus /\ answer'[w] = "failed" => remote[Job(w)] = "rejected")
    BY <1>7, <2>4, <2>5, StatusOfUnpaidAssumption DEF StatusAnswer, Report, PatientStatus
  <2> QED BY <1>7, <2>4, <2>6 DEF StatusAnswer, rowVars, supplierVars
<1>8. ASSUME NEW w \in Workers, NEW p \in Purchases, ClaimDue(w, p) PROVE TruthInv'
  BY <1>8 DEF ClaimDue, supplierVars
<1>9. ASSUME UNCHANGED <<workerVars, supplierVars>> PROVE TruthInv'
  BY <1>9 DEF workerVars, supplierVars
<1>10. ASSUME NEW p \in Purchases,
              \/ Enqueue(p) \/ ChangePermission(p) \/ BecomeDue(p) \/ LeaseExpires(p)
              \/ LeaseOutrun(p) \/ ConfirmFailed(p) \/ RecordSuccess(p)
       PROVE  UNCHANGED <<workerVars, supplierVars>>
  BY <1>10 DEF Enqueue, ChangePermission, BecomeDue, LeaseExpires, LeaseOutrun, Lapse,
               ConfirmFailed, RecordSuccess
<1>11. ASSUME NEW p \in Purchases, PayArrives(p) PROVE TruthInv'
  BY <1>11, NoCodeAssumption DEF PayArrives, SupplierDecides, rowVars, workerVars
<1>12. ASSUME NEW p \in Purchases, PayLost(p) PROVE TruthInv'
  BY <1>12 DEF PayLost, rowVars, workerVars
<1>13. ASSUME NEW p \in Purchases, SupplierSettles(p) PROVE TruthInv'
  BY <1>13, NoCodeAssumption DEF SupplierSettles, SupplierDecides, rowVars, workerVars
<1> QED
  <2>1. CASE UNCHANGED vars
    BY <2>1, <1>9 DEF vars
  <2> QED
    BY <2>1, <1>1, <1>2, <1>3, <1>4, <1>5, <1>6, <1>7, <1>8, <1>9, <1>10, <1>11, <1>12, <1>13
    DEF Next, WorkerStep

OutcomeInv == (PatientStatus => FailedIsDefinitive) /\ SucceededIsTrue

LEMMA OutcomeStep ==
  ASSUME LegibleVouchers, TypeInv, PayInv, TruthInv, OutcomeInv, [Next]_vars
  PROVE  OutcomeInv'
<1> USE DEF TypeInv, TypeOK, BusyOnPurchase, Job, PayInv, PayAtMostOnce, PaymentIsOnDisk,
            SupplierInv, TruthInv, OutcomeInv, FailedIsDefinitive, SucceededIsTrue,
            MayBeCharged, PastPayment
<1>1. ASSUME NEW w \in Workers, Dispatch(w) PROVE OutcomeInv'
  <2>1. NextStep(claim[w]) # "paying"
    BY <1>1 DEF Dispatch, NextStep, StepFor, Claimable, Reconcilable
  <2> QED BY <1>1, <2>1 DEF Dispatch, rowVars, supplierVars
<1>2. ASSUME NEW w \in Workers,
             UNCHANGED <<state, result_hash, decision, supplierVars>>,
             Finish(w)
      PROVE  OutcomeInv'
  BY <1>2 DEF Finish, supplierVars
<1>3. ASSUME NEW w \in Workers,
             DeferTopup(w) \/ RetryTopupCheck(w) \/ LeaseLost(w) \/ WorkerFails(w)
      PROVE  UNCHANGED <<state, result_hash, decision, supplierVars>> /\ Finish(w)
  BY <1>3 DEF DeferTopup, RetryTopupCheck, LeaseLost, WorkerFails, rowVars
<1>4. ASSUME NEW w \in Workers, MarkChecked(w) PROVE OutcomeInv'
  BY <1>4 DEF MarkChecked, Fenced, Finish, supplierVars
<1>5. ASSUME NEW w \in Workers, MarkPreflightFailed(w) PROVE OutcomeInv'
  <2>1. state[Job(w)] = "created" /\ pay_calls[Job(w)] = 0
    BY <1>5 DEF MarkPreflightFailed, Fenced
  <2>2. ~ MayBeCharged(Job(w)) /\ \A u \in Workers : Job(u) = Job(w) => pc[u] # "paying"
    BY <1>5, <2>1 DEF MarkPreflightFailed
  <2> QED BY <1>5, <2>1, <2>2 DEF MarkPreflightFailed, Finish, supplierVars
<1>6. ASSUME NEW w \in Workers, MarkPaymentStarted(w) PROVE OutcomeInv'
  BY <1>6 DEF MarkPaymentStarted, Fenced, supplierVars
<1>7. ASSUME NEW w \in Workers, SendPay(w) PROVE OutcomeInv'
  BY <1>7 DEF SendPay, rowVars
<1>8. ASSUME NEW w \in Workers, PayAnswer(w) \/ StatusAnswer(w) PROVE OutcomeInv'
  BY <1>8 DEF PayAnswer, StatusAnswer, rowVars, supplierVars
<1>9. ASSUME NEW w \in Workers, SaveResult(w) PROVE OutcomeInv'
  <2> DEFINE p == Job(w)  target == SavedState(p, answer[w])  code == SavedCode(p, answer[w])
  <2>1. p \in Purchases /\ pc[w] = "saving"
    BY <1>9 DEF SaveResult
  <2>2. ASSUME PatientStatus, target = "failed" PROVE remote[p] = "rejected"
    BY <2>1, <2>2 DEF SavedState, AnswerInv
  <2>3. ASSUME target = "succeeded" PROVE answer[w] = "succeeded" /\ remote[p] = "paid"
    BY <2>1, <2>3 DEF SavedState, AnswerInv
  <2>4. ASSUME PatientStatus, target = "failed"
        PROVE  ~ MayBeCharged(p) /\ \A u \in Workers : Job(u) = p => pc[u] # "paying"
    BY <2>1, <2>2, <2>4
  <2>5. ASSUME target = "succeeded", p \notin Topups
        PROVE  code = issued[p] /\ issued[p] # NoCode
    BY <2>1, <2>3, <2>5 DEF SavedCode
  <2>6. /\ state' = [state EXCEPT ![p] = target]
        /\ result_hash' = [result_hash EXCEPT ![p] = code]
        /\ UNCHANGED <<decision, supplierVars>>
        /\ Finish(w)
    BY <1>9 DEF SaveResult
  <2> HIDE DEF p, target, code
  <2>7. ASSUME PatientStatus PROVE FailedIsDefinitive'
    <3> SUFFICES ASSUME NEW q \in Purchases, state'[q] = "failed", decision[q] = "none"
                 PROVE  /\ ~ MayBeCharged(q)
                        /\ \A u \in Workers : Job(u)' = q => pc'[u] # "paying"
      BY <2>6 DEF supplierVars
    <3>1. ~ MayBeCharged(q) /\ \A u \in Workers : Job(u) = q => pc[u] # "paying"
      BY <2>1, <2>4, <2>6, <2>7
    <3> QED BY <3>1, <2>6 DEF Finish
  <2>8. SucceededIsTrue'
    BY <2>1, <2>3, <2>5, <2>6 DEF supplierVars
  <2> QED BY <2>7, <2>8
<1>10. ASSUME NEW w \in Workers, SaveDuplicate(w) PROVE OutcomeInv'
  BY <1>10 DEF SaveDuplicate, rowVars, supplierVars
<1>11. ASSUME NEW w \in Workers, MarkRequiresAttention(w) PROVE OutcomeInv'
  BY <1>11 DEF MarkRequiresAttention, Finish, supplierVars
<1>12. ASSUME NEW w \in Workers, NEW p \in Purchases, ClaimDue(w, p) PROVE OutcomeInv'
  BY <1>12 DEF ClaimDue, supplierVars
<1>13. ASSUME NEW p \in Purchases, Enqueue(p) PROVE OutcomeInv'
  BY <1>13 DEF Enqueue, workerVars, supplierVars
<1>14. ASSUME UNCHANGED <<state, result_hash, decision, workerVars, supplierVars>> PROVE OutcomeInv'
  BY <1>14 DEF workerVars, supplierVars
<1>15. ASSUME NEW p \in Purchases,
              ChangePermission(p) \/ BecomeDue(p) \/ LeaseExpires(p) \/ LeaseOutrun(p)
       PROVE  UNCHANGED <<state, result_hash, decision, workerVars, supplierVars>>
  BY <1>15 DEF ChangePermission, BecomeDue, LeaseExpires, LeaseOutrun, Lapse, rowVars
<1>16. ASSUME NEW p \in Purchases, PayArrives(p) \/ PayLost(p) PROVE OutcomeInv'
  BY <1>16 DEF PayArrives, PayLost, SupplierDecides, rowVars, workerVars
<1>17. ASSUME NEW p \in Purchases, SupplierSettles(p) PROVE OutcomeInv'
  BY <1>17 DEF SupplierSettles, SupplierDecides, rowVars, workerVars
<1>18. ASSUME NEW p \in Purchases, ConfirmFailed(p) \/ RecordSuccess(p) PROVE OutcomeInv'
  BY <1>18 DEF ConfirmFailed, RecordSuccess, workerVars, supplierVars
<1> QED
  <2>1. CASE UNCHANGED vars
    BY <2>1, <1>14 DEF vars, rowVars
  <2> QED
    BY <2>1, <1>1, <1>2, <1>3, <1>4, <1>5, <1>6, <1>7, <1>8, <1>9, <1>10, <1>11, <1>12, <1>13,
       <1>14, <1>15, <1>16, <1>17, <1>18 DEF Next, WorkerStep

HubInv == TypeInv /\ PayInv /\ TruthInv /\ OutcomeInv

LEMMA HubInvariant == LegibleVouchers => (Spec => []HubInv)
<1> SUFFICES ASSUME LegibleVouchers PROVE Spec => []HubInv
  OBVIOUS
<1>1. Init => HubInv
  BY TypeInit DEF Init, HubInv, TypeInv, BusyOnPurchase, PayInv, PayAtMostOnce, PaymentIsOnDisk,
     TruthInv, SupplierInv, AnswerInv, OutcomeInv, FailedIsDefinitive, SucceededIsTrue
<1>2. HubInv /\ [Next]_vars => HubInv'
  BY TypeStep, PayStep, TruthStep, OutcomeStep DEF HubInv
<1> QED BY <1>1, <1>2, PTL DEF Spec

(* The fallback contract: a purchase the Hub reports failed has not been   *)
(* charged and can no longer be, whoever works on it and however late.     *)
THEOREM FailureIsDefinitive == LegibleVouchers /\ PatientStatus => (Spec => []FailedIsDefinitive)
<1> SUFFICES ASSUME LegibleVouchers, PatientStatus PROVE Spec => []FailedIsDefinitive
  OBVIOUS
<1>1. HubInv => FailedIsDefinitive
  BY DEF HubInv, OutcomeInv
<1> QED BY <1>1, HubInvariant, PTL

(* A success the Hub reports was charged, and the code is the one issued,  *)
(* whatever InterHub says of an operation before its pay has arrived.      *)
THEOREM SuccessIsTrue == LegibleVouchers => (Spec => []SucceededIsTrue)
<1>1. HubInv => SucceededIsTrue
  BY DEF HubInv, OutcomeInv
<1> QED BY <1>1, HubInvariant, PTL

-----------------------------------------------------------------------------
(* Refinement of the contract.                                             *)
Phases == [p \in Purchases |-> PhaseOf(p)]
Charges == [p \in Purchases |-> remote[p] = "paid"]
Overrides == [p \in Purchases |-> decision[p] # "none"]

(* A step that keeps the contract's view of every purchase is a stutter.   *)
LEMMA Stutter ==
  ASSUME UNCHANGED <<state, remote, decision>>
  PROVE  UNCHANGED Contract!contractVars
  BY DEF Contract!contractVars, PhaseOf

(* Only p's row changes, so only p's phase does.                           *)
LEMMA PhaseChange ==
  ASSUME TypeOK, NEW p \in Purchases, NEW s \in PurchaseState,
         state' = [state EXCEPT ![p] = s]
  PROVE  Phases' = [Phases EXCEPT ![p] = PhaseOf(p)']
<1>1. \A q \in Purchases : q # p => PhaseOf(q)' = PhaseOf(q)
  BY DEF TypeOK, PhaseOf
<1> QED BY <1>1 DEF Phases

ContractStep == [Contract!ContractNext]_(Contract!contractVars)

LEMMA RefinementStep ==
  ASSUME PatientStatus, HubInv, [Next]_vars
  PROVE  ContractStep
<1> USE DEF HubInv, TypeInv, TypeOK, BusyOnPurchase, Job
<1>1. ASSUME NEW p \in Purchases, Enqueue(p) PROVE ContractStep
  <2>1. Phases' = [Phases EXCEPT ![p] = "open"] /\ Phases[p] = "absent"
    <3>1. state' = [state EXCEPT ![p] = "created"] /\ state[p] = "absent"
      BY <1>1 DEF Enqueue
    <3>2. PhaseOf(p)' = "open" /\ PhaseOf(p) = "absent"
      BY <3>1 DEF PhaseOf, Reconcilable
    <3> QED BY <3>1, <3>2, PhaseChange DEF PurchaseState, Phases
  <2>2. UNCHANGED <<Charges, Overrides>>
    BY <1>1 DEF Enqueue, supplierVars, Charges, Overrides
  <2> QED BY <2>1, <2>2 DEF ContractStep, Contract!ContractNext, Contract!Order, Phases, Charges,
                            Overrides
<1>2. ASSUME NEW w \in Workers, MarkPreflightFailed(w) PROVE ContractStep
  <2>1. Phases' = [Phases EXCEPT ![Job(w)] = "failed"] /\ Phases[Job(w)] = "open" /\ Job(w) \in Purchases
    BY <1>2, PhaseChange DEF MarkPreflightFailed, Fenced, PurchaseState, PhaseOf, Phases,
                             Reconcilable
  <2>2. UNCHANGED <<Charges, Overrides>>
    BY <1>2 DEF MarkPreflightFailed, supplierVars, Charges, Overrides
  <2> QED BY <2>1, <2>2 DEF ContractStep, Contract!ContractNext, Contract!Refuse, Phases, Charges,
                            Overrides
<1>3. ASSUME NEW w \in Workers, MarkPaymentStarted(w) PROVE ContractStep
  <2>1. Phases' = [Phases EXCEPT ![Job(w)] = "committed"] /\ Phases[Job(w)] = "open" /\ Job(w) \in Purchases
    BY <1>3, PhaseChange DEF MarkPaymentStarted, Fenced, PurchaseState, PhaseOf, Phases,
                             Reconcilable
  <2>2. UNCHANGED <<Charges, Overrides>>
    BY <1>3 DEF MarkPaymentStarted, supplierVars, Charges, Overrides
  <2> QED BY <2>1, <2>2 DEF ContractStep, Contract!ContractNext, Contract!Commit, Phases, Charges,
                            Overrides
<1>4. ASSUME NEW w \in Workers, MarkChecked(w) PROVE ContractStep
  <2>1. Phases' = Phases
    BY <1>4 DEF MarkChecked, Fenced, PhaseOf, Phases, Reconcilable
  <2>2. UNCHANGED <<Charges, Overrides>>
    BY <1>4 DEF MarkChecked, supplierVars, Charges, Overrides
  <2> QED BY <2>1, <2>2 DEF ContractStep, Contract!contractVars, Phases, Charges, Overrides
<1>5. ASSUME NEW w \in Workers, MarkRequiresAttention(w) PROVE ContractStep
  <2>1. Phases' = Phases
    BY <1>5 DEF MarkRequiresAttention, Fenced, PhaseOf, Phases, Reconcilable
  <2>2. UNCHANGED <<Charges, Overrides>>
    BY <1>5 DEF MarkRequiresAttention, supplierVars, Charges, Overrides
  <2> QED BY <2>1, <2>2 DEF ContractStep, Contract!contractVars, Phases, Charges, Overrides
<1>6. ASSUME NEW w \in Workers, SaveResult(w) PROVE ContractStep
  <2>0. PICK p \in Purchases : p = Job(w)
    BY <1>6 DEF SaveResult
  <2> DEFINE target == SavedState(p, answer[w])
  <2>1. pc[w] = "saving" /\ state[p] \in Reconcilable
    BY <1>6, <2>0 DEF SaveResult, Fenced
  <2>2. state' = [state EXCEPT ![p] = target] /\ UNCHANGED <<decision, remote>>
    BY <1>6, <2>0 DEF SaveResult, supplierVars
  <2>3. target \in {"processing", "succeeded", "failed"}
    BY DEF SavedState
  <2>4. Phases' = [Phases EXCEPT ![p] = PhaseOf(p)'] /\ Phases[p] = "committed"
    <3>1. target \in PurchaseState
      BY <2>3 DEF PurchaseState
    <3>2. PhaseOf(p) = "committed"
      BY <2>1 DEF PhaseOf, Reconcilable
    <3> HIDE DEF target
    <3> QED BY <2>2, <3>1, <3>2, PhaseChange DEF Phases
  <2>5. UNCHANGED <<Charges, Overrides>>
    BY <2>2 DEF Charges, Overrides
  <2>6. CASE target = "processing"
    <3>1. UNCHANGED Phases
      BY <2>1, <2>2, <2>4, <2>6 DEF PhaseOf, Phases, Reconcilable
    <3> QED BY <3>1, <2>5 DEF ContractStep, Contract!contractVars, Phases, Charges, Overrides
  <2>7. CASE target = "succeeded"
    <3>1. PhaseOf(p)' = "succeeded"
      BY <2>1, <2>2, <2>7 DEF PhaseOf, Reconcilable
    <3>2. remote[p] = "paid"
      BY <2>0, <2>1, <2>7 DEF SavedState, TruthInv, AnswerInv
    <3>3. Phases' = [Phases EXCEPT ![p] = "succeeded"] /\ Charges[p]
      BY <3>1, <3>2, <2>4 DEF Charges
    <3> QED BY <3>3, <2>4, <2>5 DEF ContractStep, Contract!ContractNext, Contract!Succeed, Phases,
                                    Charges, Overrides
  <2>8. CASE target = "failed"
    <3>1. PhaseOf(p)' = "failed"
      BY <2>1, <2>2, <2>8 DEF PhaseOf, Reconcilable
    <3>2. remote[p] # "paid"
      BY <2>0, <2>1, <2>8 DEF SavedState, TruthInv, AnswerInv
    <3>3. Phases' = [Phases EXCEPT ![p] = "failed"] /\ ~ Charges[p]
      BY <3>1, <3>2, <2>4 DEF Charges
    <3> QED BY <3>3, <2>4, <2>5 DEF ContractStep, Contract!ContractNext, Contract!Reject, Phases,
                                    Charges, Overrides
  <2> QED BY <2>3, <2>6, <2>7, <2>8
<1>7. ASSUME NEW p \in Purchases, ConfirmFailed(p) \/ RecordSuccess(p) PROVE ContractStep
  <2>1. /\ state[p] = "requires_attention"
        /\ state' = [state EXCEPT ![p] = "failed"] \/ state' = [state EXCEPT ![p] = "succeeded"]
        /\ UNCHANGED remote
    BY <1>7 DEF ConfirmFailed, RecordSuccess, AwaitsOperator, supplierVars
  <2>2. Phases[p] = "committed"
    BY <2>1 DEF Phases, PhaseOf, Reconcilable
  <2>3. \E outcome \in {"succeeded", "failed"} : Phases' = [Phases EXCEPT ![p] = outcome]
    BY <2>1, PhaseChange DEF PurchaseState, PhaseOf, Reconcilable
  <2>4. Overrides' = [Overrides EXCEPT ![p] = TRUE] /\ UNCHANGED Charges
    BY <1>7, <2>1 DEF ConfirmFailed, RecordSuccess, Overrides, Charges
  <2> QED BY <2>2, <2>3, <2>4 DEF ContractStep, Contract!ContractNext, Contract!Override, Phases,
                                  Charges, Overrides
<1>8. ASSUME NEW p \in Purchases, PayArrives(p) \/ SupplierSettles(p) PROVE ContractStep
  <2>1. /\ remote[p] # "paid"
        /\ pay_in_flight[p] \/ remote[p] = "processing"
        /\ UNCHANGED <<state, decision>>
        /\ \E r \in {"paid", "rejected", "processing"} : remote' = [remote EXCEPT ![p] = r]
    BY <1>8 DEF PayArrives, SupplierSettles, SupplierDecides, rowVars, TruthInv, SupplierInv
  <2>2. UNCHANGED <<Phases, Overrides>>
    BY <2>1 DEF Phases, Overrides, PhaseOf
  <2>3. CASE remote'[p] # "paid"
    <3>1. UNCHANGED Charges
      BY <2>1, <2>3 DEF Charges
    <3> QED BY <3>1, <2>2 DEF ContractStep, Contract!contractVars, Phases, Charges, Overrides
  <2>4. CASE remote'[p] = "paid"
    <3>1. Charges' = [Charges EXCEPT ![p] = TRUE] /\ ~ Charges[p]
      <4>1. \A q \in Purchases \ {p} : remote'[q] = remote[q]
        BY <2>1
      <4>2. \A q \in Purchases : (remote'[q] = "paid") = IF q = p THEN TRUE ELSE remote[q] = "paid"
        BY <4>1, <2>4
      <4>3. Charges' = [q \in Purchases |-> IF q = p THEN TRUE ELSE remote[q] = "paid"]
        BY <4>2 DEF Charges
      <4>4. [Charges EXCEPT ![p] = TRUE] = [q \in Purchases |-> IF q = p THEN TRUE ELSE remote[q] = "paid"]
        BY DEF Charges
      <4> QED BY <4>3, <4>4, <2>1 DEF Charges
    <3>2. pay_calls[p] # 0
      BY <2>1 DEF TruthInv, SupplierInv
    <3>3. state[p] \in PastPayment
      BY <3>2 DEF PayInv, PaymentIsOnDisk
    <3>4. state[p] = "failed" => decision[p] # "none"
      BY <2>1 DEF OutcomeInv, FailedIsDefinitive, MayBeCharged
    <3>5. state[p] = "succeeded" => decision[p] # "none"
      BY <2>1 DEF OutcomeInv, SucceededIsTrue
    <3>6. Phases[p] = "committed" \/ Overrides[p]
      BY <3>3, <3>4, <3>5 DEF PastPayment, PhaseOf, Phases, Overrides, Reconcilable
    <3> QED BY <3>1, <3>6, <2>2 DEF ContractStep, Contract!ContractNext, Contract!Charge, Phases,
                                    Charges, Overrides
  <2> QED BY <2>3, <2>4
<1>9. ASSUME NEW w \in Workers,
             \/ Dispatch(w) \/ DeferTopup(w) \/ RetryTopupCheck(w) \/ SendPay(w) \/ PayAnswer(w)
             \/ StatusAnswer(w) \/ SaveDuplicate(w) \/ LeaseLost(w) \/ WorkerFails(w)
             \/ \E p \in Purchases : ClaimDue(w, p)
      PROVE  UNCHANGED <<state, remote, decision>>
  BY <1>9 DEF Dispatch, DeferTopup, RetryTopupCheck, SendPay, PayAnswer, StatusAnswer,
              SaveDuplicate,
              LeaseLost, WorkerFails, ClaimDue, rowVars, supplierVars
<1>10. ASSUME NEW p \in Purchases,
              \/ ChangePermission(p) \/ BecomeDue(p) \/ LeaseExpires(p) \/ LeaseOutrun(p) \/ PayLost(p)
       PROVE  UNCHANGED <<state, remote, decision>>
  BY <1>10 DEF ChangePermission, BecomeDue, LeaseExpires, LeaseOutrun, Lapse, PayLost, rowVars,
               supplierVars
<1>11. ASSUME UNCHANGED <<state, remote, decision>> PROVE ContractStep
  BY <1>11, Stutter DEF ContractStep
<1>12. ASSUME NEW w \in Workers, WorkerStep(w) PROVE ContractStep
  BY <1>12, <1>2, <1>3, <1>4, <1>5, <1>6, <1>9, <1>11 DEF WorkerStep
<1>13. CASE UNCHANGED vars
  BY <1>13, <1>11 DEF vars, rowVars, supplierVars
<1>14. CASE Next
  BY <1>14, <1>1, <1>7, <1>8, <1>9, <1>10, <1>11, <1>12 DEF Next
<1> QED BY <1>13, <1>14

(* Every behaviour of the Hub is one the contract allows.                  *)
THEOREM HubImplementsContract ==
    LegibleVouchers /\ PatientStatus => (Spec => ImplementsContract)
<1> SUFFICES ASSUME LegibleVouchers, PatientStatus PROVE Spec => ImplementsContract
  OBVIOUS
<1>1. Init => Contract!ContractInit
  <2> SUFFICES ASSUME Init PROVE Contract!ContractInit
    OBVIOUS
  <2>1. \A p \in Purchases : PhaseOf(p) = "absent" /\ remote[p] # "paid" /\ decision[p] = "none"
    BY DEF Init, PhaseOf, Reconcilable
  <2>2. Charges = [p \in Purchases |-> FALSE] /\ Overrides = [p \in Purchases |-> FALSE]
    BY <2>1 DEF Charges, Overrides
  <2> QED BY <2>1, <2>2 DEF Contract!ContractInit, Charges, Overrides
<1>2. HubInv /\ [Next]_vars => [Contract!ContractNext]_(Contract!contractVars)
  BY RefinementStep DEF ContractStep
<1> QED BY <1>1, <1>2, HubInvariant, PTL DEF Spec, ImplementsContract, Contract!ContractSpec

-----------------------------------------------------------------------------
(* The outcome columns of one purchase, and that a step leaves them alone  *)
(* once the purchase is finished.                                          *)
KeepsFinished ==
    \A p \in Purchases : state[p] \in Terminal =>
        state'[p] = state[p] /\ result_hash'[p] = result_hash[p] /\ decision'[p] = decision[p]

LEMMA FinishedStep == ASSUME TypeInv, [Next]_vars PROVE KeepsFinished
<1> USE DEF TypeInv, TypeOK, BusyOnPurchase, Job, Terminal, KeepsFinished
<1>1. ASSUME UNCHANGED <<state, result_hash, decision>> PROVE KeepsFinished
  BY <1>1
<1>2. ASSUME NEW w \in Workers,
             \/ Dispatch(w) \/ DeferTopup(w) \/ RetryTopupCheck(w) \/ SendPay(w) \/ PayAnswer(w)
             \/ StatusAnswer(w) \/ SaveDuplicate(w) \/ LeaseLost(w) \/ WorkerFails(w)
             \/ \E p \in Purchases : ClaimDue(w, p)
      PROVE  UNCHANGED <<state, result_hash, decision>>
  BY <1>2 DEF Dispatch, DeferTopup, RetryTopupCheck, SendPay, PayAnswer, StatusAnswer,
              SaveDuplicate,
              LeaseLost, WorkerFails, ClaimDue, rowVars
<1>3. ASSUME NEW w \in Workers, MarkChecked(w) \/ MarkPreflightFailed(w) \/ MarkPaymentStarted(w)
                                \/ MarkRequiresAttention(w)
      PROVE  KeepsFinished
  BY <1>3 DEF MarkChecked, MarkPreflightFailed, MarkPaymentStarted, MarkRequiresAttention, Fenced,
              Reconcilable
<1>4. ASSUME NEW w \in Workers, SaveResult(w) PROVE KeepsFinished
  BY <1>4 DEF SaveResult, Fenced, Reconcilable
<1>5. ASSUME NEW p \in Purchases,
             \/ ChangePermission(p) \/ BecomeDue(p) \/ LeaseExpires(p) \/ LeaseOutrun(p)
             \/ PayArrives(p) \/ PayLost(p) \/ SupplierSettles(p)
      PROVE  UNCHANGED <<state, result_hash, decision>>
  BY <1>5 DEF ChangePermission, BecomeDue, LeaseExpires, LeaseOutrun, Lapse, PayArrives, PayLost,
              SupplierSettles, rowVars
<1>6. ASSUME NEW p \in Purchases, Enqueue(p) \/ ConfirmFailed(p) \/ RecordSuccess(p)
      PROVE  KeepsFinished
  BY <1>6 DEF Enqueue, ConfirmFailed, RecordSuccess, AwaitsOperator
<1>7. CASE UNCHANGED vars
  BY <1>7, <1>1 DEF vars, rowVars
<1> QED BY <1>1, <1>2, <1>3, <1>4, <1>5, <1>6, <1>7 DEF Next, WorkerStep

(* A finished purchase, its code and the operator's decision never change. *)
THEOREM FinishedStaysFinished == Spec => FinishedIsFinal
<1>1. Init => TypeInv
  BY TypeInit DEF Init, TypeInv, BusyOnPurchase
<1>2. TypeInv /\ [Next]_vars =>
        [\A p \in Purchases : state[p] \in Terminal =>
            /\ state'[p] = state[p]
            /\ result_hash'[p] = result_hash[p]
            /\ decision'[p] = decision[p]]_vars
  BY FinishedStep DEF KeepsFinished
<1> QED BY <1>1, <1>2, TypeStep, PTL DEF Spec, FinishedIsFinal

-----------------------------------------------------------------------------
LEMMA CodesStep == ASSUME TypeInv, CodesAreUnique, [Next]_vars PROVE CodesAreUnique'
<1> USE DEF TypeInv, TypeOK, BusyOnPurchase, Job, CodesAreUnique
<1>1. ASSUME NEW p \in Purchases, NEW code \in Codes \cup {NoCode}, ~ Taken(p, code),
             result_hash' = [result_hash EXCEPT ![p] = code]
      PROVE  CodesAreUnique'
  BY <1>1, NoCodeAssumption, OldCodesAssumption DEF Taken
<1>2. ASSUME NEW w \in Workers, SaveResult(w) PROVE CodesAreUnique'
  <2>1. SavedCode(Job(w), answer[w]) \in Codes \cup {NoCode}
    BY <1>2 DEF SavedCode, SaveResult
  <2> QED BY <1>1, <1>2, <2>1 DEF SaveResult
<1>3. ASSUME NEW p \in Purchases, RecordSuccess(p) PROVE CodesAreUnique'
  BY <1>1, <1>3 DEF RecordSuccess
<1>4. ASSUME UNCHANGED result_hash PROVE CodesAreUnique'
  BY <1>4
<1>5. ASSUME NEW w \in Workers, WorkerStep(w) \/ WorkerFails(w) \/ \E p \in Purchases : ClaimDue(w, p)
      PROVE  UNCHANGED result_hash \/ SaveResult(w)
  BY <1>5 DEF WorkerStep, Dispatch, DeferTopup, MarkChecked, RetryTopupCheck, MarkPreflightFailed,
              MarkPaymentStarted, SendPay, PayAnswer, StatusAnswer, SaveDuplicate,
              MarkRequiresAttention, LeaseLost, WorkerFails, ClaimDue, rowVars
<1>6. ASSUME NEW p \in Purchases,
             \/ Enqueue(p) \/ ChangePermission(p) \/ BecomeDue(p) \/ LeaseExpires(p) \/ LeaseOutrun(p)
             \/ PayArrives(p) \/ PayLost(p) \/ SupplierSettles(p) \/ ConfirmFailed(p)
      PROVE  UNCHANGED result_hash
  BY <1>6 DEF Enqueue, ChangePermission, BecomeDue, LeaseExpires, LeaseOutrun, Lapse, PayArrives,
              PayLost, SupplierSettles, ConfirmFailed, rowVars
<1>7. CASE UNCHANGED vars
  BY <1>4, <1>7 DEF vars, rowVars
<1> QED BY <1>2, <1>3, <1>4, <1>5, <1>6, <1>7 DEF Next

(* No two purchases ever hold the same code, whatever the supplier issues. *)
THEOREM UniqueCodes == Spec => []CodesAreUnique
<1>1. Init => TypeInv /\ CodesAreUnique
  BY TypeInit, NoCodeAssumption, OldCodesAssumption DEF Init, TypeInv, BusyOnPurchase,
         CodesAreUnique
<1>2. TypeInv /\ CodesAreUnique /\ [Next]_vars => (TypeInv /\ CodesAreUnique)'
  BY TypeStep, CodesStep
<1> QED BY <1>1, <1>2, PTL DEF Spec

-----------------------------------------------------------------------------
(* Why the counters stay bounded although they are compared in a snapshot: *)
(* whoever may still write holds the token, and then the snapshot's        *)
(* counters are the row's.                                                 *)
SnapshotInv ==
    \A w \in Workers : pc[w] # "idle" /\ lease_token[Job(w)] = w =>
        /\ claim[w].status_check_attempts = status_check_attempts[Job(w)]
        /\ claim[w].preflight_attempts = preflight_attempts[Job(w)]

StepInv ==
    \A w \in Workers :
        /\ pc[w] \in {"starting", "paying", "pay_sent"} => claim[w].state = "checked"
        /\ pc[w] \in {"polling", "saving"} =>
               (claim[w].state \in Reconcilable =>
                    claim[w].status_check_attempts < MaxStatusChecks)

AttemptsInv == SnapshotInv /\ StepInv /\ AttemptsAreBounded

LEMMA AttemptsStep == ASSUME TypeInv, AttemptsInv, [Next]_vars PROVE AttemptsInv'
<1> USE LimitsAssumption, NoWorkerAssumption
    DEF TypeInv, TypeOK, BusyOnPurchase, Job, AttemptsInv, SnapshotInv, StepInv, AttemptsAreBounded
<1>1. ASSUME NEW w \in Workers, Dispatch(w) PROVE AttemptsInv'
  <2>1. /\ claim[w].state \in Claimable /\ claim[w].status_check_attempts \in Nat
        /\ pc' = [pc EXCEPT ![w] = NextStep(claim[w])]
        /\ UNCHANGED <<claim, lease_token, status_check_attempts, preflight_attempts>>
        /\ pc[w] = "claimed"
    BY <1>1 DEF Dispatch, rowVars, Claim
  <2>2. NextStep(claim[w]) = "starting" => claim[w].state = "checked"
    BY <2>1 DEF NextStep, StepFor, Claimable, Reconcilable
  <2>3. NextStep(claim[w]) = "polling" => claim[w].status_check_attempts < MaxStatusChecks
    BY <2>1 DEF NextStep, StepFor, Claimable, Reconcilable, Exhausted
  <2>4. NextStep(claim[w]) \notin {"paying", "pay_sent", "saving"}
    BY <2>1 DEF NextStep, StepFor, Claimable, Reconcilable
  <2> QED BY <2>1, <2>2, <2>3, <2>4
<1>2. ASSUME NEW w \in Workers, Finish(w),
             UNCHANGED <<status_check_attempts, preflight_attempts>>,
             \A p \in Purchases : lease_token'[p] \in {lease_token[p], NoWorker}
      PROVE  AttemptsInv'
  BY <1>2 DEF Finish
<1>3. ASSUME NEW w \in Workers,
             \/ DeferTopup(w) \/ MarkChecked(w) \/ MarkPreflightFailed(w)
             \/ MarkRequiresAttention(w) \/ LeaseLost(w) \/ WorkerFails(w)
      PROVE  /\ Finish(w) /\ UNCHANGED <<status_check_attempts, preflight_attempts>>
             /\ \A p \in Purchases : lease_token'[p] \in {lease_token[p], NoWorker}
  BY <1>3 DEF DeferTopup, MarkChecked, MarkPreflightFailed, MarkRequiresAttention, LeaseLost,
              WorkerFails, Release, rowVars
<1>4. ASSUME NEW w \in Workers, RetryTopupCheck(w) PROVE AttemptsInv'
  BY <1>4 DEF RetryTopupCheck, MayRetryCheck, Fenced, Release, Finish, Claim
<1>5. ASSUME NEW w \in Workers, MarkPaymentStarted(w) PROVE AttemptsInv'
  BY <1>5 DEF MarkPaymentStarted
<1>6. ASSUME NEW w \in Workers, SendPay(w) PROVE AttemptsInv'
  BY <1>6 DEF SendPay, rowVars
<1>7. ASSUME NEW w \in Workers, PayAnswer(w) PROVE AttemptsInv'
  BY <1>7 DEF PayAnswer, rowVars, Reconcilable
<1>8. ASSUME NEW w \in Workers, StatusAnswer(w) PROVE AttemptsInv'
  BY <1>8 DEF StatusAnswer, rowVars
<1>9. ASSUME NEW w \in Workers, SaveResult(w) PROVE AttemptsInv'
  <2>1. /\ pc[w] = "saving" /\ lease_token[Job(w)] = w /\ Job(w) \in Purchases
        /\ claim[w].status_check_attempts = status_check_attempts[Job(w)]
    BY <1>9 DEF SaveResult, Fenced
  <2>2. CountedAttempts(w) \in Nat /\ CountedAttempts(w) <= MaxStatusChecks
    BY <2>1 DEF CountedAttempts
  <2>3. /\ status_check_attempts' = [status_check_attempts EXCEPT ![Job(w)] = CountedAttempts(w)]
        /\ UNCHANGED preflight_attempts
        /\ lease_token' = [lease_token EXCEPT ![Job(w)] = NoWorker]
        /\ Finish(w)
    BY <1>9 DEF SaveResult, Release
  <2> QED BY <2>1, <2>2, <2>3 DEF Finish
<1>10. ASSUME NEW w \in Workers, SaveDuplicate(w) PROVE AttemptsInv'
  BY <1>10 DEF SaveDuplicate, rowVars
<1>11. ASSUME NEW w \in Workers, NEW p \in Purchases, ClaimDue(w, p) PROVE AttemptsInv'
  BY <1>11 DEF ClaimDue
<1>12. ASSUME UNCHANGED <<workerVars, status_check_attempts, preflight_attempts>>,
              \A p \in Purchases : lease_token'[p] \in {lease_token[p], NoWorker}
       PROVE  AttemptsInv'
  BY <1>12 DEF workerVars
<1>13. ASSUME NEW p \in Purchases,
              \/ Enqueue(p) \/ ChangePermission(p) \/ BecomeDue(p) \/ LeaseExpires(p) \/ LeaseOutrun(p)
              \/ PayArrives(p) \/ PayLost(p) \/ SupplierSettles(p) \/ ConfirmFailed(p) \/ RecordSuccess(p)
       PROVE  /\ UNCHANGED <<workerVars, status_check_attempts, preflight_attempts>>
              /\ \A q \in Purchases : lease_token'[q] \in {lease_token[q], NoWorker}
  BY <1>13 DEF Enqueue, ChangePermission, BecomeDue, LeaseExpires, LeaseOutrun, Lapse, PayArrives,
               PayLost, SupplierSettles, ConfirmFailed, RecordSuccess, Release, rowVars
<1>14. CASE UNCHANGED vars
  BY <1>12, <1>14 DEF vars, rowVars
<1>15. ASSUME NEW w \in Workers, WorkerStep(w) PROVE AttemptsInv'
  BY <1>15, <1>1, <1>2, <1>3, <1>4, <1>5, <1>6, <1>7, <1>8, <1>9, <1>10 DEF WorkerStep
<1>16. CASE Next
  BY <1>16, <1>2, <1>3, <1>11, <1>12, <1>13, <1>15 DEF Next
<1> QED BY <1>14, <1>16

(* Retries of the check and status checks stay within their limits, also   *)
(* when slow workers save against old snapshots.                           *)
THEOREM BoundedAttempts == Spec => []AttemptsAreBounded
<1>1. Init => TypeInv /\ AttemptsInv
  BY TypeInit, LimitsAssumption
  DEF Init, TypeInv, BusyOnPurchase, AttemptsInv, SnapshotInv, StepInv, AttemptsAreBounded
<1>2. TypeInv /\ AttemptsInv /\ [Next]_vars => (TypeInv /\ AttemptsInv)'
  BY TypeStep, AttemptsStep
<1>3. AttemptsInv => AttemptsAreBounded
  BY DEF AttemptsInv
<1> QED BY <1>1, <1>2, <1>3, PTL DEF Spec
-----------------------------------------------------------------------------
(* Why attention stays justified: what justified it cannot be undone.  A   *)
(* code that InterHub has issued stays issued, the one who holds it is     *)
(* finished, and only the holder of the token counts attempts.             *)
Justified(p) ==
    \/ status_check_attempts[p] = MaxStatusChecks
    \/ p \notin Topups /\ Taken(p, issued[p])

IssuedInv == SupplierInv /\ \A p \in Purchases : issued[p] # NoCode => remote[p] = "paid"

StoredInv == \A p \in Purchases : result_hash[p] # NoCode => state[p] = "succeeded"

JustifiedInv ==
    /\ \A w \in Workers : pc[w] = "attention" /\ lease_token[Job(w)] = w => Justified(Job(w))
    /\ \A p \in Purchases : state[p] = "requires_attention" => Justified(p)

LEMMA IssuedStep == ASSUME TypeInv, PayInv, IssuedInv, [Next]_vars PROVE IssuedInv'
<1> USE DEF TypeInv, TypeOK, BusyOnPurchase, Job, PayInv, PayAtMostOnce, IssuedInv, SupplierInv
<1>1. ASSUME UNCHANGED supplierVars PROVE IssuedInv'
  BY <1>1 DEF supplierVars
<1>2. ASSUME NEW w \in Workers, SendPay(w) PROVE IssuedInv'
  BY <1>2 DEF SendPay
<1>3. ASSUME NEW w \in Workers, WorkerStep(w) \/ WorkerFails(w) \/ \E p \in Purchases : ClaimDue(w, p)
      PROVE  UNCHANGED supplierVars \/ SendPay(w)
  BY <1>3 DEF WorkerStep, Dispatch, DeferTopup, MarkChecked, RetryTopupCheck, MarkPreflightFailed,
              MarkPaymentStarted, PayAnswer, StatusAnswer, SaveResult, SaveDuplicate,
              MarkRequiresAttention, LeaseLost, WorkerFails, ClaimDue
<1>4. ASSUME NEW p \in Purchases,
             \/ Enqueue(p) \/ ChangePermission(p) \/ BecomeDue(p) \/ LeaseExpires(p) \/ LeaseOutrun(p)
             \/ ConfirmFailed(p) \/ RecordSuccess(p)
      PROVE  UNCHANGED supplierVars
  BY <1>4 DEF Enqueue, ChangePermission, BecomeDue, LeaseExpires, LeaseOutrun, Lapse, ConfirmFailed,
              RecordSuccess
<1>5. ASSUME NEW p \in Purchases, PayArrives(p) PROVE IssuedInv'
  BY <1>5, NoCodeAssumption DEF PayArrives, SupplierDecides
<1>6. ASSUME NEW p \in Purchases, PayLost(p) PROVE IssuedInv'
  BY <1>6 DEF PayLost
<1>7. ASSUME NEW p \in Purchases, SupplierSettles(p) PROVE IssuedInv'
  BY <1>7, NoCodeAssumption DEF SupplierSettles, SupplierDecides
<1>8. CASE UNCHANGED vars
  BY <1>1, <1>8 DEF vars
<1> QED BY <1>1, <1>2, <1>3, <1>4, <1>5, <1>6, <1>7, <1>8 DEF Next

(* A code is stored with the success it comes with, and stays.             *)
LEMMA StoredStep == ASSUME TypeInv, StoredInv, [Next]_vars PROVE StoredInv'
<1> USE DEF TypeInv, TypeOK, BusyOnPurchase, Job, StoredInv
<1>1. KeepsFinished
  BY FinishedStep
<1>2. ASSUME UNCHANGED result_hash PROVE StoredInv'
  BY <1>1, <1>2 DEF KeepsFinished, Terminal
<1>3. ASSUME NEW w \in Workers, SaveResult(w) PROVE StoredInv'
  <2>1. SavedCode(Job(w), answer[w]) # NoCode => SavedState(Job(w), answer[w]) = "succeeded"
    BY DEF SavedCode, SavedState
  <2> QED  BY <1>3, <2>1 DEF SaveResult
<1>4. ASSUME NEW p \in Purchases, RecordSuccess(p) PROVE StoredInv'
  BY <1>4 DEF RecordSuccess
<1>5. ASSUME NEW w \in Workers, WorkerStep(w) \/ WorkerFails(w) \/ \E p \in Purchases : ClaimDue(w, p)
      PROVE  UNCHANGED result_hash \/ SaveResult(w)
  BY <1>5 DEF WorkerStep, Dispatch, DeferTopup, MarkChecked, RetryTopupCheck, MarkPreflightFailed,
              MarkPaymentStarted, SendPay, PayAnswer, StatusAnswer, SaveDuplicate,
              MarkRequiresAttention, LeaseLost, WorkerFails, ClaimDue, rowVars
<1>6. ASSUME NEW p \in Purchases,
             \/ Enqueue(p) \/ ChangePermission(p) \/ BecomeDue(p) \/ LeaseExpires(p) \/ LeaseOutrun(p)
             \/ PayArrives(p) \/ PayLost(p) \/ SupplierSettles(p) \/ ConfirmFailed(p)
      PROVE  UNCHANGED result_hash
  BY <1>6 DEF Enqueue, ChangePermission, BecomeDue, LeaseExpires, LeaseOutrun, Lapse, PayArrives,
              PayLost, SupplierSettles, ConfirmFailed, rowVars
<1>7. CASE UNCHANGED vars
  BY <1>2, <1>7 DEF vars, rowVars
<1> QED BY <1>2, <1>3, <1>4, <1>5, <1>6, <1>7 DEF Next

(* InterHub issues the code of an operation once.                          *)
LEMMA IssuedOnce ==
  ASSUME TypeInv, IssuedInv, [Next]_vars, NEW p \in Purchases, issued[p] # NoCode
  PROVE  issued'[p] = issued[p]
<1> USE DEF TypeInv, TypeOK, IssuedInv, SupplierInv
<1>1. ASSUME NEW q \in Purchases, PayArrives(q) \/ SupplierSettles(q) PROVE issued'[p] = issued[p]
  BY <1>1 DEF PayArrives, SupplierSettles, SupplierDecides
<1>2. ASSUME NEW w \in Workers, WorkerStep(w) \/ WorkerFails(w) \/ \E q \in Purchases : ClaimDue(w, q)
      PROVE  UNCHANGED issued
  BY <1>2 DEF WorkerStep, Dispatch, DeferTopup, MarkChecked, RetryTopupCheck, MarkPreflightFailed,
              MarkPaymentStarted, SendPay, PayAnswer, StatusAnswer, SaveResult, SaveDuplicate,
              MarkRequiresAttention, LeaseLost, WorkerFails, ClaimDue, supplierVars
<1>3. ASSUME NEW q \in Purchases,
             \/ Enqueue(q) \/ ChangePermission(q) \/ BecomeDue(q) \/ LeaseExpires(q) \/ LeaseOutrun(q)
             \/ PayLost(q) \/ ConfirmFailed(q) \/ RecordSuccess(q)
      PROVE  UNCHANGED issued
  BY <1>3 DEF Enqueue, ChangePermission, BecomeDue, LeaseExpires, LeaseOutrun, Lapse, PayLost,
              ConfirmFailed, RecordSuccess, supplierVars
<1>4. CASE UNCHANGED vars
  BY <1>4 DEF vars, supplierVars
<1> QED BY <1>1, <1>2, <1>3, <1>4 DEF Next

LEMMA StaysJustified ==
  ASSUME TypeInv, IssuedInv, StoredInv, [Next]_vars, NEW p \in Purchases, Justified(p),
         status_check_attempts'[p] = status_check_attempts[p]
  PROVE  Justified(p)'
<1>1. CASE status_check_attempts[p] = MaxStatusChecks
  BY <1>1 DEF Justified
<1>2. CASE p \notin Topups /\ Taken(p, issued[p])
  <2>1. issued'[p] = issued[p] /\ issued[p] # NoCode
    BY <1>2, IssuedOnce DEF Taken
  <2>2. ASSUME NEW q \in Purchases \ {p}, result_hash[q] = issued[p] PROVE result_hash'[q] = issued'[p]
    BY <2>1, <2>2, FinishedStep DEF KeepsFinished, StoredInv, Terminal
  <2> QED  BY <1>2, <2>1, <2>2 DEF Taken, Justified
<1> QED  BY <1>1, <1>2 DEF Justified

(* A change that brings nobody to attention and counts nothing.            *)
Calm ==
    /\ UNCHANGED status_check_attempts
    /\ \A w \in Workers : pc'[w] = "attention" /\ lease_token'[Job(w)'] = w =>
          pc[w] = "attention" /\ Job(w)' = Job(w) /\ lease_token[Job(w)] = w
    /\ \A p \in Purchases : state'[p] = "requires_attention" => state[p] = "requires_attention"

LEMMA CalmSteps ==
  ASSUME TypeInv, [Next]_vars
  PROVE  Calm \/ \E w \in Workers : \/ Dispatch(w) \/ SaveResult(w) \/ SaveDuplicate(w)
                                    \/ MarkRequiresAttention(w)
<1> USE NoWorkerAssumption DEF TypeInv, TypeOK, BusyOnPurchase, Job, Calm
<1>1. ASSUME NEW w \in Workers, NEW p \in Purchases, ClaimDue(w, p) PROVE Calm
  BY <1>1 DEF ClaimDue
<1>2. ASSUME NEW w \in Workers,
             \/ DeferTopup(w) \/ MarkChecked(w) \/ RetryTopupCheck(w) \/ MarkPreflightFailed(w)
             \/ LeaseLost(w) \/ WorkerFails(w)
      PROVE  Calm
  BY <1>2 DEF DeferTopup, MarkChecked, RetryTopupCheck, MarkPreflightFailed, LeaseLost, WorkerFails,
              Finish, Release, rowVars
<1>3. ASSUME NEW w \in Workers, MarkPaymentStarted(w) \/ SendPay(w) \/ PayAnswer(w) \/ StatusAnswer(w)
      PROVE  Calm
  BY <1>3 DEF MarkPaymentStarted, SendPay, PayAnswer, StatusAnswer, rowVars
<1>4. ASSUME NEW p \in Purchases,
             \/ Enqueue(p) \/ ChangePermission(p) \/ BecomeDue(p) \/ LeaseExpires(p) \/ LeaseOutrun(p)
             \/ PayArrives(p) \/ PayLost(p) \/ SupplierSettles(p) \/ ConfirmFailed(p) \/ RecordSuccess(p)
      PROVE  Calm
  BY <1>4 DEF Enqueue, ChangePermission, BecomeDue, LeaseExpires, LeaseOutrun, Lapse, PayArrives,
              PayLost, SupplierSettles, ConfirmFailed, RecordSuccess, Release, rowVars, workerVars
<1>5. CASE UNCHANGED vars
  BY <1>5 DEF vars, rowVars, workerVars
<1> QED BY <1>1, <1>2, <1>3, <1>4, <1>5 DEF Next, WorkerStep

LEMMA JustifiedStep ==
  ASSUME TypeInv, AttemptsInv, IssuedInv, StoredInv, JustifiedInv, [Next]_vars
  PROVE  JustifiedInv'
<1> USE DEF TypeInv, TypeOK, BusyOnPurchase, Job, JustifiedInv
<1>1. ASSUME Calm PROVE JustifiedInv'
  BY <1>1, StaysJustified DEF Calm
<1>2. ASSUME NEW w \in Workers, Dispatch(w) PROVE JustifiedInv'
  <2>1. /\ pc' = [pc EXCEPT ![w] = NextStep(claim[w])] /\ pc[w] = "claimed"
        /\ UNCHANGED <<claim, lease_token, status_check_attempts, state>>
    BY <1>2 DEF Dispatch, rowVars
  <2>2. ASSUME NextStep(claim[w]) = "attention", lease_token[Job(w)] = w PROVE Justified(Job(w))
    <3>1. claim[w].status_check_attempts >= MaxStatusChecks
      BY <2>1, <2>2 DEF NextStep, StepFor, Exhausted, Claimable, Reconcilable
    <3>2. /\ status_check_attempts[Job(w)] = claim[w].status_check_attempts
          /\ status_check_attempts[Job(w)] <= MaxStatusChecks
          /\ status_check_attempts[Job(w)] \in Nat
      BY <2>1, <2>2 DEF AttemptsInv, SnapshotInv, AttemptsAreBounded
    <3>3. ASSUME NEW n \in Nat, n >= MaxStatusChecks, n <= MaxStatusChecks PROVE n = MaxStatusChecks
      BY <3>3, LimitsAssumption
    <3> QED  BY <3>1, <3>2, <3>3 DEF Justified
  <2> QED  BY <2>1, <2>2, StaysJustified
<1>3. ASSUME NEW w \in Workers, SaveDuplicate(w) PROVE JustifiedInv'
  <2>1. /\ pc' = [pc EXCEPT ![w] = "attention"] /\ pc[w] = "saving"
        /\ UNCHANGED <<claim, lease_token, status_check_attempts, state>>
    BY <1>3 DEF SaveDuplicate, rowVars
  <2>2. Justified(Job(w))
    BY <1>3 DEF SaveDuplicate, SavedCode, Taken, Justified
  <2> QED  BY <2>1, <2>2, StaysJustified
<1>4. ASSUME NEW w \in Workers, MarkRequiresAttention(w) PROVE JustifiedInv'
  <2>1. /\ pc' = [pc EXCEPT ![w] = "idle"] /\ claim' = [claim EXCEPT ![w] = NoClaim]
        /\ state' = [state EXCEPT ![Job(w)] = "requires_attention"]
        /\ lease_token' = [lease_token EXCEPT ![Job(w)] = NoWorker]
        /\ UNCHANGED status_check_attempts
    BY <1>4 DEF MarkRequiresAttention, Finish, Release
  <2>2. Justified(Job(w)) /\ Job(w) \in Purchases
    BY <1>4 DEF MarkRequiresAttention, Fenced
  <2> QED  BY <2>1, <2>2, StaysJustified, NoWorkerAssumption
<1>5. ASSUME NEW w \in Workers, SaveResult(w) PROVE JustifiedInv'
  <2>1. /\ pc' = [pc EXCEPT ![w] = "idle"] /\ claim' = [claim EXCEPT ![w] = NoClaim]
        /\ state' = [state EXCEPT ![Job(w)] = SavedState(Job(w), answer[w])]
        /\ lease_token' = [lease_token EXCEPT ![Job(w)] = NoWorker]
        /\ \A p \in Purchases \ {Job(w)} : status_check_attempts'[p] = status_check_attempts[p]
    BY <1>5 DEF SaveResult, Finish, Release
  <2>2. SavedState(Job(w), answer[w]) # "requires_attention" /\ Job(w) \in Purchases
    BY <1>5 DEF SaveResult, SavedState
  <2> QED  BY <2>1, <2>2, StaysJustified, NoWorkerAssumption
<1> QED  BY <1>1, <1>2, <1>3, <1>4, <1>5, CalmSteps

(* Operators are called only when the checks are used up or the code is    *)
(* another purchase's, whatever workers and snapshots are about.           *)
THEOREM AttentionHasReason == Spec => []AttentionIsJustified
<1> DEFINE Inv == TypeInv /\ PayInv /\ AttemptsInv /\ IssuedInv /\ StoredInv /\ JustifiedInv
<1>1. Init => Inv
  BY TypeInit, LimitsAssumption
  DEF Init, TypeInv, BusyOnPurchase, PayInv, PayAtMostOnce, PaymentIsOnDisk, AttemptsInv, SnapshotInv,
      StepInv, AttemptsAreBounded, IssuedInv, SupplierInv, StoredInv, JustifiedInv
<1>2. Inv /\ [Next]_vars => Inv'
  BY TypeStep, PayStep, AttemptsStep, IssuedStep, StoredStep, JustifiedStep
<1>3. Inv => AttentionIsJustified
  BY DEF JustifiedInv, Justified, AttentionIsJustified
<1> QED BY <1>1, <1>2, <1>3, PTL DEF Spec

-----------------------------------------------------------------------------
(* What the workers' transactions amount to, for those who see only rows.  *)
Working == Claimable \cup {"absent"}
Shows == [Rows!RowsNext]_Rows!rowsVars

LEMMA PhaseIs ==
  ASSUME TypeOK, NEW p \in Purchases
  PROVE  /\ RowPhases[p] = "worked" <=> state[p] \in Working
         /\ RowPhases[p] = "attention" <=> state[p] = "requires_attention"
  BY DEF TypeOK, RowPhases, Working, Claimable, Reconcilable, PurchaseState, Terminal

LEMMA FreeIs ==
  ASSUME NEW p, NEW code
  PROVE  Rows!Free(p, code) <=> ~ Taken(p, code)
  BY DEF Rows!Free, Taken

(* Steps of a purchase that is worked on are not seen.                     *)
LEMMA WorkShowsNothing ==
  ASSUME TypeOK, UNCHANGED <<result_hash, decision>>,
         \A p \in Purchases : state'[p] = state[p] \/ {state[p], state'[p]} \subseteq Working
  PROVE  Shows
<1>1. RowPhases' = RowPhases
  BY DEF RowPhases, Working, Claimable, Reconcilable, PurchaseState, Terminal
<1>2. Decided' = Decided
  BY DEF Decided
<1> QED  BY <1>1, <1>2 DEF Shows, Rows!rowsVars

(* What a row becomes by the transaction that ends it.                     *)
LEMMA RowEnds ==
  ASSUME TypeOK, NEW p \in Purchases, NEW outcome \in Terminal, NEW code \in Codes \cup {NoCode},
         code # NoCode <=> outcome = "succeeded" /\ p \notin Topups,
         ~ Taken(p, code),
         state' = [state EXCEPT ![p] = outcome], result_hash' = [result_hash EXCEPT ![p] = code]
  PROVE  Rows!End(p, outcome, code)
<1>1. RowPhases' = [RowPhases EXCEPT ![p] = outcome]
  BY DEF TypeOK, RowPhases, Terminal
<1> QED  BY <1>1, FreeIs DEF Rows!End

LEMMA WorkerEndShows ==
  ASSUME TypeOK, NEW p \in Purchases, NEW outcome \in Terminal, NEW code \in Codes \cup {NoCode},
         state[p] \in Working, Rows!End(p, outcome, code), UNCHANGED decision
  PROVE  Shows
<1>1. RowPhases[p] = "worked" /\ Decided' = Decided
  BY PhaseIs DEF Decided
<1>2. Rows!WorkerEnds(p, outcome, code)
  BY <1>1 DEF Rows!WorkerEnds
<1> QED  BY <1>2 DEF Shows, Rows!RowsNext, Rows!WorkerDoes, Rows!Outcome, Terminal

LEMMA OperatorEndShows ==
  ASSUME TypeOK, NEW p \in Purchases, NEW outcome \in Terminal, NEW code \in Codes \cup {NoCode},
         state[p] = "requires_attention", Rows!End(p, outcome, code),
         Decided' = [Decided EXCEPT ![p] = outcome]
  PROVE  Shows
<1>1. Rows!OperatorEnds(p, outcome, code)
  BY PhaseIs DEF Rows!OperatorEnds
<1> QED  BY <1>1 DEF Shows, Rows!RowsNext, Rows!Outcome, Terminal

(* A worker stores a success with the code InterHub issued, a failure      *)
(* without one, and goes on with anything else.                            *)
LEMMA SaveResultShows ==
  ASSUME TypeInv, TruthInv, StoredInv, NEW w \in Workers, SaveResult(w)
  PROVE  Shows
<1> DEFINE p == Job(w)
           s == SavedState(p, answer[w])
           code == SavedCode(p, answer[w])
<1>1. /\ TypeOK /\ p \in Purchases /\ state[p] \in Reconcilable /\ state[p] \in Working
      /\ result_hash[p] = NoCode /\ UNCHANGED decision /\ ~ Taken(p, code)
      /\ state' = [state EXCEPT ![p] = s] /\ result_hash' = [result_hash EXCEPT ![p] = code]
  BY DEF TypeInv, BusyOnPurchase, SaveResult, Fenced, StoredInv, Working, Claimable,
         Reconcilable, PurchaseState, Terminal
<1>2. code \in Codes \cup {NoCode}
  BY <1>1 DEF SavedCode, TypeOK
<1>3. CASE answer[w] \in {"succeeded", "failed"}
  <2>1. s \in Terminal /\ (s = "succeeded" <=> answer[w] = "succeeded")
    BY <1>3 DEF SavedState, Terminal
  <2>2. answer[w] = "succeeded" /\ p \notin Topups => issued[p] # NoCode
    BY <1>1 DEF SaveResult, TruthInv, SupplierInv, AnswerInv
  <2>3. code # NoCode <=> s = "succeeded" /\ p \notin Topups
    BY <2>1, <2>2 DEF SavedCode
  <2> HIDE DEF p, s, code
  <2>4. Rows!End(p, s, code)
    BY <1>1, <1>2, <2>1, <2>3, RowEnds
  <2> QED  BY <1>1, <1>2, <2>1, <2>4, WorkerEndShows
<1>4. CASE answer[w] \notin {"succeeded", "failed"}
  <2>1. s = "processing" /\ code = NoCode
    BY <1>4 DEF SavedState, SavedCode
  <2>2. result_hash' = result_hash
    BY <1>1, <2>1 DEF TypeOK
  <2>3. \A q \in Purchases : state'[q] = state[q] \/ {state[q], state'[q]} \subseteq Working
    BY <1>1, <2>1 DEF TypeOK, Working, Claimable, Reconcilable, PurchaseState, Terminal
  <2> QED  BY <1>1, <2>2, <2>3, WorkShowsNothing
<1> QED  BY <1>3, <1>4

LEMMA MarkPreflightFailedShows ==
  ASSUME TypeInv, StoredInv, NEW w \in Workers, MarkPreflightFailed(w)
  PROVE  Shows
<1> DEFINE p == Job(w)
<1>1. /\ TypeOK /\ p \in Purchases /\ state[p] \in Working /\ result_hash[p] = NoCode
      /\ state' = [state EXCEPT ![p] = "failed"] /\ UNCHANGED <<result_hash, decision>>
  BY DEF TypeInv, BusyOnPurchase, MarkPreflightFailed, Fenced, StoredInv, Working, Claimable,
         Reconcilable, PurchaseState, Terminal
<1> HIDE DEF p
<1>2. result_hash' = [result_hash EXCEPT ![p] = NoCode] /\ ~ Taken(p, NoCode)
  BY <1>1 DEF TypeOK, Taken
<1>3. Rows!End(p, "failed", NoCode)
  BY <1>1, <1>2, RowEnds DEF Terminal
<1> QED  BY <1>1, <1>3, WorkerEndShows DEF Terminal

LEMMA MarkRequiresAttentionShows ==
  ASSUME TypeInv, NEW w \in Workers, MarkRequiresAttention(w)
  PROVE  Shows
<1> DEFINE p == Job(w)
<1>1. /\ TypeOK /\ p \in Purchases /\ state[p] \in Working
      /\ state' = [state EXCEPT ![p] = "requires_attention"] /\ UNCHANGED <<result_hash, decision>>
  BY DEF TypeInv, BusyOnPurchase, MarkRequiresAttention, Fenced, Working, Claimable,
         Reconcilable, PurchaseState, Terminal
<1> HIDE DEF p
<1>2. RowPhases' = [RowPhases EXCEPT ![p] = "attention"] /\ Decided' = Decided
  BY <1>1 DEF TypeOK, RowPhases, Decided, Terminal
<1>3. Rows!WorkerGivesUp(p)
  BY <1>1, <1>2, PhaseIs DEF Rows!WorkerGivesUp
<1> QED  BY <1>1, <1>3 DEF Shows, Rows!RowsNext, Rows!WorkerDoes

LEMMA OperatorShows ==
  ASSUME TypeInv, StoredInv, NEW p \in Purchases, ConfirmFailed(p) \/ RecordSuccess(p)
  PROVE  Shows
<1>1. TypeOK /\ state[p] = "requires_attention" /\ result_hash[p] = NoCode
  BY DEF TypeInv, StoredInv, ConfirmFailed, RecordSuccess, AwaitsOperator
<1>2. CASE ConfirmFailed(p)
  <2>1. result_hash' = [result_hash EXCEPT ![p] = NoCode] /\ ~ Taken(p, NoCode)
    BY <1>1, <1>2 DEF ConfirmFailed, TypeOK, Taken
  <2>2. Rows!End(p, "failed", NoCode)
    BY <1>1, <1>2, <2>1, RowEnds DEF ConfirmFailed, Terminal
  <2>3. Decided' = [Decided EXCEPT ![p] = "failed"]
    BY <1>1, <1>2 DEF ConfirmFailed, Decided, TypeOK
  <2> QED  BY <1>1, <2>2, <2>3, OperatorEndShows DEF Terminal
<1>3. CASE RecordSuccess(p)
  <2>1. PICK code \in IF p \in Topups THEN {NoCode} ELSE Codes :
           ~ Taken(p, code) /\ result_hash' = [result_hash EXCEPT ![p] = code]
    BY <1>3 DEF RecordSuccess
  <2>2. code \in Codes \cup {NoCode} /\ (code # NoCode <=> p \notin Topups)
    BY <2>1, NoCodeAssumption
  <2>3. Rows!End(p, "succeeded", code)
    BY <1>1, <1>3, <2>1, <2>2, RowEnds DEF RecordSuccess, Terminal
  <2>4. Decided' = [Decided EXCEPT ![p] = "succeeded"]
    BY <1>1, <1>3 DEF RecordSuccess, Decided, TypeOK
  <2> QED  BY <1>1, <2>2, <2>3, <2>4, OperatorEndShows DEF Terminal
<1> QED  BY <1>2, <1>3

LEMMA NextShows == TypeInv /\ TruthInv /\ StoredInv /\ [Next]_vars => Shows
<1> SUFFICES ASSUME TypeInv, TruthInv, StoredInv, [Next]_vars  PROVE Shows
  OBVIOUS
<1>1. TypeOK
  BY DEF TypeInv
<1>2. ASSUME UNCHANGED <<state, result_hash, decision>>  PROVE Shows
  BY <1>1, <1>2, WorkShowsNothing
<1>3. ASSUME NEW w \in Workers, MarkChecked(w) \/ MarkPaymentStarted(w)  PROVE Shows
  <2>1. /\ Job(w) \in Purchases /\ state[Job(w)] \in Working /\ UNCHANGED <<result_hash, decision>>
        /\ \/ state' = [state EXCEPT ![Job(w)] = "checked"]
           \/ state' = [state EXCEPT ![Job(w)] = "payment_started"]
    BY <1>3 DEF TypeInv, BusyOnPurchase, MarkChecked, MarkPaymentStarted, Fenced, Working,
                Claimable,
                Reconcilable, PurchaseState, Terminal
  <2> QED
    BY <1>1, <2>1, WorkShowsNothing
    DEF TypeOK, Working, Claimable, Reconcilable, PurchaseState, Terminal
<1>4. ASSUME NEW p \in Purchases, Enqueue(p)  PROVE Shows
  BY <1>1, <1>4, WorkShowsNothing
  DEF Enqueue, TypeOK, Working, Claimable, Reconcilable, PurchaseState, Terminal
<1>5. ASSUME NEW w \in Workers,
             \/ Dispatch(w) \/ DeferTopup(w) \/ RetryTopupCheck(w) \/ SendPay(w) \/ PayAnswer(w)
             \/ StatusAnswer(w) \/ SaveDuplicate(w) \/ LeaseLost(w) \/ WorkerFails(w)
             \/ \E p \in Purchases : ClaimDue(w, p)
      PROVE  UNCHANGED <<state, result_hash, decision>>
  BY <1>5 DEF Dispatch, DeferTopup, RetryTopupCheck, SendPay, PayAnswer, StatusAnswer,
              SaveDuplicate,
              LeaseLost, WorkerFails, ClaimDue, rowVars
<1>6. ASSUME NEW p \in Purchases,
             \/ ChangePermission(p) \/ BecomeDue(p) \/ LeaseExpires(p) \/ LeaseOutrun(p)
             \/ PayArrives(p) \/ PayLost(p) \/ SupplierSettles(p)
      PROVE  UNCHANGED <<state, result_hash, decision>>
  BY <1>6 DEF ChangePermission, BecomeDue, LeaseExpires, LeaseOutrun, Lapse, PayArrives, PayLost,
              SupplierSettles, rowVars
<1>7. CASE UNCHANGED vars
  BY <1>2, <1>7 DEF vars, rowVars
<1> QED
  BY <1>2, <1>3, <1>4, <1>5, <1>6, <1>7, SaveResultShows, MarkPreflightFailedShows,
     MarkRequiresAttentionShows, OperatorShows DEF Next, WorkerStep

(* repository.py:776-833 and :354-464: with any number of workers, whatever*)
(* leases lapse and answers are lost, workers do to the rows what the desk *)
(* of the operators expects of them, and the operators what the desk does. *)
THEOREM HubImplementsRows == LegibleVouchers => (Spec => ImplementsRows)
<1> SUFFICES ASSUME LegibleVouchers  PROVE Spec => ImplementsRows
  OBVIOUS
<1> DEFINE Inv == TypeInv /\ PayInv /\ TruthInv /\ StoredInv
<1>1. Init => Inv
  BY TypeInit
  DEF Init, TypeInv, BusyOnPurchase, PayInv, PayAtMostOnce, PaymentIsOnDisk, TruthInv, SupplierInv,
      AnswerInv, StoredInv
<1>2. Inv /\ [Next]_vars => Inv'
  BY TypeStep, PayStep, TruthStep, StoredStep
<1>3. Init => Rows!RowsInit
  BY DEF Init, Rows!RowsInit, RowPhases, Decided, Terminal
<1>4. Inv /\ [Next]_vars => [Rows!RowsNext]_Rows!rowsVars
  BY NextShows DEF Shows
<1> QED  BY <1>1, <1>2, <1>3, <1>4, PTL DEF Spec, ImplementsRows, Rows!RowsSpec

(* Whatever an operator may do to the rows, and so whatever the desk does, *)
(* is a step of this module: workers, leases and InterHub go on from there *)
(* (resolve_attention writes nothing else).                                *)
THEOREM HubAdmitsDecisions ==
  ASSUME TypeOK, TypeOK', StoredInv, NEW p \in Purchases,
         NEW outcome \in {"succeeded", "failed"}, NEW code \in Codes \cup {NoCode},
         Rows!OperatorEnds(p, outcome, code),
         \A q \in Purchases \ {p} : state'[q] = state[q],
         Release(p),
         UNCHANGED <<due, status_check_attempts, preflight_attempts, workerVars, topup_allowed,
                     supplierVars>>
  PROVE  ConfirmFailed(p) \/ RecordSuccess(p)
<1>1. /\ RowPhases' = [RowPhases EXCEPT ![p] = outcome]
      /\ result_hash' = [result_hash EXCEPT ![p] = code]
      /\ Decided' = [Decided EXCEPT ![p] = outcome]
      /\ code # NoCode <=> outcome = "succeeded" /\ p \notin Topups
      /\ ~ Taken(p, code) /\ AwaitsOperator(p)
  BY PhaseIs, FreeIs DEF Rows!OperatorEnds, Rows!End, AwaitsOperator
<1>2. state' = [state EXCEPT ![p] = outcome]
  <2>1. RowPhases'[p] = outcome
    BY <1>1 DEF RowPhases
  <2>2. state'[p] = outcome
    BY <2>1 DEF RowPhases
  <2> QED  BY <2>2 DEF TypeOK
<1>3. decision' = [decision EXCEPT ![p] = IF outcome = "failed" THEN "confirm_failed"
                                                                 ELSE "record_success"]
  <2>1. \A q \in Purchases \ {p} : Decided'[q] = Decided[q]
    BY <1>1 DEF Decided
  <2>2. \A q \in Purchases \ {p} : decision'[q] = decision[q]
    BY <2>1 DEF Decided, TypeOK
  <2>3. Decided'[p] = outcome
    BY <1>1 DEF Decided
  <2>4. decision'[p] = IF outcome = "failed" THEN "confirm_failed" ELSE "record_success"
    BY <2>3 DEF Decided, TypeOK
  <2> QED  BY <2>2, <2>4 DEF TypeOK
<1>4. CASE outcome = "failed"
  <2>1. result_hash' = result_hash
    BY <1>1, <1>4 DEF TypeOK, StoredInv, AwaitsOperator
  <2> QED  BY <1>1, <1>2, <1>3, <1>4, <2>1 DEF ConfirmFailed
<1>5. CASE outcome = "succeeded"
  <2>1. code \in IF p \in Topups THEN {NoCode} ELSE Codes
    BY <1>1, <1>5
  <2> QED  BY <1>1, <1>2, <1>3, <1>5, <2>1 DEF RecordSuccess
<1> QED  BY <1>4, <1>5
=============================================================================
