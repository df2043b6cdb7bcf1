---------------------------- MODULE AirpayProofs ----------------------------
(***************************************************************************)
(* Proofs about AirpayPurchase for any number of operations, handlers and  *)
(* codes and any limit of attempts.                                        *)
(***************************************************************************)
EXTENDS AirpayProperties, TLAPS

Paying == {"committed", "counted", "pay_sent", "saving_payment"}
Fetching == {"fetching", "saving_code"}
BeforePay == Checkable \cup {"absent", "check_failed", "checked"}

(* At most one handler works on an operation, and the row stays as that    *)
(* handler found it.                                                       *)
LockInv ==
    /\ \A h \in Handlers : (pc[h] = "idle") = (job[h] = NoOperation)
    /\ \A g, h \in Handlers : job[g] = job[h] /\ job[g] # NoOperation => g = h
    /\ \A h \in Handlers :
          /\ pc[h] = "checking" => state[job[h]] = "checking"
          /\ pc[h] \in Paying => state[job[h]] = "processing" /\ ~ requires_attention[job[h]]
          /\ pc[h] \in Fetching => MissesCode(job[h]) /\ ~ requires_attention[job[h]]

(* Before it is paid for an operation has no history, and a decision leaves*)
(* nothing more to decide.                                                 *)
OwnerInv ==
    \A o \in Operations :
        /\ state[o] \in BeforePay \cup {"processing"} \/ MissesCode(o) => decision[o] = "none"
        /\ evidence[o] # "none" => decision[o] # "none"
        /\ decision[o] \in {"record_code", "record_success"} => state[o] = "paid"
        /\ state[o] \in BeforePay =>
              pay_attempts[o] = 0 /\ voucher_attempts[o] = 0 /\ ~ requires_attention[o]

(* Requests are counted in the row before they are sent, each for one call,*)
(* be it that of a thread which lost its session.                          *)
CountInv ==
    /\ \A o \in Operations :
          /\ pay_calls[o] + unsent_pays[o] <= pay_attempts[o]
          /\ voucher_calls[o] + unsent_fetches[o] <= voucher_attempts[o]
          /\ pay_attempts[o] <= MaxRecoveryAttempts
          /\ voucher_attempts[o] <= MaxRecoveryAttempts
    /\ \A h \in Handlers :
          /\ pc[h] = "committed" => pay_attempts[job[h]] = 0
          /\ pc[h] = "counted" => pay_calls[job[h]] + unsent_pays[job[h]] < pay_attempts[job[h]]
          /\ pc[h] = "pay_sent" => pay_calls[job[h]] > 0
          /\ pc[h] = "fetching" =>
                voucher_calls[job[h]] + unsent_fetches[job[h]] < voucher_attempts[job[h]]

(* Airpay acts only on requests that were sent, and an answer is still true*)
(* when it is saved.  A first request finds an unused id, so a "duplicate" *)
(* in answer to it is a refusal.                                           *)
AnswerInv ==
    /\ \A o \in Operations : pay_calls[o] = 0 => remote[o] = "unpaid" /\ ~ late[o]
    /\ \A h \in Handlers :
          /\ pc[h] = "pay_sent" /\ pay_attempts[job[h]] <= 1 =>
                remote[job[h]] = "unpaid" /\ ~ late[job[h]]
          /\ pc[h] = "saving_payment" =>
                /\ answer[h] = "paid" => remote[job[h]] = "paid"
                /\ answer[h] = "refused" => remote[job[h]] = "rejected"
                /\ answer[h] = "duplicate" /\ pay_attempts[job[h]] <= 1 =>
                      remote[job[h]] = "rejected"

(* Outcomes agree with Airpay unless the owner answers for them.           *)
OutcomeInv ==
    \A o \in Operations :
        /\ state[o] = "failed" /\ decision[o] = "none" => remote[o] = "rejected"
        /\ state[o] = "paid" /\ decision[o] # "record_success" => remote[o] = "paid"
        /\ decision[o] = "none" => pin_code[o] \in {NoCode, issued[o]}
        /\ pin_code[o] # NoCode => state[o] = "paid"

(* While the copy that the owner verified is current no handler has taken  *)
(* the lock, and after a decision none ever will; so none could lose its   *)
(* session either.                                                         *)
VerifiedInv ==
    \A o \in Operations :
        /\ view[o] = "verified" /\ current[o] =>
              /\ Free(o) /\ unsent_pays[o] = 0
              /\ ~ late[o] /\ remote[o] \in {"unpaid", "rejected"}
        /\ state[o] = "failed" /\ evidence[o] = "verified" =>
              /\ unsent_pays[o] = 0
              /\ ~ late[o] /\ remote[o] \in {"unpaid", "rejected"}

-----------------------------------------------------------------------------
(* A handler that is not idle has an operation.                            *)
LEMMA AtWork ==
  ASSUME TypeOK, LockInv, NEW h \in Handlers, pc[h] # "idle"
  PROVE  job[h] \in Operations
<1>1. job[h] # NoOperation
  BY DEF LockInv
<1>2. job \in [Handlers -> Operations \cup {NoOperation}]
  BY DEF TypeOK
<1> QED  BY <1>1, <1>2

(* A flag column stays one when it is set.                                 *)
LEMMA SetFlag ==
  \A f \in [Operations -> BOOLEAN] : \A o, b :
      b \in BOOLEAN => [f EXCEPT ![o] = b] \in [Operations -> BOOLEAN]
<1> SUFFICES ASSUME NEW f \in [Operations -> BOOLEAN], NEW o, NEW b \in BOOLEAN
             PROVE  [f EXCEPT ![o] = b] \in [Operations -> BOOLEAN]
  OBVIOUS
<1>1. CASE o \in Operations
  BY <1>1
<1>2. CASE o \notin Operations
  <2>1. [f EXCEPT ![o] = b] = f
    BY <1>2
  <2> QED BY <2>1
<1> QED BY <1>1, <1>2

(* Each part is preserved by every step.                                   *)
LEMMA TypeStep ==
  ASSUME TypeOK /\ LockInv, [Next]_vars
  PROVE  TypeOK'
<1> USE NoOperationAssumption DEF TypeOK, LockInv, Checkable, TransactionState, Step, Answer, Remote
<1>1. ASSUME NEW h \in Handlers, SaveCheck(h) PROVE TypeOK'
  BY <1>1 DEF SaveCheck, Release, Touch, rowVars, countVars, ownerVars, handlerVars, airpayVars,
              strayVars
<1>2. ASSUME NEW h \in Handlers, CountFirstPay(h) PROVE TypeOK'
  BY <1>2 DEF CountFirstPay, CountPayAttempt, Touch, rowVars, countVars, ownerVars, handlerVars,
              airpayVars, strayVars
<1>3. ASSUME NEW h \in Handlers, SendPay(h) PROVE TypeOK'
  BY <1>3 DEF SendPay, rowVars, countVars, ownerVars, handlerVars, airpayVars, strayVars
<1>4. ASSUME NEW h \in Handlers, SavePayment(h) PROVE TypeOK'
  BY <1>4 DEF SavePayment, Release, Touch, SavedState, NeedsAttention, UsedUp, rowVars, countVars,
              ownerVars, handlerVars, airpayVars, strayVars
<1>5. ASSUME NEW h \in Handlers, SaveVoucher(h) PROVE TypeOK'
  <2>1. pin_code' \in [Operations -> Codes \cup {NoCode}]
    BY <1>5 DEF SaveVoucher
  <2>2. waiting' \in [Operations -> BOOLEAN]
    <3>1. UNCHANGED waiting \/ waiting' = [waiting EXCEPT ![job[h]] = FALSE]
      BY <1>5 DEF SaveVoucher
    <3> QED BY <3>1, SetFlag
  <2>3. requires_attention' \in [Operations -> BOOLEAN]
    <3>0. job[h] \in Operations
      BY <1>5 DEF SaveVoucher
    <3> DEFINE b == requires_attention[job[h]] \/ UsedUp(voucher_attempts[job[h]])
    <3>1. b \in BOOLEAN
      OBVIOUS
    <3>2. \/ UNCHANGED requires_attention
          \/ requires_attention' = [requires_attention EXCEPT ![job[h]] = b]
      BY <1>5 DEF SaveVoucher
    <3> HIDE DEF b
    <3> QED BY <3>1, <3>2
  <2> QED BY <1>5, <2>1, <2>2, <2>3 DEF SaveVoucher, Release, Touch, countVars, airpayVars,
                                        strayVars
<1>6. ASSUME NEW h \in Handlers, VoucherTaken(h) PROVE TypeOK'
  BY <1>6 DEF VoucherTaken, Release, rowVars, countVars, ownerVars, handlerVars, airpayVars,
              strayVars
<1>7. ASSUME NEW h \in Handlers, AnswerPay(h) PROVE TypeOK'
  BY <1>7 DEF AnswerPay, Outcomes, Answers, rowVars, countVars, ownerVars, handlerVars,
              airpayVars, strayVars
<1>8. ASSUME NEW h \in Handlers, PayTimesOut(h) PROVE TypeOK'
  <2>1. late' \in [Operations -> BOOLEAN] /\ pc' \in [Handlers -> Step]
    <3>1. UNCHANGED late \/ late' = [late EXCEPT ![job[h]] = TRUE]
      BY <1>8 DEF PayTimesOut
    <3>2. pc' = [pc EXCEPT ![h] = "saving_payment"]
      BY <1>8 DEF PayTimesOut
    <3>3. late' \in [Operations -> BOOLEAN]
      BY <3>1, SetFlag
    <3> QED BY <3>2, <3>3
  <2>2. answer' \in [Handlers -> Answer]
    BY <1>8 DEF PayTimesOut
  <2> QED BY <1>8, <2>1, <2>2 DEF PayTimesOut, rowVars, countVars, ownerVars, strayVars
<1>9. ASSUME NEW h \in Handlers, AnswerVoucher(h) PROVE TypeOK'
  <2>1. issued' \in [Operations -> Codes \cup {NoCode}]
    BY <1>9 DEF AnswerVoucher, Deliver
  <2>2. \E a \in {"code", "no_code", "error"} : answer' = [answer EXCEPT ![h] = a]
    BY <1>9 DEF AnswerVoucher
  <2>3. voucher_calls' \in [Operations -> Nat]
    BY <1>9 DEF AnswerVoucher
  <2> QED BY <1>9, <2>1, <2>2, <2>3 DEF AnswerVoucher, Deliver, rowVars, countVars, ownerVars,
               strayVars
<1>10. ASSUME NEW h \in Handlers, Dies(h) PROVE TypeOK'
  <2>1. late' \in [Operations -> BOOLEAN]
    <3>1. UNCHANGED late \/ late' = [late EXCEPT ![job[h]] = TRUE]
      BY <1>10 DEF Dies
    <3> QED BY <3>1, SetFlag
  <2>2. /\ pc' \in [Handlers -> Step] /\ answer' \in [Handlers -> Answer]
        /\ job' \in [Handlers -> Operations \cup {NoOperation}]
    BY <1>10 DEF Dies, Release
  <2> QED BY <1>10, <2>1, <2>2 DEF Dies, rowVars, countVars, ownerVars, strayVars
<1>11. ASSUME NEW h \in Handlers, NEW o \in Operations, Check(h, o) PROVE TypeOK'
  BY <1>11 DEF Check, Acquire, Touch, rowVars, countVars, ownerVars, handlerVars, airpayVars,
               strayVars
<1>12. ASSUME NEW h \in Handlers, NEW o \in Operations, Pay(h, o) PROVE TypeOK'
  BY <1>12 DEF Pay, Acquire, Touch, rowVars, countVars, ownerVars, handlerVars, airpayVars,
               strayVars
<1>13. ASSUME NEW h \in Handlers, NEW o \in Operations, Reconcile(h, o) PROVE TypeOK'
  BY <1>13 DEF Reconcile, Acquire, CountPayAttempt, Touch, rowVars, countVars, ownerVars,
               handlerVars, airpayVars, strayVars
<1>14. ASSUME NEW h \in Handlers, NEW o \in Operations, FetchVoucher(h, o) PROVE TypeOK'
  BY <1>14 DEF FetchVoucher, Acquire, Touch, rowVars, countVars, ownerVars, handlerVars,
               airpayVars, strayVars
<1>15. ASSUME NEW o \in Operations, Prepare(o) PROVE TypeOK'
  BY <1>15 DEF Prepare, rowVars, countVars, ownerVars, handlerVars, airpayVars, strayVars
<1>16. ASSUME NEW o \in Operations, GiveUpPay(o) PROVE TypeOK'
  BY <1>16 DEF GiveUpPay, RaiseAttention, Touch, rowVars, countVars, ownerVars, handlerVars,
               airpayVars, strayVars
<1>17. ASSUME NEW o \in Operations, GiveUpVoucher(o) PROVE TypeOK'
  BY <1>17 DEF GiveUpVoucher, RaiseAttention, Touch, rowVars, countVars, ownerVars, handlerVars,
               airpayVars, strayVars
<1>18. ASSUME NEW o \in Operations, Show(o) PROVE TypeOK'
  BY <1>18 DEF Show, rowVars, countVars, ownerVars, handlerVars, airpayVars, strayVars
<1>19. ASSUME NEW o \in Operations, VerifyUnpaid(o) PROVE TypeOK'
  BY <1>19 DEF VerifyUnpaid, rowVars, countVars, ownerVars, handlerVars, airpayVars, strayVars
<1>20. ASSUME NEW o \in Operations, ConfirmFailed(o) PROVE TypeOK'
  BY <1>20 DEF ConfirmFailed, Decide, rowVars, countVars, ownerVars, handlerVars, airpayVars,
               strayVars
<1>21. ASSUME NEW o \in Operations, RecordSuccess(o) PROVE TypeOK'
  BY <1>21 DEF RecordSuccess, Decide, rowVars, countVars, ownerVars, handlerVars, airpayVars,
               strayVars
<1>22. ASSUME NEW o \in Operations, LateArrives(o) PROVE TypeOK'
  BY <1>22 DEF LateArrives, Outcomes, rowVars, countVars, ownerVars, handlerVars, airpayVars,
               strayVars
<1>23. ASSUME NEW o \in Operations, AirpaySettles(o) PROVE TypeOK'
  BY <1>23 DEF AirpaySettles, rowVars, countVars, ownerVars, handlerVars, airpayVars, strayVars
<1>24. ASSUME NEW o \in Operations, BecomeDue(o) PROVE TypeOK'
  BY <1>24 DEF BecomeDue, rowVars, countVars, ownerVars, handlerVars, airpayVars, strayVars
<1>25. ASSUME NEW o \in Operations, Expire(o) PROVE TypeOK'
  BY <1>25 DEF Expire, rowVars, countVars, ownerVars, handlerVars, airpayVars, strayVars
<1>26. ASSUME NEW h \in Handlers, LosesSession(h) PROVE TypeOK'
  BY <1>26 DEF LosesSession, Release, rowVars, countVars, ownerVars, handlerVars, airpayVars,
               strayVars
<1>27. ASSUME NEW o \in Operations, StrayPays(o) PROVE TypeOK'
  <2>1. unsent_pays' \in [Operations -> Nat] /\ pay_calls' \in [Operations -> Nat]
    BY <1>27 DEF StrayPays
  <2>2. late' \in [Operations -> BOOLEAN]
    <3>1. UNCHANGED late \/ late' = [late EXCEPT ![o] = TRUE]
      BY <1>27 DEF StrayPays
    <3> QED BY <3>1, SetFlag
  <2> QED BY <1>27, <2>1, <2>2 DEF StrayPays, rowVars, countVars, ownerVars, handlerVars
<1>28. ASSUME NEW o \in Operations, StrayFetches(o) PROVE TypeOK'
  <2>1. unsent_fetches' \in [Operations -> Nat] /\ voucher_calls' \in [Operations -> Nat]
    BY <1>28 DEF StrayFetches
  <2>2. issued' \in [Operations -> Codes \cup {NoCode}]
    BY <1>28 DEF StrayFetches, Deliver
  <2> QED BY <1>28, <2>1, <2>2 DEF StrayFetches, rowVars, countVars, ownerVars, handlerVars
<1>29. ASSUME NEW o \in Operations, StrayDies(o) PROVE TypeOK'
  <2>1. unsent_pays' \in [Operations -> Nat] /\ unsent_fetches' \in [Operations -> Nat]
    <3>1. CASE /\ unsent_pays[o] > 0 /\ unsent_pays' = [unsent_pays EXCEPT ![o] = @ - 1]
               /\ UNCHANGED unsent_fetches
      BY <3>1
    <3>2. CASE /\ unsent_fetches[o] > 0 /\ unsent_fetches' = [unsent_fetches EXCEPT ![o] = @ - 1]
               /\ UNCHANGED unsent_pays
      BY <3>2
    <3> QED BY <1>29, <3>1, <3>2 DEF StrayDies
  <2> QED BY <1>29, <2>1 DEF StrayDies, rowVars, countVars, ownerVars, handlerVars
<1>30. CASE UNCHANGED vars
  BY <1>30 DEF vars, rowVars, countVars, ownerVars, handlerVars, airpayVars, strayVars
<1> QED
  BY <1>1, <1>2, <1>3, <1>4, <1>5, <1>6, <1>7, <1>8, <1>9, <1>10, <1>11, <1>12, <1>13, <1>14,
     <1>15, <1>16, <1>17, <1>18, <1>19, <1>20, <1>21, <1>22, <1>23, <1>24, <1>25, <1>26, <1>27, <1>28,
     <1>29, <1>30 DEF Next, HandlerStep, StrayStep,
         Recover

LEMMA LockStep ==
  ASSUME TypeOK, LockInv, OwnerInv, [Next]_vars
  PROVE  LockInv'
<1> USE NoOperationAssumption DEF TypeOK, LockInv, OwnerInv, Free, Paying, Fetching, MissesCode, BeforePay, Checkable
<1>1. ASSUME NEW h \in Handlers, SaveCheck(h) PROVE LockInv'
  BY <1>1 DEF SaveCheck, Release, Touch, rowVars, countVars, ownerVars, handlerVars, airpayVars
<1>2. ASSUME NEW h \in Handlers, CountFirstPay(h) PROVE LockInv'
  BY <1>2 DEF CountFirstPay, CountPayAttempt, Touch, rowVars, countVars, ownerVars, handlerVars,
              airpayVars
<1>3. ASSUME NEW h \in Handlers, SendPay(h) PROVE LockInv'
  BY <1>3 DEF SendPay, rowVars, countVars, ownerVars, handlerVars, airpayVars
<1>4. ASSUME NEW h \in Handlers, SavePayment(h) PROVE LockInv'
  BY <1>4 DEF SavePayment, Release, Touch, rowVars, countVars, ownerVars, handlerVars, airpayVars
<1>5. ASSUME NEW h \in Handlers, SaveVoucher(h) PROVE LockInv'
  BY <1>5 DEF SaveVoucher, Release, Touch, rowVars, countVars, ownerVars, handlerVars, airpayVars
<1>6. ASSUME NEW h \in Handlers, VoucherTaken(h) PROVE LockInv'
  BY <1>6 DEF VoucherTaken, Release, rowVars, countVars, ownerVars, handlerVars, airpayVars
<1>7. ASSUME NEW h \in Handlers, AnswerPay(h) PROVE LockInv'
  BY <1>7 DEF AnswerPay, Outcomes, Answers, rowVars, countVars, ownerVars, handlerVars, airpayVars
<1>8. ASSUME NEW h \in Handlers, PayTimesOut(h) PROVE LockInv'
  BY <1>8 DEF PayTimesOut, rowVars, countVars, ownerVars, handlerVars, airpayVars
<1>9. ASSUME NEW h \in Handlers, AnswerVoucher(h) PROVE LockInv'
  BY <1>9 DEF AnswerVoucher, Deliver, rowVars, countVars, ownerVars, handlerVars, airpayVars
<1>10. ASSUME NEW h \in Handlers, Dies(h) PROVE LockInv'
  BY <1>10 DEF Dies, Release, rowVars, countVars, ownerVars, handlerVars, airpayVars
<1>11. ASSUME NEW h \in Handlers, NEW o \in Operations, Check(h, o) PROVE LockInv'
  BY <1>11 DEF Check, Acquire, Touch, rowVars, countVars, ownerVars, handlerVars, airpayVars
<1>12. ASSUME NEW h \in Handlers, NEW o \in Operations, Pay(h, o) PROVE LockInv'
  BY <1>12 DEF Pay, Acquire, Touch, rowVars, countVars, ownerVars, handlerVars, airpayVars
<1>13. ASSUME NEW h \in Handlers, NEW o \in Operations, Reconcile(h, o) PROVE LockInv'
  BY <1>13 DEF Reconcile, Acquire, CountPayAttempt, Touch, rowVars, countVars, ownerVars,
               handlerVars, airpayVars
<1>14. ASSUME NEW h \in Handlers, NEW o \in Operations, FetchVoucher(h, o) PROVE LockInv'
  BY <1>14 DEF FetchVoucher, Acquire, Touch, rowVars, countVars, ownerVars, handlerVars, airpayVars
<1>15. ASSUME NEW o \in Operations, Prepare(o) PROVE LockInv'
  BY <1>15 DEF Prepare, rowVars, countVars, ownerVars, handlerVars, airpayVars
<1>16. ASSUME NEW o \in Operations, GiveUpPay(o) PROVE LockInv'
  BY <1>16 DEF GiveUpPay, RaiseAttention, Touch, rowVars, countVars, ownerVars, handlerVars,
               airpayVars
<1>17. ASSUME NEW o \in Operations, GiveUpVoucher(o) PROVE LockInv'
  BY <1>17 DEF GiveUpVoucher, RaiseAttention, Touch, rowVars, countVars, ownerVars, handlerVars,
               airpayVars
<1>18. ASSUME NEW o \in Operations, Show(o) PROVE LockInv'
  BY <1>18 DEF Show, rowVars, countVars, ownerVars, handlerVars, airpayVars
<1>19. ASSUME NEW o \in Operations, VerifyUnpaid(o) PROVE LockInv'
  BY <1>19 DEF VerifyUnpaid, rowVars, countVars, ownerVars, handlerVars, airpayVars
<1>20. ASSUME NEW o \in Operations, ConfirmFailed(o) PROVE LockInv'
  BY <1>20 DEF ConfirmFailed, Decide, rowVars, countVars, ownerVars, handlerVars, airpayVars
<1>21. ASSUME NEW o \in Operations, RecordSuccess(o) PROVE LockInv'
  BY <1>21 DEF RecordSuccess, Decide, rowVars, countVars, ownerVars, handlerVars, airpayVars
<1>22. ASSUME NEW o \in Operations, LateArrives(o) PROVE LockInv'
  BY <1>22 DEF LateArrives, Outcomes, rowVars, countVars, ownerVars, handlerVars, airpayVars
<1>23. ASSUME NEW o \in Operations, AirpaySettles(o) PROVE LockInv'
  BY <1>23 DEF AirpaySettles, rowVars, countVars, ownerVars, handlerVars, airpayVars
<1>24. ASSUME NEW o \in Operations, BecomeDue(o) PROVE LockInv'
  BY <1>24 DEF BecomeDue, rowVars, countVars, ownerVars, handlerVars, airpayVars
<1>25. ASSUME NEW o \in Operations, Expire(o) PROVE LockInv'
  BY <1>25 DEF Expire, rowVars, countVars, ownerVars, handlerVars, airpayVars
<1>26. ASSUME NEW h \in Handlers, LosesSession(h) PROVE LockInv'
  BY <1>26 DEF LosesSession, Release, rowVars, countVars, ownerVars, handlerVars, airpayVars
<1>27. ASSUME NEW o \in Operations, StrayPays(o) PROVE LockInv'
  BY <1>27 DEF StrayPays, rowVars, countVars, ownerVars, handlerVars, airpayVars
<1>28. ASSUME NEW o \in Operations, StrayFetches(o) PROVE LockInv'
  BY <1>28 DEF StrayFetches, Deliver, rowVars, countVars, ownerVars, handlerVars, airpayVars
<1>29. ASSUME NEW o \in Operations, StrayDies(o) PROVE LockInv'
  BY <1>29 DEF StrayDies, rowVars, countVars, ownerVars, handlerVars, airpayVars
<1>30. CASE UNCHANGED vars
  BY <1>30 DEF vars, rowVars, countVars, ownerVars, handlerVars, airpayVars
<1> QED
  BY <1>1, <1>2, <1>3, <1>4, <1>5, <1>6, <1>7, <1>8, <1>9, <1>10, <1>11, <1>12, <1>13, <1>14,
     <1>15, <1>16, <1>17, <1>18, <1>19, <1>20, <1>21, <1>22, <1>23, <1>24, <1>25, <1>26, <1>27, <1>28,
     <1>29, <1>30 DEF Next, HandlerStep, StrayStep,
         Recover

LEMMA OwnerStep ==
  ASSUME TypeOK, LockInv, OwnerInv, [Next]_vars
  PROVE  OwnerInv'
<1> USE DEF TypeOK, LockInv, OwnerInv, Free, Paying, Fetching, MissesCode, BeforePay, Checkable
<1>1. ASSUME NEW h \in Handlers, SaveCheck(h) PROVE OwnerInv'
  BY <1>1 DEF SaveCheck, Release, Touch, rowVars, countVars, ownerVars, handlerVars, airpayVars
<1>2. ASSUME NEW h \in Handlers, CountFirstPay(h) PROVE OwnerInv'
  BY <1>2 DEF CountFirstPay, CountPayAttempt, Touch, rowVars, countVars, ownerVars, handlerVars,
              airpayVars
<1>3. ASSUME NEW h \in Handlers, SendPay(h) PROVE OwnerInv'
  BY <1>3 DEF SendPay, rowVars, countVars, ownerVars, handlerVars, airpayVars
<1>4. ASSUME NEW h \in Handlers, SavePayment(h) PROVE OwnerInv'
  BY <1>4 DEF SavePayment, Release, Touch, SavedState, NeedsAttention, UsedUp, rowVars, countVars,
              ownerVars, handlerVars, airpayVars
<1>5. ASSUME NEW h \in Handlers, SaveVoucher(h) PROVE OwnerInv'
  BY <1>5 DEF SaveVoucher, Release, Touch, rowVars, countVars, ownerVars, handlerVars, airpayVars
<1>6. ASSUME NEW h \in Handlers, VoucherTaken(h) PROVE OwnerInv'
  BY <1>6 DEF VoucherTaken, Release, rowVars, countVars, ownerVars, handlerVars, airpayVars
<1>7. ASSUME NEW h \in Handlers, AnswerPay(h) PROVE OwnerInv'
  BY <1>7 DEF AnswerPay, Outcomes, Answers, rowVars, countVars, ownerVars, handlerVars, airpayVars
<1>8. ASSUME NEW h \in Handlers, PayTimesOut(h) PROVE OwnerInv'
  BY <1>8 DEF PayTimesOut, rowVars, countVars, ownerVars, handlerVars, airpayVars
<1>9. ASSUME NEW h \in Handlers, AnswerVoucher(h) PROVE OwnerInv'
  BY <1>9 DEF AnswerVoucher, Deliver, rowVars, countVars, ownerVars, handlerVars, airpayVars
<1>10. ASSUME NEW h \in Handlers, Dies(h) PROVE OwnerInv'
  BY <1>10 DEF Dies, Release, rowVars, countVars, ownerVars, handlerVars, airpayVars
<1>11. ASSUME NEW h \in Handlers, NEW o \in Operations, Check(h, o) PROVE OwnerInv'
  BY <1>11 DEF Check, Acquire, Touch, rowVars, countVars, ownerVars, handlerVars, airpayVars
<1>12. ASSUME NEW h \in Handlers, NEW o \in Operations, Pay(h, o) PROVE OwnerInv'
  BY <1>12 DEF Pay, Acquire, Touch, rowVars, countVars, ownerVars, handlerVars, airpayVars
<1>13. ASSUME NEW h \in Handlers, NEW o \in Operations, Reconcile(h, o) PROVE OwnerInv'
  BY <1>13 DEF Reconcile, Acquire, CountPayAttempt, Touch, rowVars, countVars, ownerVars,
               handlerVars, airpayVars
<1>14. ASSUME NEW h \in Handlers, NEW o \in Operations, FetchVoucher(h, o) PROVE OwnerInv'
  BY <1>14 DEF FetchVoucher, Acquire, Touch, rowVars, countVars, ownerVars, handlerVars, airpayVars
<1>15. ASSUME NEW o \in Operations, Prepare(o) PROVE OwnerInv'
  BY <1>15 DEF Prepare, rowVars, countVars, ownerVars, handlerVars, airpayVars
<1>16. ASSUME NEW o \in Operations, GiveUpPay(o) PROVE OwnerInv'
  BY <1>16 DEF GiveUpPay, RaiseAttention, Touch, rowVars, countVars, ownerVars, handlerVars,
               airpayVars
<1>17. ASSUME NEW o \in Operations, GiveUpVoucher(o) PROVE OwnerInv'
  BY <1>17 DEF GiveUpVoucher, RaiseAttention, Touch, rowVars, countVars, ownerVars, handlerVars,
               airpayVars
<1>18. ASSUME NEW o \in Operations, Show(o) PROVE OwnerInv'
  BY <1>18 DEF Show, rowVars, countVars, ownerVars, handlerVars, airpayVars
<1>19. ASSUME NEW o \in Operations, VerifyUnpaid(o) PROVE OwnerInv'
  BY <1>19 DEF VerifyUnpaid, rowVars, countVars, ownerVars, handlerVars, airpayVars
<1>20. ASSUME NEW o \in Operations, ConfirmFailed(o) PROVE OwnerInv'
  BY <1>20 DEF ConfirmFailed, Decide, Refusable, rowVars, countVars, ownerVars, handlerVars,
               airpayVars
<1>21. ASSUME NEW o \in Operations, RecordSuccess(o) PROVE OwnerInv'
  <2>1. /\ state' = [state EXCEPT ![o] = "paid"]
        /\ UNCHANGED countVars
        /\ requires_attention' = [requires_attention EXCEPT ![o] = FALSE]
    BY <1>21 DEF RecordSuccess, Decide
  <2>2. \E d \in {"record_code", "record_success"} : decision' = [decision EXCEPT ![o] = d]
    BY <1>21 DEF RecordSuccess, Decide
  <2>3. \A q \in Operations \ {o} : evidence'[q] = evidence[q] /\ pin_code'[q] = pin_code[q]
    BY <1>21 DEF RecordSuccess, Decide
  <2>4. ~ MissesCode(o)'
    BY <1>21, NoCodeAssumption DEF RecordSuccess, Decide
  <2> QED BY <2>1, <2>2, <2>3, <2>4 DEF countVars
<1>22. ASSUME NEW o \in Operations, LateArrives(o) PROVE OwnerInv'
  BY <1>22 DEF LateArrives, Outcomes, rowVars, countVars, ownerVars, handlerVars, airpayVars
<1>23. ASSUME NEW o \in Operations, AirpaySettles(o) PROVE OwnerInv'
  BY <1>23 DEF AirpaySettles, rowVars, countVars, ownerVars, handlerVars, airpayVars
<1>24. ASSUME NEW o \in Operations, BecomeDue(o) PROVE OwnerInv'
  BY <1>24 DEF BecomeDue, rowVars, countVars, ownerVars, handlerVars, airpayVars
<1>25. ASSUME NEW o \in Operations, Expire(o) PROVE OwnerInv'
  BY <1>25 DEF Expire, rowVars, countVars, ownerVars, handlerVars, airpayVars
<1>26. ASSUME NEW h \in Handlers, LosesSession(h) PROVE OwnerInv'
  BY <1>26 DEF LosesSession, Release, rowVars, countVars, ownerVars, handlerVars, airpayVars
<1>27. ASSUME NEW o \in Operations, StrayPays(o) PROVE OwnerInv'
  BY <1>27 DEF StrayPays, rowVars, countVars, ownerVars, handlerVars, airpayVars
<1>28. ASSUME NEW o \in Operations, StrayFetches(o) PROVE OwnerInv'
  BY <1>28 DEF StrayFetches, Deliver, rowVars, countVars, ownerVars, handlerVars, airpayVars
<1>29. ASSUME NEW o \in Operations, StrayDies(o) PROVE OwnerInv'
  BY <1>29 DEF StrayDies, rowVars, countVars, ownerVars, handlerVars, airpayVars
<1>30. CASE UNCHANGED vars
  BY <1>30 DEF vars, rowVars, countVars, ownerVars, handlerVars, airpayVars
<1> QED
  BY <1>1, <1>2, <1>3, <1>4, <1>5, <1>6, <1>7, <1>8, <1>9, <1>10, <1>11, <1>12, <1>13, <1>14,
     <1>15, <1>16, <1>17, <1>18, <1>19, <1>20, <1>21, <1>22, <1>23, <1>24, <1>25, <1>26, <1>27, <1>28,
     <1>29, <1>30 DEF Next, HandlerStep, StrayStep,
         Recover

(* Sums of calls made and calls yet to be made.                            *)
LEMMA CallSums ==
  ASSUME NEW m \in Nat, NEW k \in Nat, NEW n \in Nat
  PROVE  /\ m + k < n => m + (k + 1) <= n
         /\ m + k <= n /\ n = 0 => m = 0 /\ k = 0
         /\ m + k < n /\ n <= 1 => m = 0
         /\ m + k <= n /\ k > 0 => (m + 1) + (k - 1) <= n /\ m + (k - 1) <= n
         /\ m + k <= n /\ k > 0 /\ m > 0 => n > 1
         /\ m + k < n /\ k > 0 => (m + 1) + (k - 1) < n /\ m + (k - 1) < n
OBVIOUS

(* One that was counted is made.                                           *)
LEMMA OneMoreCall ==
  ASSUME NEW m \in Nat, NEW k \in Nat, NEW n \in Nat, m + k < n
  PROVE  (m + 1) + k <= n
OBVIOUS

LEMMA CountStep ==
  ASSUME TypeOK, LockInv, OwnerInv, CountInv, [Next]_vars
  PROVE  CountInv'
<1> USE MaxRecoveryAssumption DEF TypeOK, LockInv, OwnerInv, CountInv, Free, Paying, Fetching, MissesCode, BeforePay, Checkable, UsedUp
<1>1. ASSUME NEW h \in Handlers, SaveCheck(h) PROVE CountInv'
  BY <1>1 DEF SaveCheck, Release, Touch, rowVars, countVars, ownerVars, handlerVars, airpayVars,
              strayVars
<1>2. ASSUME NEW h \in Handlers, CountFirstPay(h) PROVE CountInv'
  BY <1>2 DEF CountFirstPay, CountPayAttempt, Touch, rowVars, countVars, ownerVars, handlerVars,
              airpayVars, strayVars
<1>3. ASSUME NEW h \in Handlers, SendPay(h) PROVE CountInv'
  BY <1>3 DEF SendPay, rowVars, countVars, ownerVars, handlerVars, airpayVars, strayVars
<1>4. ASSUME NEW h \in Handlers, SavePayment(h) PROVE CountInv'
  BY <1>4 DEF SavePayment, Release, Touch, rowVars, countVars, ownerVars, handlerVars, airpayVars,
              strayVars
<1>5. ASSUME NEW h \in Handlers, SaveVoucher(h) PROVE CountInv'
  BY <1>5 DEF SaveVoucher, Release, Touch, rowVars, countVars, ownerVars, handlerVars, airpayVars,
              strayVars
<1>6. ASSUME NEW h \in Handlers, VoucherTaken(h) PROVE CountInv'
  BY <1>6 DEF VoucherTaken, Release, rowVars, countVars, ownerVars, handlerVars, airpayVars,
              strayVars
<1>7. ASSUME NEW h \in Handlers, AnswerPay(h) PROVE CountInv'
  BY <1>7 DEF AnswerPay, Outcomes, Answers, rowVars, countVars, ownerVars, handlerVars,
              airpayVars, strayVars
<1>8. ASSUME NEW h \in Handlers, PayTimesOut(h) PROVE CountInv'
  BY <1>8 DEF PayTimesOut, rowVars, countVars, ownerVars, handlerVars, airpayVars, strayVars
<1>9. ASSUME NEW h \in Handlers, AnswerVoucher(h) PROVE CountInv'
  <2>1. pc[h] = "fetching" /\ pc' = [pc EXCEPT ![h] = "saving_code"]
    BY <1>9 DEF AnswerVoucher
  <2>2. PICK o \in Operations : o = job[h]
    <3>1. job[h] \in Operations
      BY <2>1, AtWork
    <3> QED  BY <3>1
  <2>3. voucher_calls' = [voucher_calls EXCEPT ![o] = @ + 1]
    BY <1>9, <2>2 DEF AnswerVoucher
  <2>4. UNCHANGED <<job, pay_attempts, voucher_attempts, pay_calls, unsent_pays, unsent_fetches>>
    BY <1>9 DEF AnswerVoucher, rowVars, countVars, strayVars
  <2>5. voucher_calls'[o] + unsent_fetches'[o] <= voucher_attempts'[o]
    <3>1. /\ voucher_calls[o] \in Nat /\ unsent_fetches[o] \in Nat /\ voucher_attempts[o] \in Nat
          /\ voucher_calls[o] + unsent_fetches[o] < voucher_attempts[o]
      BY <2>1, <2>2
    <3>2. /\ voucher_calls'[o] = voucher_calls[o] + 1
          /\ unsent_fetches'[o] = unsent_fetches[o] /\ voucher_attempts'[o] = voucher_attempts[o]
      BY <2>3, <2>4
    <3> QED  BY <3>1, <3>2, OneMoreCall
  <2>6. \A q \in Operations : q # o => voucher_calls'[q] = voucher_calls[q]
    BY <2>3
  <2>7. \A g \in Handlers :
           pc'[g] \in {"committed", "counted", "pay_sent", "fetching"} =>
               pc'[g] = pc[g] /\ job[g] \in Operations /\ (pc[g] = "fetching" => job[g] # o)
    <3> SUFFICES ASSUME NEW g \in Handlers,
                        pc'[g] \in {"committed", "counted", "pay_sent", "fetching"}
                 PROVE  pc'[g] = pc[g] /\ job[g] \in Operations /\ job[g] # o
      OBVIOUS
    <3>1. g # h /\ pc'[g] = pc[g]
      BY <2>1
    <3>2. pc[g] # "idle"
      BY <3>1
    <3>3. job[g] \in Operations
      BY <3>2, AtWork
    <3>4. job[g] # o
      BY <3>1, <3>3, <2>2, NoOperationAssumption
    <3> QED  BY <3>1, <3>3, <3>4
  <2>8. /\ \A q \in Operations :
              /\ pay_calls'[q] + unsent_pays'[q] <= pay_attempts'[q]
              /\ voucher_calls'[q] + unsent_fetches'[q] <= voucher_attempts'[q]
              /\ pay_attempts'[q] <= MaxRecoveryAttempts
              /\ voucher_attempts'[q] <= MaxRecoveryAttempts
    BY <2>4, <2>5, <2>6
  <2>9. \A g \in Handlers :
           /\ pc'[g] = "committed" => pay_attempts'[job'[g]] = 0
           /\ pc'[g] = "counted" => pay_calls'[job'[g]] + unsent_pays'[job'[g]] < pay_attempts'[job'[g]]
           /\ pc'[g] = "pay_sent" => pay_calls'[job'[g]] > 0
           /\ pc'[g] = "fetching" =>
                 voucher_calls'[job'[g]] + unsent_fetches'[job'[g]] < voucher_attempts'[job'[g]]
    BY <2>4, <2>6, <2>7
  <2> QED  BY <2>8, <2>9
<1>10. ASSUME NEW h \in Handlers, Dies(h) PROVE CountInv'
  BY <1>10 DEF Dies, Release, rowVars, countVars, ownerVars, handlerVars, airpayVars, strayVars
<1>11. ASSUME NEW h \in Handlers, NEW o \in Operations, Check(h, o) PROVE CountInv'
  BY <1>11 DEF Check, Acquire, Touch, rowVars, countVars, ownerVars, handlerVars, airpayVars,
               strayVars
<1>12. ASSUME NEW h \in Handlers, NEW o \in Operations, Pay(h, o) PROVE CountInv'
  BY <1>12 DEF Pay, Acquire, Touch, rowVars, countVars, ownerVars, handlerVars, airpayVars,
               strayVars
<1>13. ASSUME NEW h \in Handlers, NEW o \in Operations, Reconcile(h, o) PROVE CountInv'
  BY <1>13 DEF Reconcile, Acquire, CountPayAttempt, Touch, rowVars, countVars, ownerVars,
               handlerVars, airpayVars, strayVars
<1>14. ASSUME NEW h \in Handlers, NEW o \in Operations, FetchVoucher(h, o) PROVE CountInv'
  BY <1>14 DEF FetchVoucher, Acquire, Touch, rowVars, countVars, ownerVars, handlerVars,
               airpayVars, strayVars
<1>15. ASSUME NEW o \in Operations, Prepare(o) PROVE CountInv'
  BY <1>15 DEF Prepare, rowVars, countVars, ownerVars, handlerVars, airpayVars, strayVars
<1>16. ASSUME NEW o \in Operations, GiveUpPay(o) PROVE CountInv'
  BY <1>16 DEF GiveUpPay, RaiseAttention, Touch, rowVars, countVars, ownerVars, handlerVars,
               airpayVars, strayVars
<1>17. ASSUME NEW o \in Operations, GiveUpVoucher(o) PROVE CountInv'
  BY <1>17 DEF GiveUpVoucher, RaiseAttention, Touch, rowVars, countVars, ownerVars, handlerVars,
               airpayVars, strayVars
<1>18. ASSUME NEW o \in Operations, Show(o) PROVE CountInv'
  BY <1>18 DEF Show, rowVars, countVars, ownerVars, handlerVars, airpayVars, strayVars
<1>19. ASSUME NEW o \in Operations, VerifyUnpaid(o) PROVE CountInv'
  BY <1>19 DEF VerifyUnpaid, rowVars, countVars, ownerVars, handlerVars, airpayVars, strayVars
<1>20. ASSUME NEW o \in Operations, ConfirmFailed(o) PROVE CountInv'
  BY <1>20 DEF ConfirmFailed, Decide, rowVars, countVars, ownerVars, handlerVars, airpayVars,
               strayVars
<1>21. ASSUME NEW o \in Operations, RecordSuccess(o) PROVE CountInv'
  BY <1>21 DEF RecordSuccess, Decide, rowVars, countVars, ownerVars, handlerVars, airpayVars,
               strayVars
<1>22. ASSUME NEW o \in Operations, LateArrives(o) PROVE CountInv'
  BY <1>22 DEF LateArrives, Outcomes, rowVars, countVars, ownerVars, handlerVars, airpayVars,
               strayVars
<1>23. ASSUME NEW o \in Operations, AirpaySettles(o) PROVE CountInv'
  BY <1>23 DEF AirpaySettles, rowVars, countVars, ownerVars, handlerVars, airpayVars, strayVars
<1>24. ASSUME NEW o \in Operations, BecomeDue(o) PROVE CountInv'
  BY <1>24 DEF BecomeDue, rowVars, countVars, ownerVars, handlerVars, airpayVars, strayVars
<1>25. ASSUME NEW o \in Operations, Expire(o) PROVE CountInv'
  BY <1>25 DEF Expire, rowVars, countVars, ownerVars, handlerVars, airpayVars, strayVars
<1>26. ASSUME NEW h \in Handlers, LosesSession(h) PROVE CountInv'
  <2>1. PICK o \in Operations : o = job[h]
    BY <1>26, NoOperationAssumption DEF LosesSession
  <2>2. /\ pay_calls[o] \in Nat /\ unsent_pays[o] \in Nat /\ pay_attempts[o] \in Nat
        /\ voucher_calls[o] \in Nat /\ unsent_fetches[o] \in Nat /\ voucher_attempts[o] \in Nat
    OBVIOUS
  <2>3. UNCHANGED <<pay_calls, voucher_calls, pay_attempts, voucher_attempts>>
    BY <1>26 DEF LosesSession, rowVars, countVars
  <2>4. \A g \in Handlers : pc'[g] # "idle" => g # h /\ pc'[g] = pc[g] /\ job'[g] = job[g] /\ job[g] # o
    BY <1>26, <2>1, NoOperationAssumption DEF LosesSession, Release
  <2>5. CASE pc[h] = "counted"
    <3>1. unsent_pays' = [unsent_pays EXCEPT ![o] = @ + 1] /\ UNCHANGED unsent_fetches
      BY <1>26, <2>1, <2>5 DEF LosesSession
    <3>2. pay_calls[o] + (unsent_pays[o] + 1) <= pay_attempts[o]
      BY <2>1, <2>2, <2>5, CallSums
    <3> QED BY <2>3, <2>4, <3>1, <3>2
  <2>6. CASE pc[h] = "fetching"
    <3>1. unsent_fetches' = [unsent_fetches EXCEPT ![o] = @ + 1] /\ UNCHANGED unsent_pays
      BY <1>26, <2>1, <2>6 DEF LosesSession
    <3>2. voucher_calls[o] + (unsent_fetches[o] + 1) <= voucher_attempts[o]
      BY <2>1, <2>2, <2>6, CallSums
    <3> QED BY <2>3, <2>4, <3>1, <3>2
  <2> QED BY <1>26, <2>5, <2>6 DEF LosesSession
<1>27. ASSUME NEW o \in Operations, StrayPays(o) PROVE CountInv'
  BY <1>27 DEF StrayPays, rowVars, countVars, ownerVars, handlerVars, airpayVars, strayVars
<1>28. ASSUME NEW o \in Operations, StrayFetches(o) PROVE CountInv'
  BY <1>28 DEF StrayFetches, Deliver, rowVars, countVars, ownerVars, handlerVars, airpayVars,
               strayVars
<1>29. ASSUME NEW o \in Operations, StrayDies(o) PROVE CountInv'
  <2>2. /\ pay_calls[o] \in Nat /\ unsent_pays[o] \in Nat /\ pay_attempts[o] \in Nat
        /\ voucher_calls[o] \in Nat /\ unsent_fetches[o] \in Nat /\ voucher_attempts[o] \in Nat
    OBVIOUS
  <2>3. UNCHANGED <<pay_calls, voucher_calls, pay_attempts, voucher_attempts, pc, job>>
    BY <1>29 DEF StrayDies, rowVars, countVars, handlerVars
  <2>4. CASE unsent_pays[o] > 0 /\ unsent_pays' = [unsent_pays EXCEPT ![o] = @ - 1] /\ UNCHANGED unsent_fetches
    <3>1. pay_calls[o] + (unsent_pays[o] - 1) <= pay_attempts[o]
      BY <2>2, <2>4, CallSums
    <3>2. pay_calls[o] + unsent_pays[o] < pay_attempts[o]
             => pay_calls[o] + (unsent_pays[o] - 1) < pay_attempts[o]
      BY <2>2, <2>4, CallSums
    <3>3. unsent_pays'[o] = unsent_pays[o] - 1 /\ \A q \in Operations \ {o} : unsent_pays'[q] = unsent_pays[q]
      BY <2>4
    <3> QED BY <2>3, <2>4, <3>1, <3>2, <3>3
  <2>5. CASE /\ unsent_fetches[o] > 0
             /\ unsent_fetches' = [unsent_fetches EXCEPT ![o] = @ - 1] /\ UNCHANGED unsent_pays
    <3>1. voucher_calls[o] + (unsent_fetches[o] - 1) <= voucher_attempts[o]
      BY <2>2, <2>5, CallSums
    <3>2. voucher_calls[o] + unsent_fetches[o] < voucher_attempts[o]
             => voucher_calls[o] + (unsent_fetches[o] - 1) < voucher_attempts[o]
      BY <2>2, <2>5, CallSums
    <3>3. /\ unsent_fetches'[o] = unsent_fetches[o] - 1
          /\ \A q \in Operations \ {o} : unsent_fetches'[q] = unsent_fetches[q]
      BY <2>5
    <3> QED BY <2>3, <2>5, <3>1, <3>2, <3>3
  <2> QED BY <1>29, <2>4, <2>5 DEF StrayDies
<1>30. CASE UNCHANGED vars
  BY <1>30 DEF vars, rowVars, countVars, ownerVars, handlerVars, airpayVars, strayVars
<1> QED
  BY <1>1, <1>2, <1>3, <1>4, <1>5, <1>6, <1>7, <1>8, <1>9, <1>10, <1>11, <1>12, <1>13, <1>14,
     <1>15, <1>16, <1>17, <1>18, <1>19, <1>20, <1>21, <1>22, <1>23, <1>24, <1>25, <1>26, <1>27, <1>28,
     <1>29, <1>30 DEF Next, HandlerStep, StrayStep,
         Recover

LEMMA AnswerStep ==
  ASSUME TypeOK, LockInv, CountInv, AnswerInv, [Next]_vars
  PROVE  AnswerInv'
<1> USE DEF TypeOK, LockInv, CountInv, AnswerInv, Free, Paying, Fetching
<1>1. ASSUME NEW h \in Handlers, SaveCheck(h) PROVE AnswerInv'
  BY <1>1 DEF SaveCheck, Release, Touch, rowVars, countVars, ownerVars, handlerVars, airpayVars
<1>2. ASSUME NEW h \in Handlers, CountFirstPay(h) PROVE AnswerInv'
  BY <1>2 DEF CountFirstPay, CountPayAttempt, Touch, rowVars, countVars, ownerVars, handlerVars,
              airpayVars
<1>3. ASSUME NEW h \in Handlers, SendPay(h) PROVE AnswerInv'
  <2>0. pc[h] = "counted"
    BY <1>3 DEF SendPay
  <2>1. PICK o \in Operations : o = job[h]
    <3>1. job[h] \in Operations
      BY <2>0, AtWork
    <3> QED  BY <3>1
  <2>2. /\ pay_calls[o] \in Nat /\ unsent_pays[o] \in Nat /\ pay_attempts[o] \in Nat
        /\ pay_calls[o] + unsent_pays[o] < pay_attempts[o]
    BY <1>3, <2>1 DEF SendPay
  <2>3. pay_attempts[o] <= 1 => pay_calls[o] = 0
    BY <2>2, CallSums
  <2>4. pay_attempts[o] <= 1 => remote[o] = "unpaid" /\ ~ late[o]
    BY <2>3
  <2> QED BY <1>3, <2>1, <2>2, <2>4 DEF SendPay, rowVars, countVars
<1>4. ASSUME NEW h \in Handlers, SavePayment(h) PROVE AnswerInv'
  BY <1>4 DEF SavePayment, Release, Touch, rowVars, countVars, ownerVars, handlerVars, airpayVars
<1>5. ASSUME NEW h \in Handlers, SaveVoucher(h) PROVE AnswerInv'
  BY <1>5 DEF SaveVoucher, Release, Touch, rowVars, countVars, ownerVars, handlerVars, airpayVars
<1>6. ASSUME NEW h \in Handlers, VoucherTaken(h) PROVE AnswerInv'
  BY <1>6 DEF VoucherTaken, Release, rowVars, countVars, ownerVars, handlerVars, airpayVars
<1>7. ASSUME NEW h \in Handlers, AnswerPay(h) PROVE AnswerInv'
  BY <1>7 DEF AnswerPay, Outcomes, Answers, rowVars, countVars, ownerVars, handlerVars, airpayVars
<1>8. ASSUME NEW h \in Handlers, PayTimesOut(h) PROVE AnswerInv'
  BY <1>8 DEF PayTimesOut, rowVars, countVars, ownerVars, handlerVars, airpayVars
<1>9. ASSUME NEW h \in Handlers, AnswerVoucher(h) PROVE AnswerInv'
  BY <1>9 DEF AnswerVoucher, Deliver, rowVars, countVars, ownerVars, handlerVars, airpayVars
<1>10. ASSUME NEW h \in Handlers, Dies(h) PROVE AnswerInv'
  BY <1>10 DEF Dies, Release, rowVars, countVars, ownerVars, handlerVars, airpayVars
<1>11. ASSUME NEW h \in Handlers, NEW o \in Operations, Check(h, o) PROVE AnswerInv'
  BY <1>11 DEF Check, Acquire, Touch, rowVars, countVars, ownerVars, handlerVars, airpayVars
<1>12. ASSUME NEW h \in Handlers, NEW o \in Operations, Pay(h, o) PROVE AnswerInv'
  BY <1>12 DEF Pay, Acquire, Touch, rowVars, countVars, ownerVars, handlerVars, airpayVars
<1>13. ASSUME NEW h \in Handlers, NEW o \in Operations, Reconcile(h, o) PROVE AnswerInv'
  BY <1>13 DEF Reconcile, Acquire, CountPayAttempt, Touch, rowVars, countVars, ownerVars,
               handlerVars, airpayVars
<1>14. ASSUME NEW h \in Handlers, NEW o \in Operations, FetchVoucher(h, o) PROVE AnswerInv'
  BY <1>14 DEF FetchVoucher, Acquire, Touch, rowVars, countVars, ownerVars, handlerVars, airpayVars
<1>15. ASSUME NEW o \in Operations, Prepare(o) PROVE AnswerInv'
  BY <1>15 DEF Prepare, rowVars, countVars, ownerVars, handlerVars, airpayVars
<1>16. ASSUME NEW o \in Operations, GiveUpPay(o) PROVE AnswerInv'
  BY <1>16 DEF GiveUpPay, RaiseAttention, Touch, rowVars, countVars, ownerVars, handlerVars,
               airpayVars
<1>17. ASSUME NEW o \in Operations, GiveUpVoucher(o) PROVE AnswerInv'
  BY <1>17 DEF GiveUpVoucher, RaiseAttention, Touch, rowVars, countVars, ownerVars, handlerVars,
               airpayVars
<1>18. ASSUME NEW o \in Operations, Show(o) PROVE AnswerInv'
  BY <1>18 DEF Show, rowVars, countVars, ownerVars, handlerVars, airpayVars
<1>19. ASSUME NEW o \in Operations, VerifyUnpaid(o) PROVE AnswerInv'
  BY <1>19 DEF VerifyUnpaid, rowVars, countVars, ownerVars, handlerVars, airpayVars
<1>20. ASSUME NEW o \in Operations, ConfirmFailed(o) PROVE AnswerInv'
  BY <1>20 DEF ConfirmFailed, Decide, rowVars, countVars, ownerVars, handlerVars, airpayVars
<1>21. ASSUME NEW o \in Operations, RecordSuccess(o) PROVE AnswerInv'
  BY <1>21 DEF RecordSuccess, Decide, rowVars, countVars, ownerVars, handlerVars, airpayVars
<1>22. ASSUME NEW o \in Operations, LateArrives(o) PROVE AnswerInv'
  BY <1>22 DEF LateArrives, Outcomes, rowVars, countVars, ownerVars, handlerVars, airpayVars
<1>23. ASSUME NEW o \in Operations, AirpaySettles(o) PROVE AnswerInv'
  BY <1>23 DEF AirpaySettles, rowVars, countVars, ownerVars, handlerVars, airpayVars
<1>24. ASSUME NEW o \in Operations, BecomeDue(o) PROVE AnswerInv'
  BY <1>24 DEF BecomeDue, rowVars, countVars, ownerVars, handlerVars, airpayVars
<1>25. ASSUME NEW o \in Operations, Expire(o) PROVE AnswerInv'
  BY <1>25 DEF Expire, rowVars, countVars, ownerVars, handlerVars, airpayVars
<1>26. ASSUME NEW h \in Handlers, LosesSession(h) PROVE AnswerInv'
  BY <1>26 DEF LosesSession, Release, rowVars, countVars, ownerVars, handlerVars, airpayVars
<1>27. ASSUME NEW o \in Operations, StrayPays(o) PROVE AnswerInv'
  <2>1. /\ pay_calls[o] \in Nat /\ unsent_pays[o] \in Nat /\ pay_attempts[o] \in Nat
        /\ unsent_pays[o] > 0 /\ pay_calls[o] + unsent_pays[o] <= pay_attempts[o]
        /\ pay_calls' = [pay_calls EXCEPT ![o] = pay_calls[o] + 1]
    BY <1>27 DEF StrayPays
  <2>2. pay_calls'[o] # 0 /\ (pay_calls[o] > 0 => pay_attempts[o] > 1)
    BY <2>1, CallSums
  <2>3. \A q \in Operations \ {o} : pay_calls'[q] = pay_calls[q] /\ late'[q] = late[q]
    BY <1>27, <2>1 DEF StrayPays
  <2>4. UNCHANGED <<pay_attempts, remote, pc, job, answer>>
    BY <1>27 DEF StrayPays, rowVars, countVars, handlerVars
  <2>5. ASSUME NEW q \in Operations, pay_calls'[q] = 0
        PROVE  remote[q] = "unpaid" /\ late'[q] = FALSE
    BY <2>2, <2>3, <2>5
  <2>6. ASSUME NEW h \in Handlers, pc[h] = "pay_sent", pay_attempts[job[h]] <= 1
        PROVE  remote[job[h]] = "unpaid" /\ late'[job[h]] = FALSE
    <3>1. PICK q \in Operations : q = job[h]
      BY <2>6, NoOperationAssumption
    <3>2. pay_calls[q] > 0 /\ pay_attempts[q] <= 1 /\ remote[q] = "unpaid" /\ ~ late[q]
      BY <2>6, <3>1
    <3>3. q # o
      BY <2>1, <2>2, <3>2
    <3> QED  BY <2>3, <3>1, <3>2, <3>3
  <2> HIDE DEF TypeOK, CountInv, LockInv
  <2> QED  BY <2>4, <2>5, <2>6
<1>28. ASSUME NEW o \in Operations, StrayFetches(o) PROVE AnswerInv'
  BY <1>28 DEF StrayFetches, Deliver, rowVars, countVars, ownerVars, handlerVars, airpayVars
<1>29. ASSUME NEW o \in Operations, StrayDies(o) PROVE AnswerInv'
  BY <1>29 DEF StrayDies, rowVars, countVars, ownerVars, handlerVars, airpayVars
<1>30. CASE UNCHANGED vars
  BY <1>30 DEF vars, rowVars, countVars, ownerVars, handlerVars, airpayVars
<1> QED
  BY <1>1, <1>2, <1>3, <1>4, <1>5, <1>6, <1>7, <1>8, <1>9, <1>10, <1>11, <1>12, <1>13, <1>14,
     <1>15, <1>16, <1>17, <1>18, <1>19, <1>20, <1>21, <1>22, <1>23, <1>24, <1>25, <1>26, <1>27, <1>28,
     <1>29, <1>30 DEF Next, HandlerStep, StrayStep,
         Recover

LEMMA OutcomeStep ==
  ASSUME TypeOK, LockInv, OwnerInv, AnswerInv, OutcomeInv, [Next]_vars
  PROVE  OutcomeInv'
<1> USE NoCodeAssumption DEF TypeOK, LockInv, OwnerInv, AnswerInv, OutcomeInv, Free, Paying, Fetching, MissesCode, BeforePay, Checkable
<1>1. ASSUME NEW h \in Handlers, SaveCheck(h) PROVE OutcomeInv'
  BY <1>1 DEF SaveCheck, Release, Touch, rowVars, countVars, ownerVars, handlerVars, airpayVars
<1>2. ASSUME NEW h \in Handlers, CountFirstPay(h) PROVE OutcomeInv'
  BY <1>2 DEF CountFirstPay, CountPayAttempt, Touch, rowVars, countVars, ownerVars, handlerVars,
              airpayVars
<1>3. ASSUME NEW h \in Handlers, SendPay(h) PROVE OutcomeInv'
  BY <1>3 DEF SendPay, rowVars, countVars, ownerVars, handlerVars, airpayVars
<1>4. ASSUME NEW h \in Handlers, SavePayment(h) PROVE OutcomeInv'
  BY <1>4 DEF SavePayment, Release, Touch, SavedState, rowVars, countVars, ownerVars, handlerVars,
              airpayVars
<1>5. ASSUME NEW h \in Handlers, SaveVoucher(h) PROVE OutcomeInv'
  BY <1>5 DEF SaveVoucher, Release, Touch, rowVars, countVars, ownerVars, handlerVars, airpayVars
<1>6. ASSUME NEW h \in Handlers, VoucherTaken(h) PROVE OutcomeInv'
  BY <1>6 DEF VoucherTaken, Release, rowVars, countVars, ownerVars, handlerVars, airpayVars
<1>7. ASSUME NEW h \in Handlers, AnswerPay(h) PROVE OutcomeInv'
  BY <1>7 DEF AnswerPay, Outcomes, Answers, rowVars, countVars, ownerVars, handlerVars, airpayVars
<1>8. ASSUME NEW h \in Handlers, PayTimesOut(h) PROVE OutcomeInv'
  BY <1>8 DEF PayTimesOut, rowVars, countVars, ownerVars, handlerVars, airpayVars
<1>9. ASSUME NEW h \in Handlers, AnswerVoucher(h) PROVE OutcomeInv'
  BY <1>9 DEF AnswerVoucher, Deliver, rowVars, countVars, ownerVars, handlerVars, airpayVars
<1>10. ASSUME NEW h \in Handlers, Dies(h) PROVE OutcomeInv'
  BY <1>10 DEF Dies, Release, rowVars, countVars, ownerVars, handlerVars, airpayVars
<1>11. ASSUME NEW h \in Handlers, NEW o \in Operations, Check(h, o) PROVE OutcomeInv'
  BY <1>11 DEF Check, Acquire, Touch, rowVars, countVars, ownerVars, handlerVars, airpayVars
<1>12. ASSUME NEW h \in Handlers, NEW o \in Operations, Pay(h, o) PROVE OutcomeInv'
  BY <1>12 DEF Pay, Acquire, Touch, rowVars, countVars, ownerVars, handlerVars, airpayVars
<1>13. ASSUME NEW h \in Handlers, NEW o \in Operations, Reconcile(h, o) PROVE OutcomeInv'
  BY <1>13 DEF Reconcile, Acquire, CountPayAttempt, Touch, rowVars, countVars, ownerVars,
               handlerVars, airpayVars
<1>14. ASSUME NEW h \in Handlers, NEW o \in Operations, FetchVoucher(h, o) PROVE OutcomeInv'
  BY <1>14 DEF FetchVoucher, Acquire, Touch, rowVars, countVars, ownerVars, handlerVars, airpayVars
<1>15. ASSUME NEW o \in Operations, Prepare(o) PROVE OutcomeInv'
  BY <1>15 DEF Prepare, rowVars, countVars, ownerVars, handlerVars, airpayVars
<1>16. ASSUME NEW o \in Operations, GiveUpPay(o) PROVE OutcomeInv'
  BY <1>16 DEF GiveUpPay, RaiseAttention, Touch, rowVars, countVars, ownerVars, handlerVars,
               airpayVars
<1>17. ASSUME NEW o \in Operations, GiveUpVoucher(o) PROVE OutcomeInv'
  BY <1>17 DEF GiveUpVoucher, RaiseAttention, Touch, rowVars, countVars, ownerVars, handlerVars,
               airpayVars
<1>18. ASSUME NEW o \in Operations, Show(o) PROVE OutcomeInv'
  BY <1>18 DEF Show, rowVars, countVars, ownerVars, handlerVars, airpayVars
<1>19. ASSUME NEW o \in Operations, VerifyUnpaid(o) PROVE OutcomeInv'
  BY <1>19 DEF VerifyUnpaid, rowVars, countVars, ownerVars, handlerVars, airpayVars
<1>20. ASSUME NEW o \in Operations, ConfirmFailed(o) PROVE OutcomeInv'
  BY <1>20 DEF ConfirmFailed, Decide, Refusable, rowVars, countVars, ownerVars, handlerVars,
               airpayVars
<1>21. ASSUME NEW o \in Operations, RecordSuccess(o) PROVE OutcomeInv'
  BY <1>21 DEF RecordSuccess, Decide, Resolvable, rowVars, countVars, ownerVars, handlerVars,
               airpayVars
<1>22. ASSUME NEW o \in Operations, LateArrives(o) PROVE OutcomeInv'
  BY <1>22 DEF LateArrives, Outcomes, rowVars, countVars, ownerVars, handlerVars, airpayVars
<1>23. ASSUME NEW o \in Operations, AirpaySettles(o) PROVE OutcomeInv'
  BY <1>23 DEF AirpaySettles, rowVars, countVars, ownerVars, handlerVars, airpayVars
<1>24. ASSUME NEW o \in Operations, BecomeDue(o) PROVE OutcomeInv'
  BY <1>24 DEF BecomeDue, rowVars, countVars, ownerVars, handlerVars, airpayVars
<1>25. ASSUME NEW o \in Operations, Expire(o) PROVE OutcomeInv'
  BY <1>25 DEF Expire, rowVars, countVars, ownerVars, handlerVars, airpayVars
<1>26. ASSUME NEW h \in Handlers, LosesSession(h) PROVE OutcomeInv'
  BY <1>26 DEF LosesSession, Release, rowVars, countVars, ownerVars, handlerVars, airpayVars
<1>27. ASSUME NEW o \in Operations, StrayPays(o) PROVE OutcomeInv'
  BY <1>27 DEF StrayPays, rowVars, countVars, ownerVars, handlerVars, airpayVars
<1>28. ASSUME NEW o \in Operations, StrayFetches(o) PROVE OutcomeInv'
  BY <1>28 DEF StrayFetches, Deliver, rowVars, countVars, ownerVars, handlerVars, airpayVars
<1>29. ASSUME NEW o \in Operations, StrayDies(o) PROVE OutcomeInv'
  BY <1>29 DEF StrayDies, rowVars, countVars, ownerVars, handlerVars, airpayVars
<1>30. CASE UNCHANGED vars
  BY <1>30 DEF vars, rowVars, countVars, ownerVars, handlerVars, airpayVars
<1> QED
  BY <1>1, <1>2, <1>3, <1>4, <1>5, <1>6, <1>7, <1>8, <1>9, <1>10, <1>11, <1>12, <1>13, <1>14,
     <1>15, <1>16, <1>17, <1>18, <1>19, <1>20, <1>21, <1>22, <1>23, <1>24, <1>25, <1>26, <1>27, <1>28,
     <1>29, <1>30 DEF Next, HandlerStep, StrayStep,
         Recover

LEMMA VerifiedStep ==
  ASSUME TypeOK, LockInv, OwnerInv, VerifiedInv, [Next]_vars
  PROVE  VerifiedInv'
<1> USE NoOperationAssumption DEF TypeOK, LockInv, VerifiedInv, Free, Paying, Fetching
<1>1. ASSUME NEW h \in Handlers, SaveCheck(h) PROVE VerifiedInv'
  BY <1>1 DEF SaveCheck, Release, Touch, rowVars, countVars, ownerVars, handlerVars, airpayVars,
              strayVars
<1>2. ASSUME NEW h \in Handlers, CountFirstPay(h) PROVE VerifiedInv'
  BY <1>2 DEF CountFirstPay, CountPayAttempt, Touch, rowVars, countVars, ownerVars, handlerVars,
              airpayVars, strayVars
<1>3. ASSUME NEW h \in Handlers, SendPay(h) PROVE VerifiedInv'
  BY <1>3 DEF SendPay, rowVars, countVars, ownerVars, handlerVars, airpayVars, strayVars
<1>4. ASSUME NEW h \in Handlers, SavePayment(h) PROVE VerifiedInv'
  BY <1>4 DEF SavePayment, Release, Touch, SavedState, OwnerInv, rowVars, countVars, ownerVars,
              handlerVars, airpayVars, strayVars
<1>5. ASSUME NEW h \in Handlers, SaveVoucher(h) PROVE VerifiedInv'
  BY <1>5 DEF SaveVoucher, Release, Touch, rowVars, countVars, ownerVars, handlerVars, airpayVars,
              strayVars
<1>6. ASSUME NEW h \in Handlers, VoucherTaken(h) PROVE VerifiedInv'
  BY <1>6 DEF VoucherTaken, Release, rowVars, countVars, ownerVars, handlerVars, airpayVars,
              strayVars
<1>7. ASSUME NEW h \in Handlers, AnswerPay(h) PROVE VerifiedInv'
  BY <1>7 DEF AnswerPay, Outcomes, Answers, rowVars, countVars, ownerVars, handlerVars,
              airpayVars, strayVars
<1>8. ASSUME NEW h \in Handlers, PayTimesOut(h) PROVE VerifiedInv'
  BY <1>8 DEF PayTimesOut, rowVars, countVars, ownerVars, handlerVars, airpayVars, strayVars
<1>9. ASSUME NEW h \in Handlers, AnswerVoucher(h) PROVE VerifiedInv'
  BY <1>9 DEF AnswerVoucher, Deliver, rowVars, countVars, ownerVars, handlerVars, airpayVars,
              strayVars
<1>10. ASSUME NEW h \in Handlers, Dies(h) PROVE VerifiedInv'
  BY <1>10 DEF Dies, Release, rowVars, countVars, ownerVars, handlerVars, airpayVars, strayVars
<1>11. ASSUME NEW h \in Handlers, NEW o \in Operations, Check(h, o) PROVE VerifiedInv'
  BY <1>11 DEF Check, Acquire, Touch, rowVars, countVars, ownerVars, handlerVars, airpayVars,
               strayVars
<1>12. ASSUME NEW h \in Handlers, NEW o \in Operations, Pay(h, o) PROVE VerifiedInv'
  BY <1>12 DEF Pay, Acquire, Touch, rowVars, countVars, ownerVars, handlerVars, airpayVars,
               strayVars
<1>13. ASSUME NEW h \in Handlers, NEW o \in Operations, Reconcile(h, o) PROVE VerifiedInv'
  BY <1>13 DEF Reconcile, Acquire, CountPayAttempt, Touch, rowVars, countVars, ownerVars,
               handlerVars, airpayVars, strayVars
<1>14. ASSUME NEW h \in Handlers, NEW o \in Operations, FetchVoucher(h, o) PROVE VerifiedInv'
  BY <1>14 DEF FetchVoucher, Acquire, Touch, rowVars, countVars, ownerVars, handlerVars,
               airpayVars, strayVars
<1>15. ASSUME NEW o \in Operations, Prepare(o) PROVE VerifiedInv'
  BY <1>15 DEF Prepare, rowVars, countVars, ownerVars, handlerVars, airpayVars, strayVars
<1>16. ASSUME NEW o \in Operations, GiveUpPay(o) PROVE VerifiedInv'
  BY <1>16 DEF GiveUpPay, RaiseAttention, Touch, rowVars, countVars, ownerVars, handlerVars,
               airpayVars, strayVars
<1>17. ASSUME NEW o \in Operations, GiveUpVoucher(o) PROVE VerifiedInv'
  BY <1>17 DEF GiveUpVoucher, RaiseAttention, Touch, rowVars, countVars, ownerVars, handlerVars,
               airpayVars, strayVars
<1>18. ASSUME NEW o \in Operations, Show(o) PROVE VerifiedInv'
  BY <1>18 DEF Show, rowVars, countVars, ownerVars, handlerVars, airpayVars, strayVars
<1>19. ASSUME NEW o \in Operations, VerifyUnpaid(o) PROVE VerifiedInv'
  BY <1>19 DEF VerifyUnpaid, rowVars, countVars, ownerVars, handlerVars, airpayVars, strayVars
<1>20. ASSUME NEW o \in Operations, ConfirmFailed(o) PROVE VerifiedInv'
  BY <1>20 DEF ConfirmFailed, Decide, StampMatches, Refusable, rowVars, countVars, ownerVars,
               handlerVars, airpayVars, strayVars
<1>21. ASSUME NEW o \in Operations, RecordSuccess(o) PROVE VerifiedInv'
  BY <1>21 DEF RecordSuccess, Decide, StampMatches, Resolvable, rowVars, countVars, ownerVars,
               handlerVars, airpayVars, strayVars
<1>22. ASSUME NEW o \in Operations, LateArrives(o) PROVE VerifiedInv'
  BY <1>22 DEF LateArrives, Outcomes, rowVars, countVars, ownerVars, handlerVars, airpayVars,
               strayVars
<1>23. ASSUME NEW o \in Operations, AirpaySettles(o) PROVE VerifiedInv'
  BY <1>23 DEF AirpaySettles, rowVars, countVars, ownerVars, handlerVars, airpayVars, strayVars
<1>24. ASSUME NEW o \in Operations, BecomeDue(o) PROVE VerifiedInv'
  BY <1>24 DEF BecomeDue, rowVars, countVars, ownerVars, handlerVars, airpayVars, strayVars
<1>25. ASSUME NEW o \in Operations, Expire(o) PROVE VerifiedInv'
  BY <1>25 DEF Expire, rowVars, countVars, ownerVars, handlerVars, airpayVars, strayVars
<1>26. ASSUME NEW h \in Handlers, LosesSession(h) PROVE VerifiedInv'
  BY <1>26 DEF LosesSession, Release, rowVars, countVars, ownerVars, handlerVars, airpayVars,
               strayVars
<1>27. ASSUME NEW o \in Operations, StrayPays(o) PROVE VerifiedInv'
  BY <1>27 DEF StrayPays, rowVars, countVars, ownerVars, handlerVars, airpayVars, strayVars
<1>28. ASSUME NEW o \in Operations, StrayFetches(o) PROVE VerifiedInv'
  BY <1>28 DEF StrayFetches, Deliver, rowVars, countVars, ownerVars, handlerVars, airpayVars,
               strayVars
<1>29. ASSUME NEW o \in Operations, StrayDies(o) PROVE VerifiedInv'
  BY <1>29 DEF StrayDies, rowVars, countVars, ownerVars, handlerVars, airpayVars, strayVars
<1>30. CASE UNCHANGED vars
  BY <1>30 DEF vars, rowVars, countVars, ownerVars, handlerVars, airpayVars, strayVars
<1> QED
  BY <1>1, <1>2, <1>3, <1>4, <1>5, <1>6, <1>7, <1>8, <1>9, <1>10, <1>11, <1>12, <1>13, <1>14,
     <1>15, <1>16, <1>17, <1>18, <1>19, <1>20, <1>21, <1>22, <1>23, <1>24, <1>25, <1>26, <1>27, <1>28,
     <1>29, <1>30 DEF Next, HandlerStep, StrayStep,
         Recover

(* The attempts are used up exactly when they are at the limit.            *)
LEMMA AttemptsUsedUp ==
  ASSUME TypeOK, CountInv
  PROVE  \A o \in Operations :
             /\ UsedUp(pay_attempts[o]) = (pay_attempts[o] = MaxRecoveryAttempts)
             /\ UsedUp(voucher_attempts[o]) = (voucher_attempts[o] = MaxRecoveryAttempts)
<1> TAKE o \in Operations
<1>1. /\ pay_attempts[o] \in Nat /\ pay_attempts[o] <= MaxRecoveryAttempts
      /\ voucher_attempts[o] \in Nat /\ voucher_attempts[o] <= MaxRecoveryAttempts
  BY DEF TypeOK, CountInv
<1> QED BY <1>1, MaxRecoveryAssumption DEF UsedUp

LEMMA AttentionStep ==
  ASSUME TypeOK, LockInv, OwnerInv, CountInv, AttentionIsReal, [Next]_vars
  PROVE  AttentionIsReal'
<1> USE AttemptsUsedUp DEF TypeOK, LockInv, OwnerInv, AttentionIsReal, MissesCode, Free, Paying, Fetching, BeforePay, Checkable
<1>1. ASSUME NEW h \in Handlers, SaveCheck(h) PROVE AttentionIsReal'
  BY <1>1 DEF SaveCheck, Release, Touch, rowVars, countVars, ownerVars, handlerVars, airpayVars
<1>2. ASSUME NEW h \in Handlers, CountFirstPay(h) PROVE AttentionIsReal'
  BY <1>2 DEF CountFirstPay, CountPayAttempt, Touch, rowVars, countVars, ownerVars, handlerVars,
              airpayVars
<1>3. ASSUME NEW h \in Handlers, SendPay(h) PROVE AttentionIsReal'
  BY <1>3 DEF SendPay, rowVars, countVars, ownerVars, handlerVars, airpayVars
<1>4. ASSUME NEW h \in Handlers, SavePayment(h) PROVE AttentionIsReal'
  BY <1>4 DEF SavePayment, Release, Touch, SavedState, NeedsAttention, rowVars, countVars,
              ownerVars, handlerVars, airpayVars
<1>5. ASSUME NEW h \in Handlers, SaveVoucher(h) PROVE AttentionIsReal'
  BY <1>5 DEF SaveVoucher, Release, Touch, rowVars, countVars, ownerVars, handlerVars, airpayVars
<1>6. ASSUME NEW h \in Handlers, VoucherTaken(h) PROVE AttentionIsReal'
  BY <1>6 DEF VoucherTaken, Release, rowVars, countVars, ownerVars, handlerVars, airpayVars
<1>7. ASSUME NEW h \in Handlers, AnswerPay(h) PROVE AttentionIsReal'
  BY <1>7 DEF AnswerPay, Outcomes, Answers, rowVars, countVars, ownerVars, handlerVars, airpayVars
<1>8. ASSUME NEW h \in Handlers, PayTimesOut(h) PROVE AttentionIsReal'
  BY <1>8 DEF PayTimesOut, rowVars, countVars, ownerVars, handlerVars, airpayVars
<1>9. ASSUME NEW h \in Handlers, AnswerVoucher(h) PROVE AttentionIsReal'
  BY <1>9 DEF AnswerVoucher, Deliver, rowVars, countVars, ownerVars, handlerVars, airpayVars
<1>10. ASSUME NEW h \in Handlers, Dies(h) PROVE AttentionIsReal'
  BY <1>10 DEF Dies, Release, rowVars, countVars, ownerVars, handlerVars, airpayVars
<1>11. ASSUME NEW h \in Handlers, NEW o \in Operations, Check(h, o) PROVE AttentionIsReal'
  BY <1>11 DEF Check, Acquire, Touch, rowVars, countVars, ownerVars, handlerVars, airpayVars
<1>12. ASSUME NEW h \in Handlers, NEW o \in Operations, Pay(h, o) PROVE AttentionIsReal'
  BY <1>12 DEF Pay, Acquire, Touch, rowVars, countVars, ownerVars, handlerVars, airpayVars
<1>13. ASSUME NEW h \in Handlers, NEW o \in Operations, Reconcile(h, o) PROVE AttentionIsReal'
  BY <1>13 DEF Reconcile, Acquire, CountPayAttempt, Touch, rowVars, countVars, ownerVars,
               handlerVars, airpayVars
<1>14. ASSUME NEW h \in Handlers, NEW o \in Operations, FetchVoucher(h, o) PROVE AttentionIsReal'
  BY <1>14 DEF FetchVoucher, Acquire, Touch, rowVars, countVars, ownerVars, handlerVars, airpayVars
<1>15. ASSUME NEW o \in Operations, Prepare(o) PROVE AttentionIsReal'
  BY <1>15 DEF Prepare, rowVars, countVars, ownerVars, handlerVars, airpayVars
<1>16. ASSUME NEW o \in Operations, GiveUpPay(o) PROVE AttentionIsReal'
  BY <1>16 DEF GiveUpPay, RaiseAttention, Touch, rowVars, countVars, ownerVars, handlerVars,
               airpayVars
<1>17. ASSUME NEW o \in Operations, GiveUpVoucher(o) PROVE AttentionIsReal'
  BY <1>17 DEF GiveUpVoucher, RaiseAttention, Touch, rowVars, countVars, ownerVars, handlerVars,
               airpayVars
<1>18. ASSUME NEW o \in Operations, Show(o) PROVE AttentionIsReal'
  BY <1>18 DEF Show, rowVars, countVars, ownerVars, handlerVars, airpayVars
<1>19. ASSUME NEW o \in Operations, VerifyUnpaid(o) PROVE AttentionIsReal'
  BY <1>19 DEF VerifyUnpaid, rowVars, countVars, ownerVars, handlerVars, airpayVars
<1>20. ASSUME NEW o \in Operations, ConfirmFailed(o) PROVE AttentionIsReal'
  BY <1>20 DEF ConfirmFailed, Decide, Refusable, rowVars, countVars, ownerVars, handlerVars,
               airpayVars
<1>21. ASSUME NEW o \in Operations, RecordSuccess(o) PROVE AttentionIsReal'
  BY <1>21 DEF RecordSuccess, Decide, rowVars, countVars, ownerVars, handlerVars, airpayVars
<1>22. ASSUME NEW o \in Operations, LateArrives(o) PROVE AttentionIsReal'
  BY <1>22 DEF LateArrives, Outcomes, rowVars, countVars, ownerVars, handlerVars, airpayVars
<1>23. ASSUME NEW o \in Operations, AirpaySettles(o) PROVE AttentionIsReal'
  BY <1>23 DEF AirpaySettles, rowVars, countVars, ownerVars, handlerVars, airpayVars
<1>24. ASSUME NEW o \in Operations, BecomeDue(o) PROVE AttentionIsReal'
  BY <1>24 DEF BecomeDue, rowVars, countVars, ownerVars, handlerVars, airpayVars
<1>25. ASSUME NEW o \in Operations, Expire(o) PROVE AttentionIsReal'
  BY <1>25 DEF Expire, rowVars, countVars, ownerVars, handlerVars, airpayVars
<1>26. ASSUME NEW h \in Handlers, LosesSession(h) PROVE AttentionIsReal'
  BY <1>26 DEF LosesSession, Release, rowVars, countVars, ownerVars, handlerVars, airpayVars
<1>27. ASSUME NEW o \in Operations, StrayPays(o) PROVE AttentionIsReal'
  BY <1>27 DEF StrayPays, rowVars, countVars, ownerVars, handlerVars, airpayVars
<1>28. ASSUME NEW o \in Operations, StrayFetches(o) PROVE AttentionIsReal'
  BY <1>28 DEF StrayFetches, Deliver, rowVars, countVars, ownerVars, handlerVars, airpayVars
<1>29. ASSUME NEW o \in Operations, StrayDies(o) PROVE AttentionIsReal'
  BY <1>29 DEF StrayDies, rowVars, countVars, ownerVars, handlerVars, airpayVars
<1>30. CASE UNCHANGED vars
  BY <1>30 DEF vars, rowVars, countVars, ownerVars, handlerVars, airpayVars
<1> QED
  BY <1>1, <1>2, <1>3, <1>4, <1>5, <1>6, <1>7, <1>8, <1>9, <1>10, <1>11, <1>12, <1>13, <1>14,
     <1>15, <1>16, <1>17, <1>18, <1>19, <1>20, <1>21, <1>22, <1>23, <1>24, <1>25, <1>26, <1>27, <1>28,
     <1>29, <1>30 DEF Next, HandlerStep, StrayStep,
         Recover

-----------------------------------------------------------------------------
IInv ==
    /\ TypeOK /\ LockInv /\ OwnerInv /\ CountInv /\ AnswerInv /\ OutcomeInv /\ VerifiedInv
    /\ AttentionIsReal

LEMMA Invariant == Spec => []IInv
<1>1. Init => IInv
  <2> SUFFICES ASSUME Init PROVE IInv
    OBVIOUS
  <2> USE DEF Init
  <2>1. TypeOK
    BY DEF TypeOK, Step, Answer, Remote
  <2>2. LockInv /\ CountInv
    BY MaxRecoveryAssumption DEF LockInv, CountInv, Paying, Fetching
  <2>3. OwnerInv /\ AnswerInv /\ OutcomeInv /\ VerifiedInv /\ AttentionIsReal
    BY DEF OwnerInv, AnswerInv, OutcomeInv, VerifiedInv, AttentionIsReal
  <2> QED BY <2>1, <2>2, <2>3 DEF IInv
<1>2. IInv /\ [Next]_vars => IInv'
  BY TypeStep, LockStep, OwnerStep, CountStep, AnswerStep, OutcomeStep, VerifiedStep,
     AttentionStep DEF IInv
<1> QED BY <1>1, <1>2, PTL DEF Spec

(* Every reachable state of rows, handlers and Airpay is well typed.       *)
THEOREM TypeCorrect == Spec => []TypeOK
<1>1. IInv => TypeOK
  BY DEF IInv
<1> QED BY <1>1, Invariant, PTL

(* The rule of the 202 answer, for any number of repeats, lost sessions and*)
(* delayed requests: a failure the Hub reports is one.                     *)
THEOREM FailureIsDefinitive == Spec => []FailedIsDefinitive
<1>1. IInv => FailedIsDefinitive
  BY DEF IInv, LockInv, Paying, OutcomeInv, FailedIsDefinitive, MayBeCharged
<1> QED BY <1>1, Invariant, PTL

(* A refusal that the owner verified is never overtaken by a charge.       *)
THEOREM RefusalHolds == Spec => []VerifiedRefusalHolds
<1>1. IInv => VerifiedRefusalHolds
  BY DEF IInv, LockInv, Paying, VerifiedInv, VerifiedRefusalHolds, MayBeCharged
<1> QED BY <1>1, Invariant, PTL

(* A payment the Hub itself reports was taken; a code it stored is Airpay's*)
THEOREM PaymentIsTrue == Spec => []PaidIsTrue
<1>1. IInv => PaidIsTrue
  BY DEF IInv, OutcomeInv, PaidIsTrue
<1> QED BY <1>1, Invariant, PTL

(* No operation costs Airpay more than the counted requests.               *)
THEOREM BoundedRequests == Spec => []RequestsAreBounded
<1>1. IInv => RequestsAreBounded
  <2> SUFFICES ASSUME IInv, NEW o \in Operations
               PROVE  /\ pay_calls[o] <= MaxRecoveryAttempts
                      /\ voucher_calls[o] <= MaxRecoveryAttempts
    BY DEF RequestsAreBounded
  <2>1. /\ pay_calls[o] \in Nat /\ unsent_pays[o] \in Nat /\ pay_attempts[o] \in Nat
        /\ voucher_calls[o] \in Nat /\ unsent_fetches[o] \in Nat /\ voucher_attempts[o] \in Nat
    BY DEF IInv, TypeOK
  <2>2. /\ pay_calls[o] + unsent_pays[o] <= pay_attempts[o]
        /\ voucher_calls[o] + unsent_fetches[o] <= voucher_attempts[o]
        /\ pay_attempts[o] <= MaxRecoveryAttempts /\ voucher_attempts[o] <= MaxRecoveryAttempts
    BY DEF IInv, CountInv
  <2> QED BY <2>1, <2>2, MaxRecoveryAssumption
<1> QED BY <1>1, Invariant, PTL

(* Attention is asked for exactly when the attempts are used up and the    *)
(* outcome is open.                                                        *)
THEOREM AttentionAtLimit == Spec => []AttentionIsReal
<1>1. IInv => AttentionIsReal
  BY DEF IInv
<1> QED BY <1>1, Invariant, PTL

(* Both: the limit is neither passed nor called upon early.                *)
THEOREM BoundedAttempts == Spec => []AttemptsAreBounded
<1>1. RequestsAreBounded /\ AttentionIsReal => AttemptsAreBounded
  BY DEF AttemptsAreBounded
<1> QED BY <1>1, BoundedRequests, AttentionAtLimit, PTL

-----------------------------------------------------------------------------
(* Nothing is asked for before an operation is sent for payment.           *)
LEMMA NothingAsked ==
  ASSUME IInv, NEW o \in Operations, state[o] \in BeforePay
  PROVE  pay_calls[o] = 0 /\ unsent_pays[o] = 0
<1>1. /\ pay_calls[o] \in Nat /\ unsent_pays[o] \in Nat
      /\ pay_calls[o] + unsent_pays[o] <= pay_attempts[o] /\ pay_attempts[o] = 0
  BY DEF IInv, TypeOK, CountInv, OwnerInv
<1> QED  BY <1>1, CallSums

(* Only two operations write codes.                                        *)
LEMMA CodeWriters ==
  ASSUME [Next]_vars
  PROVE  UNCHANGED pin_code \/ (\E h \in Handlers : SaveVoucher(h))
                            \/ (\E o \in Operations : RecordSuccess(o))
<1>1. ASSUME NEW h \in Handlers, HandlerStep(h) \/ Dies(h) \/ LosesSession(h)
      PROVE  UNCHANGED pin_code \/ SaveVoucher(h)
  BY <1>1 DEF HandlerStep, SaveCheck, CountFirstPay, SendPay, SavePayment, VoucherTaken, AnswerPay,
              PayTimesOut, AnswerVoucher, Dies, LosesSession, rowVars
<1>2. ASSUME NEW h \in Handlers, NEW o \in Operations, Check(h, o) \/ Pay(h, o)
      PROVE  UNCHANGED pin_code
  BY <1>2 DEF Check, Pay
<1>3. ASSUME NEW o \in Operations, Recover(o)
      PROVE  UNCHANGED pin_code
  BY <1>3 DEF Recover, Reconcile, FetchVoucher, GiveUpPay, GiveUpVoucher, RaiseAttention
<1>4. ASSUME NEW o \in Operations,
             \/ Prepare(o) \/ Show(o) \/ VerifyUnpaid(o) \/ ConfirmFailed(o)
             \/ LateArrives(o) \/ AirpaySettles(o) \/ BecomeDue(o) \/ Expire(o) \/ StrayStep(o)
      PROVE  UNCHANGED pin_code
  BY <1>4 DEF StrayStep, StrayPays, StrayFetches, StrayDies, Prepare, Show, VerifyUnpaid,
              ConfirmFailed, LateArrives, AirpaySettles, BecomeDue,
              Expire, rowVars
<1>5. CASE UNCHANGED vars
  BY <1>5 DEF vars, rowVars
<1> QED BY <1>1, <1>2, <1>3, <1>4, <1>5 DEF Next

LEMMA CodesStep ==
  ASSUME TypeOK, LockInv, CodesAreUnique, [Next]_vars
  PROVE  CodesAreUnique'
<1>1. ASSUME NEW h \in Handlers, SaveVoucher(h) PROVE CodesAreUnique'
  BY <1>1 DEF SaveVoucher, TypeOK, LockInv, Fetching, CodesAreUnique, Taken
<1>2. ASSUME NEW o \in Operations, RecordSuccess(o) PROVE CodesAreUnique'
  BY <1>2 DEF RecordSuccess, TypeOK, CodesAreUnique, Taken
<1>3. CASE UNCHANGED pin_code
  BY <1>3 DEF CodesAreUnique
<1> QED BY <1>1, <1>2, <1>3, CodeWriters

(* No code goes to two operations, whoever stores it.                      *)
THEOREM UniqueCodes == Spec => []CodesAreUnique
<1>1. Init => CodesAreUnique
  BY NoCodeAssumption, OldCodesAssumption DEF Init, CodesAreUnique
<1>2. IInv /\ CodesAreUnique /\ [Next]_vars => CodesAreUnique'
  BY CodesStep DEF IInv
<1> QED BY <1>1, <1>2, Invariant, PTL DEF Spec

-----------------------------------------------------------------------------
KeepsOutcome ==
    \A q \in Operations :
        /\ state[q] \in {"paid", "failed"} => state'[q] = state[q]
        /\ pin_code[q] # NoCode => pin_code'[q] = pin_code[q]

LEMMA OutcomeKept ==
  ASSUME TypeOK, LockInv, OutcomeInv, [Next]_vars
  PROVE  KeepsOutcome
<1> USE DEF TypeOK, LockInv, Paying, Fetching
<1>1. \A o \in Operations : pin_code[o] # NoCode => pin_code'[o] = pin_code[o]
  <2>1. ASSUME NEW h \in Handlers, SaveVoucher(h), NEW o \in Operations, pin_code[o] # NoCode
        PROVE  pin_code'[o] = pin_code[o]
    <3>1. job[h] \in Operations /\ pin_code[job[h]] = NoCode
      BY <2>1 DEF SaveVoucher, MissesCode
    <3>2. UNCHANGED pin_code \/ pin_code' = [pin_code EXCEPT ![job[h]] = issued[job[h]]]
      BY <2>1 DEF SaveVoucher
    <3> QED BY <2>1, <3>1, <3>2
  <2>2. ASSUME NEW q \in Operations, RecordSuccess(q), NEW o \in Operations, pin_code[o] # NoCode
        PROVE  pin_code'[o] = pin_code[o]
    <3>1. q \in Topups \/ pin_code[q] = NoCode
      BY <2>2 DEF RecordSuccess, Resolvable, MissesCode, OutcomeInv
    <3>2. \/ UNCHANGED pin_code
          \/ q \notin Topups /\ \E c \in Codes : pin_code' = [pin_code EXCEPT ![q] = c]
      BY <2>2 DEF RecordSuccess
    <3> QED BY <2>2, <3>1, <3>2
  <2> QED BY <2>1, <2>2, CodeWriters
<1> DEFINE Same == \A o \in Operations : state[o] \in {"paid", "failed"} => state'[o] = state[o]
<1>2. ASSUME NEW h \in Handlers, SaveCheck(h) \/ SavePayment(h) PROVE Same
  BY <1>2 DEF SaveCheck, SavePayment
<1>3. ASSUME NEW h \in Handlers,
             \/ CountFirstPay(h) \/ SendPay(h) \/ SaveVoucher(h) \/ VoucherTaken(h) \/ AnswerPay(h)
             \/ PayTimesOut(h) \/ AnswerVoucher(h) \/ Dies(h) \/ LosesSession(h)
      PROVE  Same
  BY <1>3 DEF CountFirstPay, SendPay, SaveVoucher, VoucherTaken, AnswerPay, PayTimesOut,
              AnswerVoucher, Dies, LosesSession, rowVars
<1>4. ASSUME NEW h \in Handlers, NEW o \in Operations, Check(h, o) \/ Pay(h, o) PROVE Same
  BY <1>4 DEF Check, Pay, Checkable
<1>5. ASSUME NEW o \in Operations, Recover(o) PROVE Same
  BY <1>5 DEF Recover, Reconcile, FetchVoucher, GiveUpPay, GiveUpVoucher, RaiseAttention
<1>6. ASSUME NEW o \in Operations, Prepare(o) \/ ConfirmFailed(o) \/ RecordSuccess(o) PROVE Same
  BY <1>6 DEF Prepare, ConfirmFailed, RecordSuccess, Refusable, Resolvable, MissesCode
<1>7. ASSUME NEW o \in Operations,
             \/ Show(o) \/ VerifyUnpaid(o) \/ LateArrives(o) \/ AirpaySettles(o) \/ BecomeDue(o)
             \/ Expire(o) \/ StrayStep(o)
      PROVE  Same
  BY <1>7 DEF StrayStep, StrayPays, StrayFetches, StrayDies, Show, VerifyUnpaid, LateArrives,
              AirpaySettles, BecomeDue, Expire, rowVars
<1>8. ASSUME UNCHANGED vars PROVE Same
  BY <1>8 DEF vars, rowVars
<1> HIDE DEF Same
<1>9. Same
  BY <1>2, <1>3, <1>4, <1>5, <1>6, <1>7, <1>8 DEF Next, HandlerStep
<1> QED BY <1>1, <1>9 DEF KeepsOutcome, Same

(* Nothing undoes a payment, a refusal or a stored code.                   *)
THEOREM FinalOutcome == Spec => OutcomeIsFinal
<1>1. IInv /\ [Next]_vars =>
        [\A o \in Operations :
            /\ state[o] \in {"paid", "failed"} => state'[o] = state[o]
            /\ pin_code[o] # NoCode => pin_code'[o] = pin_code[o]]_vars
  BY OutcomeKept DEF KeepsOutcome, IInv
<1> QED BY <1>1, Invariant, PTL DEF Spec, OutcomeIsFinal

(* A thread without its session has one call less to make.                 *)
LEMMA OneCallLess ==
  ASSUME NEW c \in [Operations -> Nat], NEW d, NEW o \in Operations,
         c[o] > 0, d = [c EXCEPT ![o] = @ - 1]
  PROVE  d[o] < c[o]
<1>1. c[o] \in Nat /\ d[o] = c[o] - 1
  OBVIOUS
<1> QED BY <1>1

(* What a call for money finds: an open outcome, or its caller has lost the*)
(* session it was counted in, and it can do no harm.                       *)
MayAsk(q) ==
    \/ state[q] = "processing" /\ ~ requires_attention[q]
    \/ /\ unsent_pays'[q] < unsent_pays[q]
       /\ state[q] = "failed" =>
             IF decision[q] = "none" THEN remote[q] = "rejected" ELSE evidence[q] # "verified"
Asks == \A q \in Operations : pay_calls'[q] # pay_calls[q] => MayAsk(q)

LEMMA SendStep ==
  ASSUME TypeOK, LockInv, OutcomeInv, VerifiedInv, [Next]_vars
  PROVE  Asks
<1> USE DEF TypeOK, LockInv, Paying, Asks
<1>1. ASSUME NEW h \in Handlers, SendPay(h) PROVE Asks
  BY <1>1 DEF SendPay, MayAsk
<1>2. ASSUME NEW h \in Handlers, HandlerStep(h) \/ Dies(h) \/ LosesSession(h)
      PROVE  UNCHANGED pay_calls \/ SendPay(h)
  BY <1>2 DEF HandlerStep, SaveCheck, CountFirstPay, SavePayment, SaveVoucher, VoucherTaken,
              AnswerPay, PayTimesOut, AnswerVoucher, Dies, LosesSession, airpayVars
<1>3. ASSUME NEW h \in Handlers, NEW o \in Operations, Check(h, o) \/ Pay(h, o)
      PROVE  UNCHANGED pay_calls
  BY <1>3 DEF Check, Pay, airpayVars
<1>4. ASSUME NEW o \in Operations, Recover(o)
      PROVE  UNCHANGED pay_calls
  BY <1>4 DEF Recover, Reconcile, FetchVoucher, GiveUpPay, GiveUpVoucher, RaiseAttention,
              airpayVars
<1>5. ASSUME NEW o \in Operations,
             \/ Prepare(o) \/ Show(o) \/ VerifyUnpaid(o) \/ ConfirmFailed(o) \/ RecordSuccess(o)
             \/ LateArrives(o) \/ AirpaySettles(o) \/ BecomeDue(o) \/ Expire(o)
             \/ StrayFetches(o) \/ StrayDies(o)
      PROVE  UNCHANGED pay_calls
  BY <1>5 DEF Prepare, Show, VerifyUnpaid, ConfirmFailed, RecordSuccess, Decide, LateArrives,
              AirpaySettles, BecomeDue, Expire, StrayFetches, StrayDies, airpayVars
<1>6. ASSUME NEW o \in Operations, StrayPays(o) PROVE Asks
  <2>1. unsent_pays[o] \in Nat /\ unsent_pays[o] > 0
    BY <1>6 DEF StrayPays
  <2>2. unsent_pays'[o] < unsent_pays[o]
    BY <1>6, <2>1, OneCallLess DEF StrayPays
  <2>3. state[o] = "failed" /\ decision[o] = "none" => remote[o] = "rejected"
    BY DEF OutcomeInv
  <2>4. state[o] = "failed" => evidence[o] # "verified"
    BY <2>1 DEF VerifiedInv
  <2>5. \A q \in Operations \ {o} : pay_calls'[q] = pay_calls[q]
    BY <1>6 DEF StrayPays
  <2> QED BY <2>2, <2>3, <2>4, <2>5 DEF MayAsk
<1>7. ASSUME UNCHANGED vars PROVE UNCHANGED pay_calls
  BY <1>7 DEF vars, airpayVars
<1> HIDE DEF Asks
<1>8. ASSUME UNCHANGED pay_calls PROVE Asks
  BY <1>8 DEF Asks
<1> QED BY <1>1, <1>2, <1>3, <1>4, <1>5, <1>6, <1>7, <1>8 DEF Next, StrayStep

(* A decision or an outcome stops every further payment request of those   *)
(* that hold the lock; what is left of others does not undo it.            *)
THEOREM OnlyStraysPay == Spec => OnlyStraysPayOnceDecided
<1>1. IInv /\ [Next]_vars =>
        [\A o \in Operations :
            pay_calls'[o] # pay_calls[o] =>
                \/ state[o] = "processing" /\ ~ requires_attention[o]
                \/ /\ unsent_pays'[o] < unsent_pays[o]
                   /\ state[o] = "failed" =>
                         IF decision[o] = "none" THEN remote[o] = "rejected"
                         ELSE evidence[o] # "verified"]_vars
  BY SendStep DEF Asks, MayAsk, IInv
<1> QED BY <1>1, Invariant, PTL DEF Spec, OnlyStraysPayOnceDecided

(* Payments begin with a checked operation and end with their own outcome. *)
LEMMA StateStep ==
  ASSUME TypeOK, LockInv, [Next]_vars
  PROVE  \A q \in Operations :
            /\ state'[q] = "processing" => state[q] \in {"processing", "checked"}
            /\ state'[q] = "paid" => state[q] \in {"processing", "paid"}
<1> USE DEF TypeOK, LockInv, Paying, Fetching
<1> DEFINE Ordered ==
        \A q \in Operations :
            /\ state'[q] = "processing" => state[q] \in {"processing", "checked"}
            /\ state'[q] = "paid" => state[q] \in {"processing", "paid"}
<1>1. ASSUME NEW h \in Handlers, SaveCheck(h) \/ SavePayment(h) PROVE Ordered
  BY <1>1 DEF SaveCheck, SavePayment
<1>2. ASSUME NEW h \in Handlers, HandlerStep(h) \/ Dies(h) \/ LosesSession(h)
      PROVE  UNCHANGED state \/ SaveCheck(h) \/ SavePayment(h)
  BY <1>2 DEF HandlerStep, CountFirstPay, SendPay, SaveVoucher, VoucherTaken, AnswerPay,
              PayTimesOut,
              AnswerVoucher, Dies, LosesSession, rowVars
<1>3. ASSUME NEW h \in Handlers, NEW o \in Operations, Check(h, o) \/ Pay(h, o) PROVE Ordered
  BY <1>3 DEF Check, Pay
<1>4. ASSUME NEW o \in Operations, Recover(o) PROVE UNCHANGED state
  BY <1>4 DEF Recover, Reconcile, FetchVoucher, GiveUpPay, GiveUpVoucher, RaiseAttention
<1>5. ASSUME NEW o \in Operations, Prepare(o) \/ ConfirmFailed(o) \/ RecordSuccess(o) PROVE Ordered
  BY <1>5 DEF Prepare, ConfirmFailed, RecordSuccess, Resolvable, MissesCode
<1>6. ASSUME NEW o \in Operations,
             \/ Show(o) \/ VerifyUnpaid(o) \/ LateArrives(o) \/ AirpaySettles(o) \/ BecomeDue(o)
             \/ Expire(o) \/ StrayStep(o)
      PROVE  UNCHANGED state
  BY <1>6 DEF StrayStep, StrayPays, StrayFetches, StrayDies, Show, VerifyUnpaid, LateArrives,
              AirpaySettles, BecomeDue, Expire, rowVars
<1>7. ASSUME UNCHANGED vars PROVE UNCHANGED state
  BY <1>7 DEF vars, rowVars
<1>8. ASSUME UNCHANGED state PROVE Ordered
  BY <1>8
<1> HIDE DEF Ordered
<1>9. Ordered
  BY <1>1, <1>2, <1>3, <1>4, <1>5, <1>6, <1>7, <1>8 DEF Next
<1> QED  BY <1>9 DEF Ordered

(* A code is asked for only while it is missing, or by a thread that lost  *)
(* its session.                                                            *)
AsksForCode ==
    \A q \in Operations :
        voucher_calls'[q] # voucher_calls[q] =>
            MissesCode(q) \/ unsent_fetches'[q] < unsent_fetches[q]

LEMMA FetchStep ==
  ASSUME TypeOK, LockInv, [Next]_vars
  PROVE  AsksForCode
<1> USE DEF TypeOK, LockInv, Fetching
<1>1. ASSUME NEW h \in Handlers, AnswerVoucher(h) PROVE AsksForCode
  BY <1>1 DEF AnswerVoucher, AsksForCode
<1>2. ASSUME NEW h \in Handlers, HandlerStep(h) \/ Dies(h) \/ LosesSession(h)
      PROVE  UNCHANGED voucher_calls \/ AnswerVoucher(h)
  BY <1>2 DEF HandlerStep, SaveCheck, CountFirstPay, SendPay, SavePayment, SaveVoucher,
              VoucherTaken, AnswerPay, PayTimesOut, Dies, LosesSession, airpayVars
<1>3. ASSUME NEW h \in Handlers, NEW o \in Operations, Check(h, o) \/ Pay(h, o)
      PROVE  UNCHANGED voucher_calls
  BY <1>3 DEF Check, Pay, airpayVars
<1>4. ASSUME NEW o \in Operations, Recover(o)
      PROVE  UNCHANGED voucher_calls
  BY <1>4 DEF Recover, Reconcile, FetchVoucher, GiveUpPay, GiveUpVoucher, RaiseAttention,
              airpayVars
<1>5. ASSUME NEW o \in Operations,
             \/ Prepare(o) \/ Show(o) \/ VerifyUnpaid(o) \/ ConfirmFailed(o) \/ RecordSuccess(o)
             \/ LateArrives(o) \/ AirpaySettles(o) \/ BecomeDue(o) \/ Expire(o)
             \/ StrayPays(o) \/ StrayDies(o)
      PROVE  UNCHANGED voucher_calls
  BY <1>5 DEF Prepare, Show, VerifyUnpaid, ConfirmFailed, RecordSuccess, Decide, LateArrives,
              AirpaySettles, BecomeDue, Expire, StrayPays, StrayDies, airpayVars
<1>6. ASSUME NEW o \in Operations, StrayFetches(o) PROVE AsksForCode
  <2>1. unsent_fetches'[o] < unsent_fetches[o]
    BY <1>6, OneCallLess DEF StrayFetches
  <2>2. \A q \in Operations \ {o} : voucher_calls'[q] = voucher_calls[q]
    BY <1>6 DEF StrayFetches
  <2> QED BY <2>1, <2>2 DEF AsksForCode
<1>7. ASSUME UNCHANGED vars PROVE UNCHANGED voucher_calls
  BY <1>7 DEF vars, airpayVars
<1>8. ASSUME UNCHANGED voucher_calls PROVE AsksForCode
  BY <1>8 DEF AsksForCode
<1> QED BY <1>1, <1>2, <1>3, <1>4, <1>5, <1>6, <1>7, <1>8 DEF Next, StrayStep

(* Ready means that the journal and Airpay agree, and stays so until       *)
(* something new is paid.                                                  *)
LEMMA CutoverStep ==
  ASSUME IInv, [Next]_vars, CutoverReady
  PROVE  /\ \A o \in Operations :
              MayBeCharged(o) => state[o] = "paid" \/ decision[o] = "confirm_failed"
         /\ \A o \in Operations :
              /\ pay_calls'[o] # pay_calls[o] => unsent_pays'[o] < unsent_pays[o]
              /\ voucher_calls'[o] # voucher_calls[o] => unsent_fetches'[o] < unsent_fetches[o]
         /\ ~ CutoverReady' =>
              \E o \in Operations : state[o] = "checked" /\ state'[o] = "processing"
<1> USE DEF IInv, CutoverReady
<1>1. ASSUME NEW o \in Operations, MayBeCharged(o), state[o] # "paid"
      PROVE  decision[o] = "confirm_failed"
  <2>1. ~ (\E h \in Handlers : job[h] = o /\ pc[h] \in {"committed", "counted", "pay_sent"})
    BY DEF LockInv, Paying
  <2>2. CASE state[o] \in BeforePay
    <3>1. pay_calls[o] = 0 /\ unsent_pays[o] = 0
      BY <2>2, NothingAsked
    <3> QED  BY <1>1, <2>1, <3>1 DEF AnswerInv, MayBeCharged
  <2>3. CASE state[o] = "failed"
    <3>1. decision[o] \notin {"none", "record_code", "record_success"}
      BY <1>1, <2>1, <2>3 DEF OutcomeInv, OwnerInv, MayBeCharged
    <3> QED  BY <3>1 DEF TypeOK
  <2> QED  BY <1>1, <2>2, <2>3 DEF TypeOK, TransactionState, BeforePay
<1>2. ASSUME NEW o \in Operations
      PROVE  /\ pay_calls'[o] # pay_calls[o] => unsent_pays'[o] < unsent_pays[o]
             /\ voucher_calls'[o] # voucher_calls[o] => unsent_fetches'[o] < unsent_fetches[o]
  <2>1. state[o] # "processing" /\ ~ MissesCode(o)
    OBVIOUS
  <2> QED  BY <2>1, SendStep, FetchStep DEF Asks, MayAsk, AsksForCode
<1>3. ASSUME ~ CutoverReady'
      PROVE  \E o \in Operations : state[o] = "checked" /\ state'[o] = "processing"
  <2>1. PICK o \in Operations : state'[o] = "processing" \/ MissesCode(o)'
    BY <1>3
  <2>2. state[o] # "processing" /\ ~ MissesCode(o)
    OBVIOUS
  <2>3. ~ MissesCode(o)'
    BY <2>2, StateStep, OutcomeKept DEF MissesCode, KeepsOutcome
  <2> QED  BY <2>1, <2>2, <2>3, StateStep
<1> QED  BY <1>1, <1>2, <1>3

(* A journal that is ready for the cutover hides no charge.                *)
THEOREM CutoverHidesNothing == Spec => CutoverIsComplete
<1>1. IInv /\ [Next]_vars =>
        [CutoverReady =>
            /\ \A o \in Operations :
                  /\ MayBeCharged(o) => state[o] = "paid" \/ decision[o] = "confirm_failed"
                  /\ pay_calls'[o] # pay_calls[o] => unsent_pays'[o] < unsent_pays[o]
                  /\ voucher_calls'[o] # voucher_calls[o] => unsent_fetches'[o] < unsent_fetches[o]
            /\ ~ CutoverReady' =>
                  \E o \in Operations : state[o] = "checked" /\ state'[o] = "processing"]_vars
  BY CutoverStep
<1> QED BY <1>1, Invariant, PTL DEF Spec, CutoverIsComplete

-----------------------------------------------------------------------------
(* What the event of a row's update must say.                              *)
Tells(o) ==
    /\ pay_attempts'[o] # pay_attempts[o] => EventName(o) = "pay_requested"
    /\ voucher_attempts'[o] # voucher_attempts[o] => EventName(o) = "voucher_requested"
    /\ decision'[o] # decision[o] => EventName(o) = "operator_resolved"
    /\ requires_attention'[o] /\ ~ requires_attention[o] => EventName(o) = "attention_required"
    /\ pin_code'[o] # pin_code[o] => EventName(o) \in {"voucher_saved", "operator_resolved"}
    /\ state'[o] # state[o] /\ state'[o] \in {"paid", "failed"} =>
          EventName(o) \in {"state_changed", "operator_resolved"}

logged == <<state, countVars, requires_attention, pin_code, decision>>

(* One name is enough, since no update does two of the things.             *)
LEMMA EventStep ==
  ASSUME TypeOK, LockInv, OwnerInv, [Next]_vars, NEW q \in Operations
  PROVE  Tells(q)
<1> USE DEF TypeOK, LockInv, OwnerInv, Paying, Fetching, BeforePay, Checkable, Tells, countVars
<1>1. ASSUME UNCHANGED logged PROVE Tells(q)
  BY <1>1 DEF logged
<1>2. ASSUME NEW h \in Handlers, SaveCheck(h) PROVE Tells(q)
  BY <1>2 DEF SaveCheck, Touch
<1>3. ASSUME NEW h \in Handlers, CountFirstPay(h) PROVE Tells(q)
  BY <1>3 DEF CountFirstPay, CountPayAttempt, Touch, EventName
<1>4. ASSUME NEW h \in Handlers, SavePayment(h) PROVE Tells(q)
  BY <1>4 DEF SavePayment, Touch, NeedsAttention, EventName
<1>5. ASSUME NEW h \in Handlers, SaveVoucher(h) PROVE Tells(q)
  BY <1>5 DEF SaveVoucher, Touch, MissesCode, EventName
<1>6. ASSUME NEW h \in Handlers, HandlerStep(h) \/ Dies(h) \/ LosesSession(h)
      PROVE  \/ UNCHANGED logged
             \/ SaveCheck(h) \/ CountFirstPay(h) \/ SavePayment(h) \/ SaveVoucher(h)
  BY <1>6 DEF HandlerStep, SendPay, VoucherTaken, AnswerPay, PayTimesOut, AnswerVoucher, Dies,
              LosesSession,
              logged,
              rowVars, ownerVars
<1>7. ASSUME NEW h \in Handlers, NEW o \in Operations, Check(h, o) \/ Pay(h, o) PROVE Tells(q)
  BY <1>7 DEF Check, Pay, Touch
<1>8. ASSUME NEW h \in Handlers, NEW o \in Operations, Reconcile(h, o) PROVE Tells(q)
  BY <1>8 DEF Reconcile, CountPayAttempt, Touch, EventName
<1>9. ASSUME NEW h \in Handlers, NEW o \in Operations, FetchVoucher(h, o) PROVE Tells(q)
  BY <1>9 DEF FetchVoucher, MissesCode, Touch, EventName
<1>10. ASSUME NEW o \in Operations, GiveUpPay(o) \/ GiveUpVoucher(o) PROVE Tells(q)
  BY <1>10 DEF GiveUpPay, GiveUpVoucher, RaiseAttention, MissesCode, Touch, EventName
<1>11. ASSUME NEW o \in Operations, Prepare(o) PROVE Tells(q)
  BY <1>11 DEF Prepare, ownerVars
<1>12. ASSUME NEW o \in Operations, ConfirmFailed(o) PROVE Tells(q)
  BY <1>12 DEF ConfirmFailed, Decide, Refusable, EventName
<1>13. ASSUME NEW o \in Operations, RecordSuccess(o) PROVE Tells(q)
  <2>1. state[o] = "processing" \/ MissesCode(o)
    BY <1>13 DEF RecordSuccess, Resolvable
  <2>2. decision[o] = "none" /\ state[o] # "absent" /\ decision'[o] # "none"
    BY <1>13, <2>1 DEF RecordSuccess, Decide, MissesCode
  <2>3. CASE q = o
    <3>1. EventName(q) = "operator_resolved"
      BY <2>2, <2>3 DEF EventName
    <3>2. UNCHANGED countVars /\ requires_attention'[q] = FALSE
      BY <1>13, <2>3 DEF RecordSuccess, Decide
    <3> QED  BY <3>1, <3>2
  <2>4. CASE q # o
    <3>1. /\ state'[q] = state[q] /\ decision'[q] = decision[q] /\ pin_code'[q] = pin_code[q]
          /\ requires_attention'[q] = requires_attention[q] /\ UNCHANGED countVars
      BY <1>13, <2>4 DEF RecordSuccess, Decide
    <3> QED  BY <3>1
  <2> QED  BY <2>3, <2>4
<1>14. ASSUME NEW o \in Operations,
              \/ Show(o) \/ VerifyUnpaid(o) \/ LateArrives(o) \/ AirpaySettles(o) \/ BecomeDue(o)
              \/ Expire(o) \/ StrayStep(o)
       PROVE  UNCHANGED logged
  BY <1>14 DEF StrayStep, StrayPays, StrayFetches, StrayDies, Show, VerifyUnpaid, LateArrives,
               AirpaySettles, BecomeDue, Expire, logged, rowVars,
               ownerVars
<1>15. ASSUME UNCHANGED vars PROVE UNCHANGED logged
  BY <1>15 DEF vars, logged, rowVars, ownerVars
<1> QED
  BY <1>1, <1>2, <1>3, <1>4, <1>5, <1>6, <1>7, <1>8, <1>9, <1>10, <1>11, <1>12, <1>13, <1>14, <1>15
  DEF Next, Recover

(* The log of events names every attempt, call for the owner, decision,    *)
(* code and outcome, for any number of them.                               *)
THEOREM EventsAreTrue == Spec => EventsTell
<1>1. IInv /\ [Next]_vars =>
        [\A o \in Operations :
            /\ pay_attempts'[o] # pay_attempts[o] => EventName(o) = "pay_requested"
            /\ voucher_attempts'[o] # voucher_attempts[o] => EventName(o) = "voucher_requested"
            /\ decision'[o] # decision[o] => EventName(o) = "operator_resolved"
            /\ requires_attention'[o] /\ ~ requires_attention[o] =>
                  EventName(o) = "attention_required"
            /\ pin_code'[o] # pin_code[o] => EventName(o) \in {"voucher_saved", "operator_resolved"}
            /\ state'[o] # state[o] /\ state'[o] \in {"paid", "failed"} =>
                  EventName(o) \in {"state_changed", "operator_resolved"}]_vars
  BY EventStep DEF Tells, IInv
<1> QED BY <1>1, Invariant, PTL DEF Spec, EventsTell

-----------------------------------------------------------------------------
(* The contract.                                                           *)
Phases == [o \in Operations |-> PhaseOf(o)]
Charges == [o \in Operations |-> remote[o] = "paid"]
Overrides == [o \in Operations |-> decision[o] = "confirm_failed" \/ decision[o] = "record_success"]
ContractStep == [Contract!ContractNext]_(Contract!contractVars)

LEMMA Stutter ==
  ASSUME UNCHANGED <<state, remote, decision>>
  PROVE  ContractStep
<1>1. UNCHANGED <<Phases, Charges, Overrides>>
  BY DEF Phases, PhaseOf, Charges, Overrides
<1> QED BY <1>1 DEF ContractStep, Contract!contractVars, Phases, Charges, Overrides

(* Only o's row changes, so only its phase does.                           *)
LEMMA PhaseChange ==
  ASSUME TypeOK, NEW o \in Operations, NEW s \in TransactionState,
         state' = [state EXCEPT ![o] = s]
  PROVE  Phases' = [Phases EXCEPT ![o] = PhaseOf(o)']
<1>1. \A q \in Operations : q # o => PhaseOf(q)' = PhaseOf(q)
  BY DEF TypeOK, PhaseOf
<1> QED BY <1>1 DEF Phases

(* Airpay charges for an operation only while its outcome is open, or when *)
(* the owner answers for the outcome.                                      *)
LEMMA ChargeStep ==
  ASSUME IInv, NEW o \in Operations, NEW r \in {"processing", "paid", "rejected"},
         remote' = [remote EXCEPT ![o] = r],
         remote[o] = "unpaid" \/ remote[o] = "processing" \/ r = remote[o],
         pay_calls[o] # 0,
         UNCHANGED <<state, decision>>
  PROVE  ContractStep
<1> USE DEF IInv, TypeOK
<1>1. UNCHANGED <<Phases, Overrides>>
  BY DEF Phases, Overrides, PhaseOf
<1>2. CASE r # "paid" \/ remote[o] = "paid"
  <2>1. \A q \in Operations : (remote'[q] = "paid") = (remote[q] = "paid")
    BY <1>2
  <2>2. UNCHANGED Charges
    BY <2>1 DEF Charges
  <2> QED BY <1>1, <2>2 DEF ContractStep, Contract!contractVars, Phases, Charges, Overrides
<1>3. CASE r = "paid" /\ remote[o] # "paid"
  <2>1. \A q \in Operations : (remote'[q] = "paid") = IF q = o THEN TRUE ELSE remote[q] = "paid"
    BY <1>3
  <2>2. Charges' = [q \in Operations |-> IF q = o THEN TRUE ELSE remote[q] = "paid"]
    BY <2>1 DEF Charges
  <2>3. [Charges EXCEPT ![o] = TRUE] = [q \in Operations |-> IF q = o THEN TRUE ELSE remote[q] = "paid"]
    BY DEF Charges
  <2>4. Charges' = [Charges EXCEPT ![o] = TRUE] /\ ~ Charges[o]
    BY <1>3, <2>2, <2>3 DEF Charges
  <2>5. state[o] \notin BeforePay
    BY NothingAsked
  <2>6. state[o] \in {"processing", "paid", "failed"}
    BY <2>5 DEF BeforePay, TransactionState
  <2>7. state[o] = "failed" => decision[o] = "confirm_failed" \/ decision[o] = "record_success"
    BY <1>3 DEF OutcomeInv, OwnerInv
  <2>8. state[o] = "paid" => decision[o] = "record_success"
    BY <1>3 DEF OutcomeInv
  <2>9. Phases[o] = "committed" \/ Overrides[o]
    BY <2>6, <2>7, <2>8 DEF PhaseOf, Phases, Overrides, Checkable
  <2> QED BY <2>4, <2>9, <1>1 DEF ContractStep, Contract!ContractNext, Contract!Charge,
                                  Phases, Charges, Overrides
<1> QED BY <1>2, <1>3

LEMMA OutcomesAre ==
  ASSUME TypeOK, NEW o \in Operations, NEW r \in Outcomes(o)
  PROVE  /\ r \in {"processing", "paid", "rejected"}
         /\ remote[o] = "unpaid" \/ r = remote[o]
<1>1. CASE remote[o] = "unpaid"
  BY <1>1 DEF Outcomes
<1>2. CASE remote[o] # "unpaid"
  <2>1. r = remote[o] /\ remote[o] \in {"processing", "paid", "rejected"}
    BY <1>2 DEF Outcomes, TypeOK, Remote
  <2> QED BY <2>1
<1> QED BY <1>1, <1>2

LEMMA SaveRefines ==
  ASSUME IInv, NEW h \in Handlers, SavePayment(h)
  PROVE  ContractStep
<1> USE DEF IInv, TypeOK, LockInv, Paying
<1>1. PICK o \in Operations : o = job[h]
  BY NoOperationAssumption DEF SavePayment
<1> DEFINE saved == SavedState(answer[h], pay_attempts[o])
<1>2. /\ pc[h] = "saving_payment" /\ state[o] = "processing"
      /\ state' = [state EXCEPT ![o] = saved]
      /\ UNCHANGED <<decision, remote>>
  BY <1>1 DEF SavePayment, Touch, airpayVars
<1>3. saved \in {"processing", "paid", "failed"}
  BY DEF SavedState
<1>4. saved = "paid" => remote[o] = "paid"
  BY <1>1, <1>2 DEF SavedState, AnswerInv
<1>5. saved = "failed" => remote[o] # "paid"
  BY <1>1, <1>2 DEF SavedState, AnswerInv
<1> HIDE DEF saved
<1>6. Phases' = [Phases EXCEPT ![o] = PhaseOf(o)'] /\ Phases[o] = "committed"
  <2>1. saved \in TransactionState
    BY <1>3 DEF TransactionState
  <2> QED BY <1>2, <2>1, PhaseChange DEF Phases, PhaseOf, Checkable
<1>7. UNCHANGED <<Charges, Overrides>>
  BY <1>2 DEF Charges, Overrides
<1>8. CASE saved = "processing"
  BY <1>2, <1>8, Stutter
<1>9. CASE saved = "paid"
  <2>1. Phases' = [Phases EXCEPT ![o] = "succeeded"] /\ Charges[o]
    BY <1>2, <1>4, <1>6, <1>9 DEF PhaseOf, Checkable, Charges
  <2> QED BY <2>1, <1>6, <1>7 DEF ContractStep, Contract!ContractNext, Contract!Succeed,
                                  Phases, Charges, Overrides
<1>10. CASE saved = "failed"
  <2>1. Phases' = [Phases EXCEPT ![o] = "failed"] /\ ~ Charges[o]
    BY <1>2, <1>5, <1>6, <1>10 DEF PhaseOf, Checkable, Charges
  <2> QED BY <2>1, <1>6, <1>7 DEF ContractStep, Contract!ContractNext, Contract!Reject,
                                  Phases, Charges, Overrides
<1> QED BY <1>3, <1>8, <1>9, <1>10

(* A decision on an unknown payment overrides it; one that only records a  *)
(* missing code leaves the contract's state alone.                         *)
LEMMA DecisionRefines ==
  ASSUME IInv, NEW o \in Operations, ConfirmFailed(o) \/ RecordSuccess(o)
  PROVE  ContractStep
<1> USE DEF IInv, TypeOK
<1>1. PICK d \in {"confirm_failed", "record_success", "record_code"} :
         /\ decision' = [decision EXCEPT ![o] = d]
         /\ \/ d = "confirm_failed" /\ state[o] = "processing" /\ state' = [state EXCEPT ![o] = "failed"]
            \/ d = "record_success" /\ state[o] = "processing" /\ state' = [state EXCEPT ![o] = "paid"]
            \/ d = "record_code" /\ MissesCode(o) /\ state' = [state EXCEPT ![o] = "paid"]
  BY DEF ConfirmFailed, RecordSuccess, Decide, Refusable, Resolvable, MissesCode
<1>2. UNCHANGED remote
  BY DEF ConfirmFailed, RecordSuccess, Decide, airpayVars
<1>3. CASE d = "record_code"
  <2>1. state[o] = "paid" /\ decision[o] = "none"
    BY <1>1, <1>3 DEF MissesCode, OwnerInv
  <2>2. UNCHANGED state
    <3>1. state' = [state EXCEPT ![o] = "paid"]
      BY <1>1, <1>3
    <3> QED BY <2>1, <3>1
  <2>3. \A q \in Operations :
           (decision'[q] = "confirm_failed" \/ decision'[q] = "record_success")
               = (decision[q] = "confirm_failed" \/ decision[q] = "record_success")
    BY <1>1, <1>3, <2>1
  <2>4. UNCHANGED <<Phases, Charges, Overrides>>
    BY <1>2, <2>2, <2>3 DEF Phases, PhaseOf, Charges, Overrides
  <2> QED BY <2>4 DEF ContractStep, Contract!contractVars, Phases, Charges, Overrides
<1>4. CASE d # "record_code"
  <2>1. state[o] = "processing" /\ \E s \in {"paid", "failed"} : state' = [state EXCEPT ![o] = s]
    BY <1>1, <1>4
  <2>2. Phases[o] = "committed"
    BY <2>1 DEF Phases, PhaseOf, Checkable
  <2>3. \E outcome \in {"succeeded", "failed"} : Phases' = [Phases EXCEPT ![o] = outcome]
    <3>1. PICK s \in {"paid", "failed"} : state' = [state EXCEPT ![o] = s]
      BY <2>1
    <3>2. PhaseOf(o)' \in {"succeeded", "failed"}
      BY <3>1 DEF PhaseOf, Checkable
    <3> QED BY <3>1, <3>2, PhaseChange DEF TransactionState
  <2>4. \A q \in Operations :
           (decision'[q] = "confirm_failed" \/ decision'[q] = "record_success")
               = IF q = o THEN TRUE ELSE decision[q] = "confirm_failed" \/ decision[q] = "record_success"
    BY <1>1, <1>4
  <2>5. Overrides' = [q \in Operations |->
                        IF q = o THEN TRUE
                        ELSE decision[q] = "confirm_failed" \/ decision[q] = "record_success"]
    BY <2>4 DEF Overrides
  <2>6. Overrides' = [Overrides EXCEPT ![o] = TRUE]
    BY <2>5 DEF Overrides
  <2> QED BY <1>2, <2>2, <2>3, <2>6 DEF ContractStep, Contract!ContractNext, Contract!Override,
                                        Phases, Charges, Overrides
<1> QED BY <1>3, <1>4

LEMMA RefinementStep ==
  ASSUME IInv, [Next]_vars
  PROVE  ContractStep
<1> USE DEF IInv, TypeOK, LockInv, Paying, Fetching
<1>1. ASSUME NEW o \in Operations, Prepare(o) PROVE ContractStep
  <2>1. state[o] = "absent" /\ state' = [state EXCEPT ![o] = "prepared"] /\ UNCHANGED <<remote, decision>>
    BY <1>1 DEF Prepare, ownerVars, airpayVars
  <2>2. Phases' = [Phases EXCEPT ![o] = "open"] /\ Phases[o] = "absent"
    BY <2>1, PhaseChange DEF TransactionState, PhaseOf, Phases, Checkable
  <2>3. UNCHANGED <<Charges, Overrides>>
    BY <2>1 DEF Charges, Overrides
  <2> QED BY <2>2, <2>3 DEF ContractStep, Contract!ContractNext, Contract!Order, Phases, Charges,
                            Overrides
<1>2. ASSUME NEW h \in Handlers, NEW o \in Operations, Pay(h, o) PROVE ContractStep
  <2>1. state[o] = "checked" /\ state' = [state EXCEPT ![o] = "processing"] /\ UNCHANGED <<remote, decision>>
    BY <1>2 DEF Pay, Touch, airpayVars
  <2>2. Phases' = [Phases EXCEPT ![o] = "committed"] /\ Phases[o] = "open"
    <3>1. PhaseOf(o)' = "committed" /\ PhaseOf(o) = "open"
      BY <2>1 DEF PhaseOf, Checkable
    <3> QED BY <2>1, <3>1, PhaseChange DEF TransactionState, Phases
  <2>3. UNCHANGED <<Charges, Overrides>>
    BY <2>1 DEF Charges, Overrides
  <2> QED BY <2>2, <2>3 DEF ContractStep, Contract!ContractNext, Contract!Commit, Phases, Charges,
                            Overrides
<1>3. ASSUME NEW o \in Operations, state[o] \in Checkable,
             NEW s \in Checkable \cup {"check_failed", "checked"},
             state' = [state EXCEPT ![o] = s], UNCHANGED <<remote, decision>>
      PROVE  ContractStep
  <2>1. PhaseOf(o)' = "open" /\ PhaseOf(o) = "open"
    BY <1>3 DEF PhaseOf, Checkable
  <2>2. UNCHANGED <<Phases, Charges, Overrides>>
    <3>1. Phases' = [Phases EXCEPT ![o] = "open"]
      BY <1>3, <2>1, PhaseChange DEF TransactionState, Checkable
    <3>2. UNCHANGED Phases
      BY <2>1, <3>1 DEF Phases
    <3> QED BY <1>3, <3>2 DEF Charges, Overrides
  <2> QED BY <2>2 DEF ContractStep, Contract!contractVars, Phases, Charges, Overrides
<1>4. ASSUME NEW h \in Handlers, NEW o \in Operations, Check(h, o) PROVE ContractStep
  BY <1>3, <1>4 DEF Check, Touch, airpayVars, Checkable
<1>5. ASSUME NEW h \in Handlers, SaveCheck(h) PROVE ContractStep
  <2>1. job[h] \in Operations /\ state[job[h]] \in Checkable
    BY <1>5, NoOperationAssumption DEF SaveCheck, Checkable
  <2>2. PICK s \in {"checked", "check_pending", "check_failed"} : state' = [state EXCEPT ![job[h]] = s]
    BY <1>5 DEF SaveCheck
  <2>3. UNCHANGED <<remote, decision>>
    BY <1>5 DEF SaveCheck, Touch, airpayVars
  <2> QED BY <1>3, <2>1, <2>2, <2>3 DEF Checkable
<1>6. ASSUME NEW h \in Handlers, AnswerPay(h) PROVE ContractStep
  <2>1. PICK o \in Operations : o = job[h]
    BY <1>6, NoOperationAssumption DEF AnswerPay
  <2>2. pay_calls[o] # 0
    BY <1>6, <2>1 DEF AnswerPay, CountInv
  <2>3. UNCHANGED <<state, decision>>
    BY <1>6 DEF AnswerPay, rowVars, ownerVars
  <2>4. PICK r \in Outcomes(o) : remote' = [remote EXCEPT ![o] = r]
    BY <1>6, <2>1 DEF AnswerPay
  <2>5. r \in {"processing", "paid", "rejected"} /\ (remote[o] = "unpaid" \/ r = remote[o])
    BY OutcomesAre
  <2> QED BY <2>2, <2>3, <2>4, <2>5, ChargeStep
<1>7. ASSUME NEW o \in Operations, LateArrives(o) PROVE ContractStep
  <2>1. pay_calls[o] # 0
    BY <1>7 DEF LateArrives, AnswerInv
  <2>2. UNCHANGED <<state, decision>>
    BY <1>7 DEF LateArrives, rowVars, ownerVars
  <2>3. PICK r \in Outcomes(o) : remote' = [remote EXCEPT ![o] = r]
    BY <1>7 DEF LateArrives
  <2>4. r \in {"processing", "paid", "rejected"} /\ (remote[o] = "unpaid" \/ r = remote[o])
    BY OutcomesAre
  <2> QED BY <2>1, <2>2, <2>3, <2>4, ChargeStep
<1>8. ASSUME NEW o \in Operations, AirpaySettles(o) PROVE ContractStep
  <2>1. pay_calls[o] # 0
    BY <1>8 DEF AirpaySettles, AnswerInv
  <2>2. UNCHANGED <<state, decision>>
    BY <1>8 DEF AirpaySettles, rowVars, ownerVars
  <2> QED BY <1>8, <2>1, <2>2, ChargeStep DEF AirpaySettles
<1>9. ASSUME NEW h \in Handlers, SavePayment(h) PROVE ContractStep
  BY <1>9, SaveRefines
<1>10. ASSUME NEW o \in Operations, ConfirmFailed(o) \/ RecordSuccess(o) PROVE ContractStep
  BY <1>10, DecisionRefines
<1>11. ASSUME NEW h \in Handlers,
              \/ CountFirstPay(h) \/ SendPay(h) \/ SaveVoucher(h) \/ VoucherTaken(h)
              \/ PayTimesOut(h) \/ AnswerVoucher(h) \/ Dies(h) \/ LosesSession(h)
       PROVE  UNCHANGED <<state, remote, decision>>
  BY <1>11 DEF CountFirstPay, CountPayAttempt, SendPay, SaveVoucher, VoucherTaken, PayTimesOut,
               AnswerVoucher, Dies, LosesSession, Touch, rowVars, ownerVars, airpayVars
<1>12. ASSUME NEW o \in Operations,
              \/ Recover(o) \/ Show(o) \/ VerifyUnpaid(o) \/ BecomeDue(o) \/ Expire(o)
              \/ StrayStep(o)
       PROVE  UNCHANGED <<state, remote, decision>>
  BY <1>12 DEF StrayStep, StrayPays, StrayFetches, StrayDies, Recover, Reconcile, FetchVoucher,
               GiveUpPay, GiveUpVoucher, RaiseAttention,
               CountPayAttempt,
               Show, VerifyUnpaid, BecomeDue, Expire, Touch, rowVars, ownerVars, airpayVars
<1>13. ASSUME NEW h \in Handlers, HandlerStep(h) \/ Dies(h) \/ LosesSession(h) PROVE ContractStep
  BY <1>13, <1>5, <1>6, <1>9, <1>11, Stutter DEF HandlerStep
<1>14. CASE UNCHANGED vars
  BY <1>14, Stutter DEF vars, rowVars, ownerVars, airpayVars
<1>15. CASE Next
  BY <1>15, <1>1, <1>2, <1>4, <1>7, <1>8, <1>10, <1>12, <1>13, Stutter DEF Next
<1> QED BY <1>14, <1>15

LEMMA NoOverrides ==
  ASSUME \A o \in Operations : decision[o] = "none"
  PROVE  Overrides = [o \in Operations |-> FALSE]
  BY DEF Overrides

(* Every behaviour of rows, handlers, owner and Airpay is one the contract *)
(* allows.                                                                 *)
THEOREM AirpayImplementsContract == Spec => ImplementsContract
<1>1. Init => Contract!ContractInit
  <2> SUFFICES ASSUME Init PROVE Contract!ContractInit
    OBVIOUS
  <2>1. \A o \in Operations : PhaseOf(o) = "absent" /\ remote[o] # "paid" /\ decision[o] = "none"
    BY DEF Init, PhaseOf, Checkable
  <2>2. Charges = [o \in Operations |-> FALSE]
    BY <2>1 DEF Charges
  <2>3. Overrides = [o \in Operations |-> FALSE]
    BY <2>1, NoOverrides
  <2> QED BY <2>1, <2>2, <2>3 DEF Contract!ContractInit, Charges, Overrides
<1>2. IInv /\ [Next]_vars => [Contract!ContractNext]_(Contract!contractVars)
  BY RefinementStep DEF ContractStep
<1> QED BY <1>1, <1>2, Invariant, PTL DEF Spec, ImplementsContract, Contract!ContractSpec

-----------------------------------------------------------------------------
(* The journal.                                                            *)
JournalStep == [Journal!JournalNext]_(Journal!journalVars)

LEMMA StagesStay ==
  ASSUME UNCHANGED <<state, purchase_ready, expired>>
  PROVE  JournalStep
<1>1. Stages' = Stages
  BY DEF Stages, StageOf
<1> QED  BY <1>1 DEF JournalStep, Journal!journalVars

(* Only o's row changes, and with it what it tells.                        *)
LEMMA StageMoves ==
  ASSUME TypeOK, NEW o \in Operations,
         \A q \in Operations \ {o} : state'[q] = state[q] /\ purchase_ready'[q] = purchase_ready[q],
         UNCHANGED expired
  PROVE  \A s : StageOf(o)' = s => Journal!Becomes(o, s)
<1>1. \A q \in Operations \ {o} : StageOf(q)' = StageOf(q)
  BY DEF StageOf
<1>2. Stages' = [Stages EXCEPT ![o] = StageOf(o)']
  BY <1>1 DEF Stages
<1> QED  BY <1>2 DEF Journal!Becomes

(* A move to the stage one is at is none.                                  *)
LEMMA MoveInPlace ==
  ASSUME NEW o \in Operations, Journal!Becomes(o, StageOf(o))
  PROVE  JournalStep
<1>1. Stages[o] = StageOf(o)
  BY DEF Stages
<1>2. Stages' = Stages
  BY <1>1 DEF Journal!Becomes, Stages
<1> QED  BY <1>2 DEF Journal!Becomes, JournalStep, Journal!journalVars

LEMMA StageAt == \A o \in Operations : Stages[o] = StageOf(o)
  BY DEF Stages

(* What a row says of its payment it tells as it is.                       *)
LEMMA StageIs ==
  ASSUME NEW o \in Operations
  PROVE  /\ state[o] = "absent" => StageOf(o) = "absent"
         /\ state[o] \in Checkable => StageOf(o) = "prepared"
         /\ state[o] = "checked" /\ purchase_ready[o] => StageOf(o) = "checked"
         /\ state[o] = "checked" /\ ~ purchase_ready[o] => StageOf(o) = "refused"
         /\ state[o] = "check_failed" => StageOf(o) = "refused"
         /\ state[o] = "processing" => StageOf(o) = "processing"
         /\ state[o] = "paid" => StageOf(o) = "paid"
         /\ state[o] = "failed" => StageOf(o) = "failed"
BY DEF StageOf, Checkable

(* A payment that is under way ends as its new row says.                   *)
LEMMA PaymentStep ==
  ASSUME TypeOK, NEW o \in Operations, state[o] = "processing",
         NEW s \in {"processing", "paid", "failed"},
         state' = [state EXCEPT ![o] = s],
         UNCHANGED <<purchase_ready, expired>>
  PROVE  JournalStep
<1>1. state'[o] = s /\ \A q \in Operations \ {o} : state'[q] = state[q]
  BY DEF TypeOK
<1>2. StageOf(o)' = s /\ StageOf(o) = "processing"
  BY <1>1 DEF StageOf, Checkable
<1>3. Journal!Becomes(o, s)
  BY <1>1, <1>2, StageMoves
<1>4. CASE s = "processing"
  BY <1>2, <1>3, <1>4, MoveInPlace
<1>5. CASE s # "processing"
  <2>1. Journal!PaymentEnds(o, s)
    BY <1>2, <1>3, StageAt DEF Journal!PaymentEnds
  <2> QED  BY <1>5, <2>1 DEF JournalStep, Journal!JournalNext
<1> QED  BY <1>4, <1>5

(* Every step goes the journal's way; who saves an answer still finds the  *)
(* row as it was when he asked, thanks to the lock.                        *)
LEMMA JournalSteps ==
  ASSUME TypeOK, LockInv, [Next]_vars
  PROVE  JournalStep
<1>1. ASSUME NEW o \in Operations, Prepare(o) PROVE JournalStep
  <2>1. StageOf(o) = "absent" /\ StageOf(o)' = "prepared"
    BY <1>1 DEF TypeOK, Prepare, StageOf, Checkable
  <2>2. Journal!Becomes(o, "prepared")
    BY <1>1, <2>1, StageMoves DEF TypeOK, Prepare
  <2>3. Journal!Insert(o)
    BY <2>1, <2>2, StageAt DEF Journal!Insert
  <2> QED  BY <2>3 DEF JournalStep, Journal!JournalNext
<1>2. ASSUME NEW h \in Handlers, NEW o \in Operations, Check(h, o) PROVE JournalStep
  <2>1. StageOf(o) = "prepared" /\ StageOf(o)' = "prepared"
    BY <1>2 DEF TypeOK, Check, StageOf, Checkable
  <2>2. Journal!Becomes(o, "prepared")
    BY <1>2, <2>1, StageMoves DEF TypeOK, Check
  <2> QED  BY <2>1, <2>2, MoveInPlace
<1>3. ASSUME NEW h \in Handlers, SaveCheck(h) PROVE JournalStep
  <2>1. PICK o \in Operations : o = job[h] /\ state[o] = "checking"
    BY <1>3 DEF TypeOK, LockInv, SaveCheck
  <2>2. PICK result \in {"checked", "check_pending", "check_failed"}, ready \in BOOLEAN :
          /\ ready => result = "checked"
          /\ state' = [state EXCEPT ![o] = result]
          /\ purchase_ready' = [purchase_ready EXCEPT ![o] = ready]
    BY <1>3, <2>1 DEF SaveCheck
  <2>3. /\ state'[o] = result /\ purchase_ready'[o] = ready
        /\ \A q \in Operations \ {o} : state'[q] = state[q] /\ purchase_ready'[q] = purchase_ready[q]
        /\ UNCHANGED expired
    BY <1>3, <2>1, <2>2 DEF TypeOK, SaveCheck
  <2>4. StageOf(o) = "prepared"
    BY <2>1 DEF StageOf, Checkable
  <2>5. /\ result = "check_pending" => StageOf(o)' = "prepared"
        /\ result = "checked" /\ ready => StageOf(o)' = "checked"
        /\ ~ ready /\ result # "check_pending" => StageOf(o)' = "refused"
    BY <2>3 DEF StageOf, Checkable
  <2>6. \A s : StageOf(o)' = s => Journal!Becomes(o, s)
    BY <2>1, <2>3, StageMoves
  <2>7. CASE result = "check_pending"
    BY <2>1, <2>4, <2>5, <2>6, <2>7, MoveInPlace
  <2>8. CASE result # "check_pending"
    <3>1. PICK verdict \in {"checked", "refused"} : Journal!Becomes(o, verdict)
      BY <2>2, <2>5, <2>6, <2>8
    <3>2. Journal!CheckEnds(o, verdict)
      BY <2>1, <2>4, <3>1, StageAt DEF Journal!CheckEnds
    <3> QED  BY <2>1, <3>2 DEF JournalStep, Journal!JournalNext
  <2> QED  BY <2>7, <2>8
<1>4. ASSUME NEW h \in Handlers, NEW o \in Operations, Pay(h, o) PROVE JournalStep
  <2>1. StageOf(o) = "checked" /\ StageOf(o)' = "processing" /\ ~ expired[o]
    BY <1>4 DEF TypeOK, Pay, StageOf, Checkable
  <2>2. Journal!Becomes(o, "processing")
    BY <1>4, <2>1, StageMoves DEF TypeOK, Pay
  <2>3. Journal!Commit(o)
    BY <2>1, <2>2, StageAt DEF Journal!Commit
  <2> QED  BY <2>3 DEF JournalStep, Journal!JournalNext
<1>5. ASSUME NEW h \in Handlers, SavePayment(h) PROVE JournalStep
  <2>1. job[h] \in Operations /\ state[job[h]] = "processing"
    BY <1>5 DEF TypeOK, LockInv, Paying, SavePayment
  <2>2. PICK s \in {"processing", "paid", "failed"} : state' = [state EXCEPT ![job[h]] = s]
    BY <1>5 DEF SavePayment, SavedState
  <2> QED  BY <1>5, <2>1, <2>2, PaymentStep DEF SavePayment
<1>6. ASSUME NEW o \in Operations, ConfirmFailed(o) PROVE JournalStep
  BY <1>6, PaymentStep DEF ConfirmFailed, Refusable, Decide
<1>7. ASSUME NEW o \in Operations, RecordSuccess(o) PROVE JournalStep
  <2>1. state' = [state EXCEPT ![o] = "paid"] /\ UNCHANGED <<purchase_ready, expired>>
    BY <1>7 DEF RecordSuccess, Decide
  <2>2. CASE state[o] = "processing"
    BY <2>1, <2>2, PaymentStep
  <2>3. CASE state[o] = "paid"
    BY <2>1, <2>3, StagesStay DEF TypeOK
  <2> QED  BY <1>7, <2>2, <2>3 DEF RecordSuccess, Resolvable, MissesCode
<1>8. ASSUME NEW o \in Operations, Expire(o) PROVE JournalStep
  <2>1. Stages' = Stages
    BY <1>8 DEF Expire, Stages, StageOf
  <2>2. expired' = [q \in Operations |-> expired[q] \/ q \in {o}]
    BY <1>8 DEF Expire, TypeOK
  <2>3. Journal!Expire({o})
    BY <2>1, <2>2 DEF Journal!Expire
  <2> QED  BY <2>3 DEF JournalStep, Journal!JournalNext
<1>9. ASSUME NEW h \in Handlers, HandlerStep(h) \/ Dies(h) \/ LosesSession(h) PROVE JournalStep
  <2>1. \/ SaveCheck(h) \/ SavePayment(h) \/ UNCHANGED <<state, purchase_ready, expired>>
    BY <1>9 DEF HandlerStep, CountFirstPay, SendPay, SaveVoucher, VoucherTaken, AnswerPay,
                PayTimesOut, AnswerVoucher, Dies, LosesSession, rowVars
  <2> QED  BY <2>1, <1>3, <1>5, StagesStay
<1>10. ASSUME NEW o \in Operations,
              \/ Recover(o) \/ Show(o) \/ VerifyUnpaid(o) \/ LateArrives(o) \/ AirpaySettles(o)
              \/ BecomeDue(o) \/ StrayStep(o)
       PROVE  JournalStep
  <2>1. UNCHANGED <<state, purchase_ready, expired>>
    BY <1>10 DEF StrayStep, StrayPays, StrayFetches, StrayDies, Recover, Reconcile, FetchVoucher,
                 GiveUpPay, GiveUpVoucher, RaiseAttention,
                 Show, VerifyUnpaid, LateArrives, AirpaySettles, BecomeDue, rowVars
  <2> QED  BY <2>1, StagesStay
<1>11. CASE UNCHANGED vars
  BY <1>11, StagesStay DEF vars, rowVars
<1> QED  BY <1>1, <1>2, <1>4, <1>6, <1>7, <1>8, <1>9, <1>10, <1>11 DEF Next

(* The rows of operations are the journal that AirpayBatch works on: checks*)
(* and payments end as they were begun, with however many handlers, deaths *)
(* and decisions of the owner.                                             *)
THEOREM AirpayImplementsJournal == Spec => ImplementsJournal
<1>1. Init => Journal!JournalInit
  BY StageIs DEF Init, Stages, Journal!JournalInit
<1>2. IInv /\ [Next]_vars => [Journal!JournalNext]_(Journal!journalVars)
  BY JournalSteps DEF IInv, JournalStep
<1> QED  BY <1>1, <1>2, Invariant, PTL DEF Spec, ImplementsJournal, Journal!JournalSpec

(* What a paying handler of a batch does to a row is `Pay', the beginning  *)
(* of a payment here: requests, repetitions and decisions go on from there *)
(* (AirpayBatch.pay calls AirpayPurchase.pay for each position).           *)
THEOREM AirpayAdmitsBatches ==
  ASSUME TypeOK, TypeOK', NEW o \in Operations, NEW h \in Handlers,
         Journal!Commit(o),
         \A q \in Operations \ {o} : state'[q] = state[q],
         Acquire(h, o, "committed"), Touch(o),
         UNCHANGED <<purchase_ready, waiting, countVars, requires_attention, pin_code, airpayVars>>
  PROVE  Pay(h, o)
<1>1. StageOf(o) = "checked" /\ StageOf(o)' = "processing" /\ ~ expired[o] /\ UNCHANGED expired
  <2>1. Stages'[o] = "processing" /\ Stages[o] = "checked"
    BY DEF Journal!Commit, Journal!Becomes, Stages
  <2> QED  BY <2>1 DEF Journal!Commit, Journal!Becomes, Stages
<1>2. state[o] = "checked" /\ purchase_ready[o]
  BY <1>1, StageIs DEF TypeOK, TransactionState, Checkable
<1>3. state'[o] = "processing"
  BY <1>1, StageIs DEF TypeOK, TransactionState, Checkable, StageOf
<1>4. state' = [state EXCEPT ![o] = "processing"]
  BY <1>3 DEF TypeOK
<1> QED  BY <1>1, <1>2, <1>4 DEF Pay
=============================================================================
