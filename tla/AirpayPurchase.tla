---------------------------- MODULE AirpayPurchase ----------------------------
(***************************************************************************)
(* The life of Airpay operations: the rows of                              *)
(* supplier_hub_airpay.airpay_transactions, the handlers (API requests and *)
(* the job thread) that each hold an operation's session lock while they   *)
(* call Airpay, the owner who closes an operation by hand, and, as the     *)
(* environment, Airpay, the network to it and the passing of time.  Every  *)
(* committed update, every request and every answer is one step.           *)
(*                                                                         *)
(* A session lock is freed by Postgres when the connection it was taken on *)
(* goes away, and all writes of its holder go through that connection.  A  *)
(* holder that lost it can write nothing more, but does not know of it     *)
(* before it writes next: between the commit of an attempt and the call it *)
(* was counted for it touches no database, so it still makes that call,    *)
(* whoever has the lock by then and whatever they decided.                 *)
(*                                                                         *)
(* Sources: api/airpay_runtime/airpay_purchase.py, airpay_repository.py,   *)
(* airpay_resolution.py.                                                   *)
(***************************************************************************)
EXTENDS Naturals, FiniteSets

CONSTANTS
    Operations,           \* operations that may be prepared (one preparation key each)
    Topups,               \* those of kind topup; the others are vouchers
    Handlers,             \* API threads and the job thread
    Codes,                \* voucher codes
    OldCodes,             \* those stored with operations of the past
    NoOperation, NoCode,
    MaxOperations,        \* bound on the operations prepared
    MaxRecoveryAttempts   \* MAX_RECOVERY_ATTEMPTS, 5 in airpay_purchase.py

ASSUME TopupsAssumption == Topups \subseteq Operations
ASSUME NoOperationAssumption == NoOperation \notin Operations
ASSUME NoCodeAssumption == NoCode \notin Codes
ASSUME OldCodesAssumption == OldCodes \subseteq Codes
ASSUME MaxOperationsAssumption == MaxOperations \in Nat
ASSUME MaxRecoveryAssumption == MaxRecoveryAttempts \in Nat \ {0}

VARIABLES
    \* Columns of airpay_transactions.
    state,               \* "absent" before the row is inserted
    purchase_ready,      \* check_result.purchase_ready
    expired,             \* expires_at <= now
    waiting,             \* next_attempt_at > now
    pay_attempts,
    voucher_attempts,
    requires_attention,
    pin_code,
    \* The row of airpay_operator_actions and what the owner's page shows.
    decision,            \* the decision, "record_code" for record_success of a paid row
    evidence,            \* what the decision rested on
    view,                \* the owner has the row open, and perhaps asked Airpay
    current,             \* updated_at of the open copy is that of the row
    \* Handlers.
    pc,
    job,                 \* the operation whose session lock the handler holds
    answer,              \* Airpay's answer being saved
    \* Calls to Airpay, and Airpay.
    pay_calls,           \* pay requests sent for the operation
    voucher_calls,       \* voucher requests sent for it
    unsent_pays,         \* threads without a session that have yet to call pay
    unsent_fetches,      \* and those that have yet to ask for the code
    late,                \* a pay request nobody waits for is still on its way
    remote,              \* Airpay's view of the operation
    issued               \* the code Airpay delivers for it

countVars == <<pay_attempts, voucher_attempts>>
rowVars == <<state, purchase_ready, expired, waiting, countVars,
             requires_attention, pin_code>>
ownerVars == <<decision, evidence, view, current>>
handlerVars == <<pc, job, answer>>
strayVars == <<unsent_pays, unsent_fetches>>
airpayVars == <<pay_calls, voucher_calls, strayVars, late, remote, issued>>
vars == <<rowVars, ownerVars, handlerVars, airpayVars>>

Checkable == {"prepared", "checking", "check_pending"}
TransactionState == Checkable \cup {"check_failed", "checked", "processing", "paid", "failed"}
Step == {"idle", "checking", "committed", "counted", "pay_sent", "saving_payment",
         "fetching", "saving_code"}
Answer == {"none", "paid", "refused", "duplicate", "pending", "code", "no_code", "error"}
Remote == {"unpaid", "processing", "paid", "rejected"}

TypeOK ==
    /\ state \in [Operations -> TransactionState \cup {"absent"}]
    /\ purchase_ready \in [Operations -> BOOLEAN]
    /\ expired \in [Operations -> BOOLEAN]
    /\ waiting \in [Operations -> BOOLEAN]
    /\ pay_attempts \in [Operations -> Nat]
    /\ voucher_attempts \in [Operations -> Nat]
    /\ requires_attention \in [Operations -> BOOLEAN]
    /\ pin_code \in [Operations -> Codes \cup {NoCode}]
    /\ decision \in [Operations -> {"none", "confirm_failed", "record_success", "record_code"}]
    /\ evidence \in [Operations -> {"none", "claimed", "verified"}]
    /\ view \in [Operations -> {"none", "shown", "verified"}]
    /\ current \in [Operations -> BOOLEAN]
    /\ pc \in [Handlers -> Step]
    /\ job \in [Handlers -> Operations \cup {NoOperation}]
    /\ answer \in [Handlers -> Answer]
    /\ pay_calls \in [Operations -> Nat]
    /\ voucher_calls \in [Operations -> Nat]
    /\ unsent_pays \in [Operations -> Nat]
    /\ unsent_fetches \in [Operations -> Nat]
    /\ late \in [Operations -> BOOLEAN]
    /\ remote \in [Operations -> Remote]
    /\ issued \in [Operations -> Codes \cup {NoCode}]

Init ==
    /\ state = [o \in Operations |-> "absent"]
    /\ purchase_ready = [o \in Operations |-> FALSE]
    /\ expired = [o \in Operations |-> FALSE]
    /\ waiting = [o \in Operations |-> FALSE]
    /\ pay_attempts = [o \in Operations |-> 0]
    /\ voucher_attempts = [o \in Operations |-> 0]
    /\ requires_attention = [o \in Operations |-> FALSE]
    /\ pin_code = [o \in Operations |-> NoCode]
    /\ decision = [o \in Operations |-> "none"]
    /\ evidence = [o \in Operations |-> "none"]
    /\ view = [o \in Operations |-> "none"]
    /\ current = [o \in Operations |-> FALSE]
    /\ pc = [h \in Handlers |-> "idle"]
    /\ job = [h \in Handlers |-> NoOperation]
    /\ answer = [h \in Handlers |-> "none"]
    /\ pay_calls = [o \in Operations |-> 0]
    /\ voucher_calls = [o \in Operations |-> 0]
    /\ unsent_pays = [o \in Operations |-> 0]
    /\ unsent_fetches = [o \in Operations |-> 0]
    /\ late = [o \in Operations |-> FALSE]
    /\ remote = [o \in Operations |-> "unpaid"]
    /\ issued = [o \in Operations |-> NoCode]

-----------------------------------------------------------------------------
(* The session lock, and the stamp every update puts on the row.           *)

Slip_NoLock(o) == TRUE
Free(o) == \A h \in Handlers : job[h] # o

(* locked: a handler takes the lock with its first commit; the reads and   *)
(* refusals before it leave no trace.                                      *)
Acquire(h, o, step) ==
    /\ pc[h] = "idle"
    /\ Free(o)
    /\ pc' = [pc EXCEPT ![h] = step]
    /\ job' = [job EXCEPT ![h] = o]
    /\ UNCHANGED answer

Release(h) ==
    /\ pc' = [pc EXCEPT ![h] = "idle"]
    /\ job' = [job EXCEPT ![h] = NoOperation]
    /\ answer' = [answer EXCEPT ![h] = "none"]

(* AirpayRecord.update sets updated_at.                                    *)
Touch(o) ==
    /\ current' = [current EXCEPT ![o] = FALSE]
    /\ UNCHANGED <<decision, evidence, view>>

-----------------------------------------------------------------------------
(* Preparation and check.                                                  *)

Room == Cardinality({o \in Operations : state[o] # "absent"}) < MaxOperations

Prepare(o) ==
    /\ state[o] = "absent"
    /\ Room
    /\ state' = [state EXCEPT ![o] = "prepared"]
    /\ UNCHANGED <<purchase_ready, expired, waiting, countVars, requires_attention,
                   pin_code, ownerVars, handlerVars, airpayVars>>

(* The signed draft of an expired preparation is refused.                  *)
Check(h, o) ==
    /\ state[o] \in Checkable
    /\ ~ expired[o]
    /\ ~ waiting[o]
    /\ Acquire(h, o, "checking")
    /\ state' = [state EXCEPT ![o] = "checking"]
    /\ waiting' = [waiting EXCEPT ![o] = TRUE]
    /\ Touch(o)
    /\ UNCHANGED <<purchase_ready, expired, countVars, requires_attention, pin_code,
                   airpayVars>>

(* Accepted, accepted without a usable price or balance, to be repeated,   *)
(* or refused.  An answer that does not come leaves it to be repeated.     *)
SaveCheck(h) ==
    LET o == job[h] IN
    /\ pc[h] = "checking"
    /\ \E result \in {"checked", "check_pending", "check_failed"}, ready \in BOOLEAN :
          /\ ready => result = "checked"
          /\ state' = [state EXCEPT ![o] = result]
          /\ purchase_ready' = [purchase_ready EXCEPT ![o] = ready]
          /\ waiting' = [waiting EXCEPT ![o] = result = "check_pending"]
    /\ Release(h)
    /\ Touch(o)
    /\ UNCHANGED <<expired, countVars, requires_attention, pin_code, airpayVars>>

-----------------------------------------------------------------------------
(* Payment.                                                                *)

Slip_PayUncommitted(h, o) ==
    /\ state[o] = "checked"
    /\ Acquire(h, o, "committed")
    /\ Touch(o)
    /\ UNCHANGED <<rowVars, airpayVars>>

(* pay: the owner confirms a fresh price; the request is fixed and the     *)
(* operation is committed before anything is sent.                         *)
Pay(h, o) ==
    /\ state[o] = "checked"
    /\ purchase_ready[o]
    /\ ~ expired[o]
    /\ Acquire(h, o, "committed")
    /\ state' = [state EXCEPT ![o] = "processing"]
    /\ Touch(o)
    /\ UNCHANGED <<purchase_ready, expired, waiting, countVars, requires_attention,
                   pin_code, airpayVars>>

(* What send_pay commits before it calls Airpay.                           *)
CountPayAttempt(o) ==
    /\ pay_attempts' = [pay_attempts EXCEPT ![o] = @ + 1]
    /\ waiting' = [waiting EXCEPT ![o] = TRUE]
    /\ Touch(o)

CountFirstPay(h) ==
    /\ pc[h] = "committed"
    /\ pc' = [pc EXCEPT ![h] = "counted"]
    /\ CountPayAttempt(job[h])
    /\ UNCHANGED <<state, purchase_ready, expired, voucher_attempts, requires_attention,
                   pin_code, job, answer, airpayVars>>

Slip_OneAttemptMore(attempts) == attempts > MaxRecoveryAttempts
UsedUp(attempts) == attempts >= MaxRecoveryAttempts

(* reconcile repeats the saved request, or gives the operation up.         *)
Reconcile(h, o) ==
    /\ state[o] = "processing"
    /\ ~ requires_attention[o]
    /\ ~ UsedUp(pay_attempts[o])
    /\ ~ waiting[o]
    /\ Acquire(h, o, "counted")
    /\ CountPayAttempt(o)
    /\ UNCHANGED <<state, purchase_ready, expired, voucher_attempts, requires_attention,
                   pin_code, airpayVars>>

RaiseAttention(o) ==
    /\ Free(o)
    /\ requires_attention' = [requires_attention EXCEPT ![o] = TRUE]
    /\ Touch(o)
    /\ UNCHANGED <<state, purchase_ready, expired, waiting, countVars, pin_code,
                   handlerVars, airpayVars>>

Slip_RefuseSilently(o) == FALSE
GiveUpPay(o) ==
    /\ state[o] = "processing"
    /\ requires_attention[o] \/ UsedUp(pay_attempts[o])
    /\ RaiseAttention(o)

SendPay(h) ==
    /\ pc[h] = "counted"
    /\ pc' = [pc EXCEPT ![h] = "pay_sent"]
    /\ pay_calls' = [pay_calls EXCEPT ![job[h]] = @ + 1]
    /\ UNCHANGED <<rowVars, ownerVars, job, answer, voucher_calls, strayVars, late, remote,
                   issued>>

(* save: code 0, a final refusal, 202 ("already known", which proves a     *)
(* refusal only of the first request), anything else.                      *)
Slip_RepeatRefused(a, attempts) ==
    IF a = "paid" THEN "paid" ELSE IF a \in {"refused", "duplicate"} THEN "failed" ELSE "processing"
Slip_DuplicateIsPaid(a, attempts) ==
    IF a = "paid" \/ (a = "duplicate" /\ attempts > 1) THEN "paid"
    ELSE IF a \in {"refused", "duplicate"} THEN "failed" ELSE "processing"
SavedState(a, attempts) ==
    IF a = "paid" THEN "paid"
    ELSE IF a = "refused" \/ (a = "duplicate" /\ attempts <= 1) THEN "failed"
    ELSE "processing"

Slip_AttentionOfAny(saved, attempts) == UsedUp(attempts)
NeedsAttention(saved, attempts) == saved = "processing" /\ UsedUp(attempts)

SavePayment(h) ==
    LET o == job[h]
        saved == SavedState(answer[h], pay_attempts[o])
    IN
    /\ pc[h] = "saving_payment"
    /\ state' = [state EXCEPT ![o] = saved]
    /\ waiting' = [waiting EXCEPT ![o] = saved = "processing"]
    /\ requires_attention' = [requires_attention EXCEPT
                                ![o] = NeedsAttention(saved, pay_attempts[o])]
    /\ Release(h)
    /\ Touch(o)
    /\ UNCHANGED <<purchase_ready, expired, countVars, pin_code, airpayVars>>

-----------------------------------------------------------------------------
(* The voucher's code.                                                     *)

MissesCode(o) == state[o] = "paid" /\ o \notin Topups /\ pin_code[o] = NoCode

(* The attempt is counted before the request for the code is sent.         *)
FetchVoucher(h, o) ==
    /\ MissesCode(o)
    /\ ~ requires_attention[o]
    /\ ~ UsedUp(voucher_attempts[o])
    /\ ~ waiting[o]
    /\ Acquire(h, o, "fetching")
    /\ voucher_attempts' = [voucher_attempts EXCEPT ![o] = @ + 1]
    /\ waiting' = [waiting EXCEPT ![o] = TRUE]
    /\ Touch(o)
    /\ UNCHANGED <<state, purchase_ready, expired, pay_attempts, requires_attention,
                   pin_code, airpayVars>>

GiveUpVoucher(o) ==
    /\ MissesCode(o)
    /\ requires_attention[o] \/ UsedUp(voucher_attempts[o])
    /\ RaiseAttention(o)

(* uq_airpay_result_hash *)
Slip_NothingTaken(o, c) == FALSE
Taken(o, c) == c \in OldCodes \/ \E q \in Operations \ {o} : pin_code[q] = c

SaveVoucher(h) ==
    LET o == job[h] IN
    /\ pc[h] = "saving_code"
    /\ ~ (answer[h] = "code" /\ Taken(o, issued[o]))
    /\ IF answer[h] = "code"
         THEN /\ pin_code' = [pin_code EXCEPT ![o] = issued[o]]
              /\ waiting' = [waiting EXCEPT ![o] = FALSE]
              /\ UNCHANGED requires_attention
         ELSE /\ requires_attention' = [requires_attention EXCEPT
                                          ![o] = @ \/ UsedUp(voucher_attempts[o])]
              /\ UNCHANGED <<pin_code, waiting>>
    /\ Release(h)
    /\ Touch(o)
    /\ UNCHANGED <<state, purchase_ready, expired, countVars, airpayVars>>

(* Another operation holds the code: the update fails, the handler ends in *)
(* an error nobody catches, and the row keeps the counted attempt.         *)
VoucherTaken(h) ==
    /\ pc[h] = "saving_code"
    /\ answer[h] = "code"
    /\ Taken(job[h], issued[job[h]])
    /\ Release(h)
    /\ UNCHANGED <<rowVars, ownerVars, airpayVars>>

-----------------------------------------------------------------------------
(* The owner.                                                              *)

Resolvable(o) == state[o] = "processing" \/ MissesCode(o)

(* The owner opens the page of an unfinished operation ...                 *)
Show(o) ==
    /\ Resolvable(o)
    /\ ~ current[o]
    /\ view' = [view EXCEPT ![o] = "shown"]
    /\ current' = [current EXCEPT ![o] = TRUE]
    /\ UNCHANGED <<rowVars, decision, evidence, handlerVars, airpayVars>>

(* ... and has Airpay confirm that it took no money, with no request of    *)
(* the Hub under way and no thread left that would send one.               *)
VerifyUnpaid(o) ==
    /\ state[o] = "processing"
    /\ view[o] = "shown"
    /\ Free(o)
    /\ unsent_pays[o] = 0
    /\ ~ late[o]
    /\ remote[o] \in {"unpaid", "rejected"}
    /\ view' = [view EXCEPT ![o] = "verified"]
    /\ UNCHANGED <<rowVars, decision, evidence, current, handlerVars, airpayVars>>

Slip_AnyVersion(o) == view[o] # "none"
StampMatches(o) == current[o]

(* resolve: one transaction under the operation's lock.                    *)
Decide(o, d) ==
    /\ Free(o)
    /\ StampMatches(o)
    /\ decision' = [decision EXCEPT ![o] = d]
    /\ evidence' = [evidence EXCEPT ![o] = IF view[o] = "verified" THEN "verified" ELSE "claimed"]
    /\ view' = [view EXCEPT ![o] = "none"]
    /\ current' = [current EXCEPT ![o] = FALSE]
    /\ requires_attention' = [requires_attention EXCEPT ![o] = FALSE]
    /\ waiting' = [waiting EXCEPT ![o] = FALSE]
    /\ UNCHANGED <<purchase_ready, expired, countVars, handlerVars, airpayVars>>

Slip_RefuseAny(o) == Resolvable(o)
Refusable(o) == state[o] = "processing"

ConfirmFailed(o) ==
    /\ Refusable(o)
    /\ Decide(o, "confirm_failed")
    /\ state' = [state EXCEPT ![o] = "failed"]
    /\ UNCHANGED pin_code

(* A topup is recorded without a code, a voucher only with one that no     *)
(* other operation holds.                                                  *)
RecordSuccess(o) ==
    /\ Resolvable(o)
    /\ Decide(o, IF state[o] = "paid" THEN "record_code" ELSE "record_success")
    /\ state' = [state EXCEPT ![o] = "paid"]
    /\ IF o \in Topups
         THEN UNCHANGED pin_code
         ELSE \E c \in Codes :
                 /\ ~ Taken(o, c)
                 /\ pin_code' = [pin_code EXCEPT ![o] = c]

-----------------------------------------------------------------------------
(* What others read.                                                       *)

(* cutover_status: no payment without an outcome and no paid voucher       *)
(* without its code is left (nor a job, see AirpayJobs).                   *)
Slip_PaymentsOnly == \A o \in Operations : state[o] # "processing"
CutoverReady == \A o \in Operations : state[o] # "processing" /\ ~ MissesCode(o)

(* airpay_record_event: the one name under which the trigger logs an       *)
(* update, in the order of its branches.  Only a check writes "checking",  *)
(* and always counts an attempt with it.                                   *)
Slip_StateFirst(o) ==
    IF state[o] = "absent" THEN "prepared"
    ELSE IF state'[o] # state[o] THEN "state_changed"
    ELSE IF decision'[o] # decision[o] THEN "operator_resolved"
    ELSE IF requires_attention'[o] /\ ~ requires_attention[o] THEN "attention_required"
    ELSE IF pay_attempts'[o] > pay_attempts[o] THEN "pay_requested"
    ELSE IF voucher_attempts'[o] > voucher_attempts[o] THEN "voucher_requested"
    ELSE IF pin_code'[o] # pin_code[o] THEN "voucher_saved"
    ELSE "operation_updated"
EventName(o) ==
    IF state[o] = "absent" THEN "prepared"
    ELSE IF decision'[o] # decision[o] THEN "operator_resolved"
    ELSE IF requires_attention'[o] /\ ~ requires_attention[o] THEN "attention_required"
    ELSE IF pay_attempts'[o] > pay_attempts[o] THEN "pay_requested"
    ELSE IF voucher_attempts'[o] > voucher_attempts[o] THEN "voucher_requested"
    ELSE IF state'[o] = "checking" THEN "check_requested"
    ELSE IF pin_code'[o] # pin_code[o] THEN "voucher_saved"
    ELSE IF state'[o] # state[o] THEN "state_changed"
    ELSE "operation_updated"

-----------------------------------------------------------------------------
(* Airpay, the network and the clock.                                      *)

(* What Airpay may make of a pay request: the first one to arrive decides, *)
(* by the operation's id; repeats change nothing.                          *)
Outcomes(o) == IF remote[o] = "unpaid" THEN {"processing", "paid", "rejected"} ELSE {remote[o]}

(* "duplicate" is 202, an id that Airpay knows already: that of an earlier *)
(* request of this operation, or a foreign one.                            *)
Answers(o, r) ==
    {"pending"}
        \cup (IF r = "paid" THEN {"paid"} ELSE {})
        \cup (IF r = "rejected" THEN {"refused"} ELSE {})
        \cup (IF r = "rejected" \/ remote[o] # "unpaid" THEN {"duplicate"} ELSE {})

AnswerPay(h) ==
    LET o == job[h] IN
    /\ pc[h] = "pay_sent"
    /\ \E r \in Outcomes(o) :
          /\ remote' = [remote EXCEPT ![o] = r]
          /\ \E a \in Answers(o, r) \cup {"error"} : answer' = [answer EXCEPT ![h] = a]
    /\ pc' = [pc EXCEPT ![h] = "saving_payment"]
    /\ UNCHANGED <<rowVars, ownerVars, job, pay_calls, voucher_calls, strayVars, late, issued>>

(* The request is lost or delayed beyond the timeout.                      *)
PayTimesOut(h) ==
    /\ pc[h] = "pay_sent"
    /\ answer' = [answer EXCEPT ![h] = "error"]
    /\ pc' = [pc EXCEPT ![h] = "saving_payment"]
    /\ \/ late' = [late EXCEPT ![job[h]] = TRUE]
       \/ UNCHANGED late
    /\ UNCHANGED <<rowVars, ownerVars, job, pay_calls, voucher_calls, strayVars, remote,
                   issued>>

(* Only the first request to arrive matters, so one flag stands for any    *)
(* number of delayed ones.                                                 *)
LateArrives(o) ==
    /\ late[o]
    /\ \E r \in Outcomes(o) : remote' = [remote EXCEPT ![o] = r]
    /\ late' = [late EXCEPT ![o] = FALSE]
    /\ UNCHANGED <<rowVars, ownerVars, handlerVars, pay_calls, voucher_calls, strayVars, issued>>

AirpaySettles(o) ==
    /\ remote[o] = "processing"
    /\ \E r \in {"paid", "rejected"} : remote' = [remote EXCEPT ![o] = r]
    /\ UNCHANGED <<rowVars, ownerVars, handlerVars, pay_calls, voucher_calls, strayVars, late,
                   issued>>

(* A paid voucher's code is fixed when Airpay first delivers it.           *)
Deliver(o) ==
    /\ remote[o] = "paid"
    /\ IF issued[o] = NoCode
         THEN \E c \in Codes : issued' = [issued EXCEPT ![o] = c]
         ELSE UNCHANGED issued

AnswerVoucher(h) ==
    LET o == job[h] IN
    /\ pc[h] = "fetching"
    /\ voucher_calls' = [voucher_calls EXCEPT ![o] = @ + 1]
    /\ \/ /\ Deliver(o)
          /\ \E a \in {"code", "error"} : answer' = [answer EXCEPT ![h] = a]
       \/ /\ \E a \in {"no_code", "error"} : answer' = [answer EXCEPT ![h] = a]
          /\ UNCHANGED issued
    /\ pc' = [pc EXCEPT ![h] = "saving_code"]
    /\ UNCHANGED <<rowVars, ownerVars, job, pay_calls, strayVars, late, remote>>

(* The process dies; or its database session does, and the handler ends in *)
(* the error of its next write.                                            *)
Dies(h) ==
    /\ pc[h] # "idle"
    /\ Release(h)
    /\ \/ /\ pc[h] = "pay_sent"
          /\ late' = [late EXCEPT ![job[h]] = TRUE]
       \/ UNCHANGED late
    /\ UNCHANGED <<rowVars, ownerVars, pay_calls, voucher_calls, strayVars, remote, issued>>

(* The session dies after the commit of an attempt: the lock is free, and  *)
(* the thread still goes on to the call.                                   *)
LosesSession(h) ==
    LET o == job[h] IN
    /\ \/ /\ pc[h] = "counted"
          /\ unsent_pays' = [unsent_pays EXCEPT ![o] = @ + 1]
          /\ UNCHANGED unsent_fetches
       \/ /\ pc[h] = "fetching"
          /\ unsent_fetches' = [unsent_fetches EXCEPT ![o] = @ + 1]
          /\ UNCHANGED unsent_pays
    /\ Release(h)
    /\ UNCHANGED <<rowVars, ownerVars, pay_calls, voucher_calls, late, remote, issued>>

(* Such a thread pays: its request is on its way or lost, and nobody will  *)
(* save the answer.                                                        *)
StrayPays(o) ==
    /\ unsent_pays[o] > 0
    /\ unsent_pays' = [unsent_pays EXCEPT ![o] = @ - 1]
    /\ pay_calls' = [pay_calls EXCEPT ![o] = @ + 1]
    /\ \/ late' = [late EXCEPT ![o] = TRUE]
       \/ UNCHANGED late
    /\ UNCHANGED <<rowVars, ownerVars, handlerVars, voucher_calls, unsent_fetches, remote,
                   issued>>

(* Or it asks for the code, which Airpay may deliver to no avail.          *)
StrayFetches(o) ==
    /\ unsent_fetches[o] > 0
    /\ unsent_fetches' = [unsent_fetches EXCEPT ![o] = @ - 1]
    /\ voucher_calls' = [voucher_calls EXCEPT ![o] = @ + 1]
    /\ Deliver(o) \/ UNCHANGED issued
    /\ UNCHANGED <<rowVars, ownerVars, handlerVars, pay_calls, unsent_pays, late, remote>>

(* Or it dies with its process before it called.                           *)
StrayDies(o) ==
    /\ \/ /\ unsent_pays[o] > 0
          /\ unsent_pays' = [unsent_pays EXCEPT ![o] = @ - 1]
          /\ UNCHANGED unsent_fetches
       \/ /\ unsent_fetches[o] > 0
          /\ unsent_fetches' = [unsent_fetches EXCEPT ![o] = @ - 1]
          /\ UNCHANGED unsent_pays
    /\ UNCHANGED <<rowVars, ownerVars, handlerVars, pay_calls, voucher_calls, late, remote,
                   issued>>

BecomeDue(o) ==
    /\ waiting[o]
    /\ waiting' = [waiting EXCEPT ![o] = FALSE]
    /\ UNCHANGED <<state, purchase_ready, expired, countVars, requires_attention, pin_code,
                   ownerVars, handlerVars, airpayVars>>

(* Fifteen minutes pass; the price matters until it is confirmed.          *)
Expire(o) ==
    /\ state[o] \in Checkable \cup {"checked"}
    /\ ~ expired[o]
    /\ expired' = [expired EXCEPT ![o] = TRUE]
    /\ UNCHANGED <<state, purchase_ready, waiting, countVars, requires_attention, pin_code,
                   ownerVars, handlerVars, airpayVars>>

-----------------------------------------------------------------------------
HandlerStep(h) ==
    \/ SaveCheck(h) \/ CountFirstPay(h) \/ SendPay(h) \/ SavePayment(h)
    \/ SaveVoucher(h) \/ VoucherTaken(h)
    \/ AnswerPay(h) \/ PayTimesOut(h) \/ AnswerVoucher(h)

StrayStep(o) == StrayPays(o) \/ StrayFetches(o) \/ StrayDies(o)

(* Somebody asks the Hub to bring the operation forward.                   *)
Recover(o) ==
    \/ \E h \in Handlers : Reconcile(h, o) \/ FetchVoucher(h, o)
    \/ GiveUpPay(o) \/ GiveUpVoucher(o)

Next ==
    \/ \E o \in Operations :
          \/ Prepare(o) \/ Recover(o)
          \/ Show(o) \/ VerifyUnpaid(o) \/ ConfirmFailed(o) \/ RecordSuccess(o)
          \/ LateArrives(o) \/ AirpaySettles(o) \/ BecomeDue(o) \/ Expire(o)
          \/ StrayStep(o)
          \/ \E h \in Handlers : Check(h, o) \/ Pay(h, o)
    \/ \E h \in Handlers : HandlerStep(h) \/ Dies(h) \/ LosesSession(h)

Spec == Init /\ [][Next]_vars

(* Calls to Airpay end in an answer or a timeout and their handlers go on, *)
(* pauses end, and the owner keeps asking for an unfinished operation.     *)
(* Nothing is assumed of Airpay, nor that handlers stop dying, nor of those*)
(* that have lost their session.                                           *)
Fairness ==
    /\ \A h \in Handlers : WF_vars(HandlerStep(h))
    /\ \A o \in Operations : WF_vars(BecomeDue(o)) /\ WF_vars(Recover(o))

FairSpec == Spec /\ Fairness
=============================================================================
