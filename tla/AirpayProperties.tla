--------------------------- MODULE AirpayProperties ---------------------------
(***************************************************************************)
(* What must hold of AirpayPurchase, and the contract it implements.       *)
(***************************************************************************)
EXTENDS AirpayPurchase

(* The supplier has the money, or may still take it by a request that is   *)
(* on its way or that somebody is about to send: a handler, or a thread    *)
(* that lost its session and does not know it.                             *)
MayBeCharged(o) ==
    \/ remote[o] \in {"processing", "paid"}
    \/ /\ remote[o] = "unpaid"
       /\ \/ late[o] \/ unsent_pays[o] > 0
          \/ \E h \in Handlers : job[h] = o /\ pc[h] \in {"committed", "counted", "pay_sent"}

(* blocks_fallback (airpay_contract.py:35) tells the consumer that a failed*)
(* operation may be bought elsewhere: unless the owner said so, Airpay has *)
(* refused it, and neither a request that was delayed nor one about to be  *)
(* sent can make it charge.  This is the rule of airpay_purchase.py:172,   *)
(* "202 after a repeat [...] does not prove a refusal".                    *)
FailedIsDefinitive ==
    \A o \in Operations :
        state[o] = "failed" /\ decision[o] = "none" =>
            /\ ~ MayBeCharged(o)
            /\ \A h \in Handlers : job[h] = o => pc[h] \notin {"committed", "counted"}

(* The owner's refusal is as good as the check it rests on: if Airpay had  *)
(* taken nothing when the owner asked, and nobody of the Hub was at work   *)
(* or left to send a request, none sent since could have slipped past the  *)
(* decision (airpay_resolution.py:19-21, airpay_repository.py:198-220).    *)
(* That no thread is left which lost its session is for the owner to make  *)
(* sure of: neither lock nor row shows one.                                *)
VerifiedRefusalHolds ==
    \A o \in Operations :
        state[o] = "failed" /\ evidence[o] = "verified" => ~ MayBeCharged(o)

(* An operation the Hub itself reports paid was charged, and a code that   *)
(* it stored is the one Airpay delivered for this operation.               *)
PaidIsTrue ==
    \A o \in Operations :
        state[o] = "paid" =>
            /\ decision[o] # "record_success" => remote[o] = "paid"
            /\ decision[o] = "none" => pin_code[o] \in {NoCode, issued[o]}

(* AIRPAY.md:100, "after five unfinished pay/voucher requests [it] sends no*)
(* new requests": counted on disk, so that crashes cannot exceed it.       *)
RequestsAreBounded ==
    \A o \in Operations :
        /\ pay_calls[o] <= MaxRecoveryAttempts
        /\ voucher_calls[o] <= MaxRecoveryAttempts

(* AIRPAY.md:96-101: attention is asked for only for an unknown payment or *)
(* a missing code whose attempts are used up, and it ends with the         *)
(* uncertainty.                                                            *)
AttentionIsReal ==
    \A o \in Operations :
        requires_attention[o] =>
            \/ state[o] = "processing" /\ pay_attempts[o] = MaxRecoveryAttempts
            \/ MissesCode(o) /\ voucher_attempts[o] = MaxRecoveryAttempts

(* Attempts stop at the limit, and the owner is called for at no other.    *)
AttemptsAreBounded == RequestsAreBounded /\ AttentionIsReal

(* uq_airpay_result_hash: one code never goes to two operations, whether a *)
(* handler or the owner stores it.                                         *)
CodesAreUnique ==
    \A o \in Operations :
        /\ pin_code[o] \notin OldCodes
        /\ \A q \in Operations \ {o} : pin_code[o] = pin_code[q] => pin_code[o] = NoCode

(* airpay_resolution.py:35, "a confirmed payment cannot be revoked": a paid*)
(* or failed operation keeps its state, and a stored code is never replaced*)
(* or lost.                                                                *)
OutcomeIsFinal ==
    [][\A o \in Operations :
          /\ state[o] \in {"paid", "failed"} => state'[o] = state[o]
          /\ pin_code[o] # NoCode => pin_code'[o] = pin_code[o]]_vars

(* Whoever holds the lock asks for money only while the outcome is open    *)
(* and undecided, although the decision is taken outside the handler about *)
(* to pay.  Only a thread that lost its session between its commit and its *)
(* call (airpay_purchase.py:163, 165) may pay what was decided meanwhile;  *)
(* never against a refusal the owner verified, nor so that an operation    *)
(* the Hub itself refused could be charged.                                *)
OnlyStraysPayOnceDecided ==
    [][\A o \in Operations :
          pay_calls'[o] # pay_calls[o] =>
              \/ state[o] = "processing" /\ ~ requires_attention[o]
              \/ /\ unsent_pays'[o] < unsent_pays[o]
                 /\ state[o] = "failed" =>
                       IF decision[o] = "none" THEN remote[o] = "rejected"
                       ELSE evidence[o] # "verified"]_vars

(* The events read back (airpay_repository.py:184) tell what happened,     *)
(* although the trigger gives an update one name only: no attempt, outcome,*)
(* code, decision or call for the owner is logged under the name of        *)
(* something else that was committed with it.                              *)
EventsTell ==
    [][\A o \in Operations :
          /\ pay_attempts'[o] # pay_attempts[o] => EventName(o) = "pay_requested"
          /\ voucher_attempts'[o] # voucher_attempts[o] => EventName(o) = "voucher_requested"
          /\ decision'[o] # decision[o] => EventName(o) = "operator_resolved"
          /\ requires_attention'[o] /\ ~ requires_attention[o] =>
                EventName(o) = "attention_required"
          /\ pin_code'[o] # pin_code[o] => EventName(o) \in {"voucher_saved", "operator_resolved"}
          /\ state'[o] # state[o] /\ state'[o] \in {"paid", "failed"} =>
                EventName(o) \in {"state_changed", "operator_resolved"}]_vars

(* docs/AIRPAY.md:82-85: a journal that is ready for the cutover is one    *)
(* that Airpay agrees with.  Nothing it does not show as paid may still be *)
(* charged (unless the owner refused it), and only a purchase paid anew    *)
(* makes it unready.  Whoever may save an answer has none to wait for;     *)
(* calls come only from threads that lost their session before they made   *)
(* them, which no journal shows and which end with "the direct executor"   *)
(* that is to be stopped before the second look.                           *)
CutoverIsComplete ==
    [][CutoverReady =>
          /\ \A o \in Operations :
                /\ MayBeCharged(o) => state[o] = "paid" \/ decision[o] = "confirm_failed"
                /\ pay_calls'[o] # pay_calls[o] => unsent_pays'[o] < unsent_pays[o]
                /\ voucher_calls'[o] # voucher_calls[o] => unsent_fetches'[o] < unsent_fetches[o]
          /\ ~ CutoverReady' =>
                \E o \in Operations : state[o] = "checked" /\ state'[o] = "processing"]_vars

Finished(o) == state[o] = "failed" \/ (state[o] = "paid" /\ ~ MissesCode(o))

(* If somebody keeps asking for an operation that was sent for payment, it *)
(* reaches its outcome or the owner, whatever handlers die: the counted    *)
(* attempts run out, and running out raises attention even if the handler  *)
(* that used the last one never came back.                                 *)
OperationsSettle ==
    \A o \in Operations :
        state[o] = "processing" ~> Finished(o) \/ requires_attention[o]

-----------------------------------------------------------------------------
(* The contract: what the rows and Airpay's ledger amount to.  The fallback*)
(* is blocked by a refused check too, so nothing is failed before payment. *)
PhaseOf(o) ==
    CASE state[o] = "absent" -> "absent"
      [] state[o] \in Checkable \cup {"check_failed", "checked"} -> "open"
      [] state[o] = "processing" -> "committed"
      [] state[o] = "paid" -> "succeeded"
      [] OTHER -> "failed"

Contract == INSTANCE PurchaseContract WITH
    Purchases <- Operations,
    phase <- [o \in Operations |-> PhaseOf(o)],
    charged <- [o \in Operations |-> remote[o] = "paid"],
    overridden <- [o \in Operations |-> decision[o] = "confirm_failed" \/ decision[o] = "record_success"]

(* Rows, handlers, owner and Airpay behave as the contract allows: charged *)
(* only after commitment, never after a failure the Hub itself reported.   *)
ImplementsContract == Contract!ContractSpec

-----------------------------------------------------------------------------
(* What the row tells whoever works on the batch it belongs to.            *)
StageOf(o) ==
    CASE state[o] \in Checkable -> "prepared"
      [] state[o] \in {"absent", "processing", "paid", "failed"} -> state[o]
      [] state[o] = "checked" /\ purchase_ready[o] -> "checked"
      [] OTHER -> "refused"

Stages == [o \in Operations |-> StageOf(o)]

Journal == INSTANCE OperationRows WITH stage <- Stages

(* The rows go the way AirpayBatch expects of them, whoever of several     *)
(* handlers and the owner moves them: an answer that is saved late never   *)
(* overwrites what happened since it was asked for.                        *)
ImplementsJournal == Journal!JournalSpec
=============================================================================
