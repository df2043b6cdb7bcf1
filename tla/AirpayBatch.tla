----------------------------- MODULE AirpayBatch -----------------------------
(***************************************************************************)
(* Buying a quantity of vouchers: one journal row per position, a session  *)
(* lock per batch, and the renewal that moves what was not paid into a new *)
(* batch with a new price.  Handlers (the job thread, API requests) work   *)
(* under the batch lock from what they read when they took it; the rows'   *)
(* own life under their own locks (AirpayPurchase) appears here as the     *)
(* outcome of a committed payment.                                         *)
(*                                                                         *)
(* The lock belongs to a connection of its own: the handler pays, checks   *)
(* and renews through others.  In Lossy orders that connection may break   *)
(* and its handler not notice.                                             *)
(*                                                                         *)
(* The rows of one batch are prepared together and expire together here.   *)
(* Codes are fetched without reading or changing anything that is modelled;*)
(* that, a check with no position to check and a refused renewal hold the  *)
(* lock for a while and are left out.                                      *)
(*                                                                         *)
(* Sources: api/airpay_runtime/airpay_batch.py, airpay_repository.py,      *)
(* airpay_preparation.py.                                                  *)
(***************************************************************************)
EXTENDS Naturals, FiniteSets

CONSTANTS
    MaxQuantity,      \* that may be ordered, 20 in the code
    MaxBatches,       \* bound on the batches of an order
    Renewable,        \* bound by quantity: the batches that may be renewed
    Lossy,            \* quantities during whose order batch locks may be lost
    Handlers, NoHandler

Quantities == 2 .. MaxQuantity
Positions == 1 .. MaxQuantity

(* The batch that the owner orders, and its renewals in their order.       *)
Batches == 1 .. MaxBatches
Root == 1
NoBatch == 0

ASSUME MaxQuantityAssumption == MaxQuantity \in Nat
ASSUME MaxBatchesAssumption == MaxBatches \in Nat \ {0}
ASSUME RenewableAssumption == Renewable \in [Quantities -> SUBSET Batches]
ASSUME NoHandlerAssumption == NoHandler \notin Handlers
ASSUME LossyAssumption == Lossy \subseteq Quantities

VARIABLES
    size,      \* quantity of the batch, 0 before it exists
    row,       \* state of its positions
    replaced,  \* positions with a replacement_key
    expired,   \* expires_at has passed
    renewal,   \* airpay_renewals: the batch that renews this one
    linked,    \* replacement_id is recorded
    lock,      \* the handler whose session holds the batch lock
    pc,
    work,      \* the batch the handler works on
    todo       \* positions it has yet to treat, from the rows it read

batchVars == <<size, row, replaced, renewal, linked>>
handlerVars == <<lock, pc, work, todo>>
vars == <<batchVars, expired, handlerVars>>

Started == {"processing", "paid", "failed"}
RowState == {"absent", "prepared", "checked", "refused"} \cup Started
Step == {"idle", "checking", "paying", "sent", "renewing", "preparing"}

TypeOK ==
    /\ size \in [Batches -> 0 .. MaxQuantity]
    /\ row \in [Batches -> [Positions -> RowState]]
    /\ replaced \in [Batches -> SUBSET Positions]
    /\ expired \in [Batches -> BOOLEAN]
    /\ renewal \in [Batches -> Batches \cup {NoBatch}]
    /\ linked \in [Batches -> BOOLEAN]
    /\ lock \in [Batches -> Handlers \cup {NoHandler}]
    /\ pc \in [Handlers -> Step]
    /\ work \in [Handlers -> Batches \cup {NoBatch}]
    /\ todo \in [Handlers -> SUBSET Positions]

Init ==
    /\ size = [b \in Batches |-> 0]
    /\ row = [b \in Batches |-> [i \in Positions |-> "absent"]]
    /\ replaced = [b \in Batches |-> {}]
    /\ expired = [b \in Batches |-> FALSE]
    /\ renewal = [b \in Batches |-> NoBatch]
    /\ linked = [b \in Batches |-> FALSE]
    /\ lock = [b \in Batches |-> NoHandler]
    /\ pc = [h \in Handlers |-> "idle"]
    /\ work = [h \in Handlers |-> NoBatch]
    /\ todo = [h \in Handlers |-> {}]

Rows(b) == 1 .. size[b]
Missing(b) == {i \in Rows(b) : row[b][i] = "absent"}
Complete(b) == size[b] > 0 /\ Missing(b) = {}
First(S) == CHOOSE i \in S : \A j \in S : i <= j

SetRow(b, i, s) == row' = [row EXCEPT ![b][i] = s]

-----------------------------------------------------------------------------
(* Preparation: every position is inserted by a transaction of its own, in *)
(* order; a repetition with the same key inserts what is missing.          *)

Order ==
    /\ size[Root] = 0
    /\ \E q \in Quantities : size' = [size EXCEPT ![Root] = q]
    /\ SetRow(Root, 1, "prepared")
    /\ UNCHANGED <<replaced, expired, renewal, linked, handlerVars>>

PrepareOrdered ==
    /\ Missing(Root) # {}
    /\ SetRow(Root, First(Missing(Root)), "prepared")
    /\ UNCHANGED <<size, replaced, expired, renewal, linked, handlerVars>>

-----------------------------------------------------------------------------
(* The batch lock, and the rows as they are when it is taken.              *)

Slip_NoLock(b) == TRUE
Unlocked(b) == lock[b] = NoHandler

Begin(h, b, step, positions) ==
    /\ pc[h] = "idle"
    /\ Complete(b)
    /\ Unlocked(b)
    /\ lock' = [lock EXCEPT ![b] = h]
    /\ pc' = [pc EXCEPT ![h] = step]
    /\ work' = [work EXCEPT ![h] = b]
    /\ todo' = [todo EXCEPT ![h] = positions]
    /\ UNCHANGED <<batchVars, expired>>

(* The handler goes on with the next position, or with none.               *)
Continue(h, i) == todo' = [todo EXCEPT ![h] = @ \ {i}]
Stop(h) == todo' = [todo EXCEPT ![h] = {}]

Release(h) ==
    /\ lock' = [b \in Batches |-> IF lock[b] = h THEN NoHandler ELSE lock[b]]
    /\ pc' = [pc EXCEPT ![h] = "idle"]
    /\ work' = [work EXCEPT ![h] = NoBatch]
    /\ todo' = [todo EXCEPT ![h] = {}]
    /\ UNCHANGED <<batchVars, expired>>

(* All positions are treated, or a condition refused the rest.             *)
Finish(h) ==
    /\ pc[h] \in {"checking", "paying"}
    /\ todo[h] = {}
    /\ Release(h)

(* The process dies or shuts down, or an error ends the work: a balance    *)
(* that no longer suffices, a service that changed, a database error.      *)
Dies(h) ==
    /\ pc[h] # "idle"
    /\ Release(h)

LoseLock(h) ==
    /\ size[Root] \in Lossy
    /\ pc[h] # "idle"
    /\ lock[work[h]] = h
    /\ lock' = [lock EXCEPT ![work[h]] = NoHandler]
    /\ UNCHANGED <<batchVars, expired, pc, work, todo>>

-----------------------------------------------------------------------------
(* check: the positions before the first one that was replaced or started; *)
(* with none to check, the answer only repeats what is saved.              *)

BeginCheck(h, b) ==
    LET open == {i \in Rows(b) : \A j \in 1 .. i : j \notin replaced[b] /\ row[b][j] \notin Started}
    IN
    /\ \E i \in open : row[b][i] = "prepared"
    /\ ~ expired[b]
    /\ Begin(h, b, "checking", open)

CheckEnds == {"prepared", "checked", "refused"}

(* A position without a price ("refused" by Airpay or for want of funds)   *)
(* may or may not end the check; one without an answer ends it.            *)
CheckRow(h) ==
    LET b == work[h]
        i == First(todo[h])
    IN
    /\ pc[h] = "checking"
    /\ todo[h] # {}
    /\ \/ /\ ~ expired[b]
          /\ \E result \in (IF row[b][i] = "prepared" THEN CheckEnds ELSE {row[b][i]}) :
                /\ SetRow(b, i, result)
                /\ \/ result # "prepared" /\ Continue(h, i)
                   \/ result \in {"prepared", "refused"} /\ Stop(h)
       \/ /\ expired[b]
          /\ Stop(h)
          /\ UNCHANGED row
    /\ UNCHANGED <<size, replaced, expired, renewal, linked, lock, pc, work>>

-----------------------------------------------------------------------------
(* pay: one position after another until one is not paid.                  *)

Payable(b) ==
    /\ \A i \in Rows(b) : i \notin replaced[b] /\ row[b][i] \in {"checked", "paid"}
    /\ \E i \in Rows(b) : row[b][i] # "paid"

Unpaid(b) == {i \in Rows(b) : row[b][i] # "paid"}

BeginPay(h, b) ==
    /\ Payable(b)
    /\ ~ expired[b]
    /\ Begin(h, b, "paying", Unpaid(b))

(* AirpayPurchase.pay reads the row again, under the row's own lock.       *)
PayRow(h) ==
    LET b == work[h]
        i == First(todo[h])
    IN
    /\ pc[h] = "paying"
    /\ todo[h] # {}
    /\ \/ /\ row[b][i] = "checked" /\ i \notin replaced[b] /\ ~ expired[b]
          /\ SetRow(b, i, "processing")
          /\ pc' = [pc EXCEPT ![h] = "sent"]
          /\ UNCHANGED todo
       \/ /\ row[b][i] # "checked" \/ i \in replaced[b] \/ expired[b]
          /\ IF row[b][i] = "paid" /\ i \notin replaced[b] THEN Continue(h, i) ELSE Stop(h)
          /\ UNCHANGED <<row, pc>>
    /\ UNCHANGED <<size, replaced, expired, renewal, linked, lock, work>>

Slip_GoOn(h, i, outcome) == Continue(h, i)
Proceed(h, i, outcome) == IF outcome = "paid" THEN Continue(h, i) ELSE Stop(h)

SavePay(h) ==
    LET i == First(todo[h]) IN
    /\ pc[h] = "sent"
    /\ \E outcome \in Started :
          /\ SetRow(work[h], i, outcome)
          /\ Proceed(h, i, outcome)
    /\ pc' = [pc EXCEPT ![h] = "paying"]
    /\ UNCHANGED <<size, replaced, expired, renewal, linked, lock, work>>

(* A repeat of the payment or the owner's decision settles it.             *)
Settle(b, i) ==
    /\ row[b][i] = "processing"
    /\ \A h \in Handlers : ~ (pc[h] = "sent" /\ work[h] = b /\ First(todo[h]) = i)
    /\ \E outcome \in {"paid", "failed"} : SetRow(b, i, outcome)
    /\ UNCHANGED <<size, replaced, expired, renewal, linked, handlerVars>>

-----------------------------------------------------------------------------
(* renew                                                                   *)

Slip_ReplaceUnknown(b) == Unpaid(b)
Replaceable(b) == IF \E i \in Rows(b) : row[b][i] = "processing" THEN {} ELSE Unpaid(b)

BeginRenew(h, b) ==
    /\ Replaceable(b) # {} \/ renewal[b] # NoBatch
    /\ Begin(h, b, "renewing", Replaceable(b))

(* One transaction, but the positions are those of the rows read before;   *)
(* an existing renewal is resumed.                                         *)
CommitRenewal(h) ==
    LET b == work[h] IN
    /\ pc[h] = "renewing"
    /\ \/ /\ renewal[b] = NoBatch
          /\ todo[h] # {}
          /\ b \in Renewable[size[Root]]
          /\ \E n \in Batches :
                /\ size[n] = 0
                /\ \A m \in 1 .. (n - 1) : size[m] > 0
                /\ size' = [size EXCEPT ![n] = Cardinality(todo[h])]
                /\ renewal' = [renewal EXCEPT ![b] = n]
          /\ replaced' = [replaced EXCEPT ![b] = @ \cup todo[h]]
       \/ /\ renewal[b] # NoBatch
          /\ UNCHANGED <<size, renewal, replaced>>
    /\ pc' = [pc EXCEPT ![h] = "preparing"]
    /\ UNCHANGED <<row, linked, expired, lock, work, todo>>

Slip_FirstOnly(b) == row[b][1] # "absent"
Prepared(b) == Missing(b) = {}

PrepareRenewal(h) ==
    LET n == renewal[work[h]] IN
    /\ pc[h] = "preparing"
    /\ Missing(n) # {}
    /\ SetRow(n, First(Missing(n)), "prepared")
    /\ UNCHANGED <<size, replaced, expired, renewal, linked, handlerVars>>

(* finish_renewal                                                          *)
LinkRenewal(h) ==
    LET b == work[h] IN
    /\ pc[h] = "preparing"
    /\ Prepared(renewal[b])
    /\ linked' = [linked EXCEPT ![b] = TRUE]
    /\ lock' = [c \in Batches |-> IF lock[c] = h THEN NoHandler ELSE lock[c]]
    /\ pc' = [pc EXCEPT ![h] = "idle"]
    /\ work' = [work EXCEPT ![h] = NoBatch]
    /\ todo' = [todo EXCEPT ![h] = {}]
    /\ UNCHANGED <<size, row, replaced, renewal, expired>>

(* Fifteen minutes pass; they matter while a position may be started.      *)
Expire(b) ==
    /\ \E i \in Rows(b) \ replaced[b] : row[b][i] \notin Started
    /\ ~ expired[b]
    /\ expired' = [expired EXCEPT ![b] = TRUE]
    /\ UNCHANGED <<batchVars, handlerVars>>

-----------------------------------------------------------------------------
Next ==
    \/ Order \/ PrepareOrdered
    \/ \E h \in Handlers :
          \/ \E b \in Batches : BeginCheck(h, b) \/ BeginPay(h, b) \/ BeginRenew(h, b)
          \/ CheckRow(h) \/ PayRow(h) \/ SavePay(h)
          \/ CommitRenewal(h) \/ PrepareRenewal(h) \/ LinkRenewal(h)
          \/ Finish(h) \/ Dies(h) \/ LoseLock(h)
    \/ \E b \in Batches : Expire(b) \/ \E i \in Rows(b) : Settle(b, i)

Spec == Init /\ [][Next]_vars
=============================================================================
