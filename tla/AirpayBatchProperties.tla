------------------------ MODULE AirpayBatchProperties ------------------------
(***************************************************************************)
(* What must hold of AirpayBatch, and the order it implements.             *)
(***************************************************************************)
EXTENDS AirpayBatch

(* airpay_batch.py:150, "new ids are created only for the remainder that is*)
(* proved unpaid; processing is not replaced": a position that was replaced*)
(* is not being paid, has not been paid, and never will be.                *)
ReplacedIsUnpaid ==
    \A b \in Batches : \A i \in replaced[b] : row[b][i] \notin {"processing", "paid"}

LocksHold == size[Root] \notin Lossy

(* The same, of the orders whose handlers keep their batch lock.           *)
RemainderIsUnpaid == LocksHold => ReplacedIsUnpaid

(* "Sequential purchase" (airpay_batch.py:1, 109): money is committed for a*)
(* position only when no position of the order has an unknown outcome and  *)
(* none of its batch was refused, whichever handlers died or took over.    *)
BuysInSequence ==
    [][LocksHold => \A b \in Batches : \A i \in Positions :
          row[b][i] # "processing" /\ row'[b][i] = "processing" =>
              /\ \A c \in Batches : \A j \in Positions : row[c][j] # "processing"
              /\ \A j \in Positions : row[b][j] # "failed"]_vars

(* airpay_batch.py:130, a batch is bought from its first position on: one  *)
(* that was started has only paid ones before it, even when the batch lock *)
(* is lost and several handlers pay from rows they read at different times.*)
PaysInOrder ==
    \A b \in Batches : \A i \in Rows(b) :
        row[b][i] \in Started => \A j \in 1 .. (i - 1) : row[b][j] = "paid"

(* airpay_repository.py:166, "the link survives a lost answer": the renewal*)
(* shown to the owner has all its positions, though they are inserted one  *)
(* by one and the handler may die between any two.                         *)
LinkedIsComplete ==
    \A b \in Batches : linked[b] => renewal[b] \in Batches /\ Complete(renewal[b])

-----------------------------------------------------------------------------
(* The order: positions that were replaced are counted where they went.    *)
(* Of an order whose locks are lost nothing is promised.                   *)
Current(states) ==
    IF LocksHold
    THEN Cardinality(UNION {{b} \X {i \in Rows(b) : i \notin replaced[b] /\ row[b][i] \in states} :
                              b \in Batches})
    ELSE 0

VoucherOrder == INSTANCE VoucherOrder WITH
    wanted <- Current(RowState \ {"processing", "paid"}),
    unknown <- Current({"processing"}),
    bought <- Current({"paid"})

(* Whatever is paid, refused, renewed or interrupted, the chain of batches *)
(* buys the ordered quantity one by one, never more and losing none:       *)
(* renewing changes nothing of it.                                         *)
ImplementsOrder == VoucherOrder!OrderSpec

-----------------------------------------------------------------------------
(* The rows of all batches, as the journal that AirpayPurchase keeps.      *)
Places == Batches \X Positions
Stages == [c \in Places |-> row[c[1]][c[2]]]

Journal == INSTANCE OperationRows WITH
    Operations <- Places,
    stage <- Stages,
    expired <- [c \in Places |-> expired[c[1]]]

(* Handlers, renewals and lost locks do to the rows only what one operation*)
(* allows: what was paid, refused or is unknown is never begun anew, and a *)
(* renewal inserts rows and touches no other.                              *)
ImplementsJournal == Journal!JournalSpec
=============================================================================
