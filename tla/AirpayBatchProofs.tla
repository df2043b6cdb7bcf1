-------------------------- MODULE AirpayBatchProofs --------------------------
(***************************************************************************)
(* Theorems about AirpayBatch, for any quantity, number of renewals and    *)
(* handlers.  Part of the invariant holds whatever happens to the batch    *)
(* locks; the rest needs that they hold, and says why then no position is  *)
(* paid twice or replaced while it may still be paid.                      *)
(***************************************************************************)
EXTENDS AirpayBatchProperties, FiniteSetTheorems, TLAPS

(* A position has a row only in a batch that exists, and no batch exists   *)
(* before the ordered one; a renewal and what it renews exist.             *)
SizeInv ==
    /\ \A b \in Batches : \A i \in Positions : row[b][i] # "absent" => i \in Rows(b)
    /\ \A b \in Batches : size[b] > 0 => size[Root] > 0
    /\ \A b \in Batches : renewal[b] # NoBatch =>
          renewal[b] \in Batches /\ size[b] > 0 /\ size[renewal[b]] > 0

(* A handler at work has a batch with all its rows, and is between a       *)
(* commitment and its answer for one of them only.                         *)
WorkInv ==
    \A h \in Handlers :
        /\ pc[h] # "idle" =>
              /\ work[h] \in Batches
              /\ Complete(work[h])
              /\ todo[h] \subseteq Rows(work[h])
        /\ pc[h] = "sent" => todo[h] # {}
        /\ pc[h] = "preparing" => renewal[work[h]] # NoBatch

(* Whatever a paying handler has behind it is paid.                        *)
PayInv ==
    \A h \in Handlers : pc[h] \in {"paying", "sent"} /\ todo[h] # {} =>
        \A j \in Rows(work[h]) \ todo[h] : row[work[h]][j] = "paid"

(* Who waits for Airpay's answer about a position waits alone.             *)
SentInv ==
    \A h \in Handlers : pc[h] = "sent" =>
        /\ row[work[h]][First(todo[h])] = "processing"
        /\ \A g \in Handlers :
              pc[g] = "sent" /\ work[g] = work[h] /\ First(todo[g]) = First(todo[h]) => g = h

IInv == /\ TypeOK /\ SizeInv /\ WorkInv /\ PayInv /\ SentInv
        /\ PaysInOrder /\ LinkedIsComplete

-----------------------------------------------------------------------------
(* While the locks hold.                                                   *)

Quiet(b, i) == row[b][i] \in {"checked", "paid"}

(* A handler at work has the lock of its batch.                            *)
LockInv == \A h \in Handlers : pc[h] # "idle" => lock[work[h]] = h

(* A batch that is being paid has nothing unknown or refused in it but what*)
(* is on its way to Airpay.                                                *)
QuietInv ==
    \A h \in Handlers :
        /\ pc[h] = "paying" /\ todo[h] # {} => \A j \in Rows(work[h]) : Quiet(work[h], j)
        /\ pc[h] = "sent" => \A j \in Rows(work[h]) \ {First(todo[h])} : Quiet(work[h], j)

(* What is about to be renewed is what is not paid, and none of it unknown.*)
RenewInv ==
    \A h \in Handlers : pc[h] = "renewing" /\ todo[h] # {} =>
        /\ \A i \in todo[h] : row[work[h]][i] \notin {"processing", "paid"}
        /\ \A i \in Rows(work[h]) \ todo[h] : row[work[h]][i] = "paid"

(* The batches of an order are a chain: one was not renewed yet, and       *)
(* whatever was not paid in the others was replaced.                       *)
ChainInv ==
    /\ \A b, c \in Batches :
          size[b] > 0 /\ renewal[b] = NoBatch /\ size[c] > 0 /\ renewal[c] = NoBatch => b = c
    /\ \A b \in Batches :
          /\ renewal[b] = NoBatch => replaced[b] = {}
          /\ renewal[b] # NoBatch => \A i \in Rows(b) : i \in replaced[b] \/ row[b][i] = "paid"

(* One outcome at most is unknown.                                         *)
OneInv ==
    \A b, c \in Batches : \A i, j \in Positions :
        row[b][i] = "processing" /\ row[c][j] = "processing" => b = c /\ i = j

HeldInv == LockInv /\ QuietInv /\ RenewInv /\ ChainInv /\ OneInv /\ ReplacedIsUnpaid

-----------------------------------------------------------------------------
(* Facts about positions.                                                  *)

(* A set of positions has a first one.                                     *)
LEMMA FirstIsLeast ==
  ASSUME NEW S, S \subseteq Positions, S # {}
  PROVE  First(S) \in S /\ \A j \in S : First(S) <= j
<1> DEFINE Upto == {1 .. i : i \in S}
<1>1. S \subseteq Nat
  BY MaxQuantityAssumption DEF Positions
<1>2. Upto \subseteq FiniteSubsetsOf(Positions)
  <2>1. IsFiniteSet(Positions)
    BY FS_Interval, MaxQuantityAssumption DEF Positions
  <2>2. \A i \in S : 1 .. i \subseteq Positions
    BY <1>1, MaxQuantityAssumption DEF Positions
  <2> QED  BY <2>1, <2>2, FS_FiniteSubsetsOfFinite
<1>3. PICK x \in Upto : \A y \in Upto : ~ (<<y, x>> \in StrictSubsetOrdering(Positions))
  <2>1. Upto # {}
    OBVIOUS
  <2> HIDE DEF Upto
  <2> QED  BY <1>2, <2>1, WFMin, FS_StrictSubsetOrderingWellFounded
<1>4. PICK i \in S : x = 1 .. i
  OBVIOUS
<1>5. ASSUME NEW j \in S PROVE i <= j
  <2>1. 1 .. j \in Upto
    OBVIOUS
  <2>2. SUFFICES ASSUME j < i PROVE FALSE
    BY <1>1
  <2>3. 1 .. j \subseteq 1 .. i /\ 1 .. i \subseteq Positions
    BY <1>1, <2>2, MaxQuantityAssumption DEF Positions
  <2>4. i \in 1 .. i /\ i \notin 1 .. j
    BY <1>1, <2>2, MaxQuantityAssumption DEF Positions
  <2> QED  BY <1>3, <1>4, <2>1, <2>3, <2>4 DEF StrictSubsetOrdering
<1> QED  BY <1>5 DEF First

(* The rows of a batch are positions, counted from one.                    *)
LEMMA RowsArePositions ==
  ASSUME TypeOK, NEW b \in Batches
  PROVE  /\ Rows(b) \subseteq Positions
         /\ Rows(b) \subseteq Nat \ {0}
         /\ \A i \in Rows(b) : 1 .. (i - 1) \subseteq Rows(b)
BY MaxQuantityAssumption DEF TypeOK, Rows, Positions

(* The same after a step.                                                  *)
LEMMA NextRowsArePositions ==
  ASSUME TypeOK', NEW b \in Batches
  PROVE  Rows(b)' \subseteq Positions
BY MaxQuantityAssumption DEF TypeOK, Rows, Positions

(* The ordered batch is one; no batch is the absence of one.               *)
LEMMA BatchesAreNumbered == Root \in Batches /\ NoBatch \notin Batches /\ Batches \subseteq Nat
  BY MaxBatchesAssumption DEF Root, NoBatch, Batches

(* The position a handler treats next is one of its batch.                 *)
LEMMA NextPosition ==
  ASSUME TypeOK, WorkInv, NEW h \in Handlers, pc[h] # "idle", todo[h] # {}
  PROVE  /\ work[h] \in Batches
         /\ First(todo[h]) \in todo[h]
         /\ First(todo[h]) \in Rows(work[h])
         /\ First(todo[h]) \in Positions
         /\ \A j \in 1 .. (First(todo[h]) - 1) : j \in Rows(work[h]) \ todo[h]
<1>1. work[h] \in Batches /\ todo[h] \subseteq Rows(work[h])
  BY DEF WorkInv
<1>2. todo[h] \subseteq Positions
  BY <1>1, RowsArePositions
<1>3. First(todo[h]) \in todo[h] /\ \A j \in todo[h] : First(todo[h]) <= j
  BY <1>2, FirstIsLeast
<1> DEFINE i == First(todo[h])
<1>4. i \in Rows(work[h]) /\ i \in Positions /\ i \in Nat
  BY <1>1, <1>2, <1>3, MaxQuantityAssumption DEF Positions
<1>5. ASSUME NEW j \in 1 .. (i - 1) PROVE j \in Rows(work[h]) \ todo[h]
  <2>1. j \in Rows(work[h])
    BY <1>1, <1>4, RowsArePositions
  <2>2. ~ (i <= j)
    BY <1>4
  <2> QED  BY <1>3, <2>1, <2>2
<1> QED  BY <1>1, <1>3, <1>4, <1>5

-----------------------------------------------------------------------------
(* What holds with or without the locks.                                   *)

(* At first there is no batch and nobody is at work.                       *)
LEMMA InitIInv == Init => IInv
<1> SUFFICES ASSUME Init PROVE IInv
  OBVIOUS
<1>1. \A b \in Batches : Rows(b) = {}
  BY DEF Init, Rows
<1>2. TypeOK
  BY MaxQuantityAssumption DEF Init, TypeOK, RowState, Step
<1>3. SizeInv
  BY <1>1 DEF Init, SizeInv
<1>4. WorkInv /\ PayInv /\ SentInv
  BY DEF Init, WorkInv, PayInv, SentInv
<1>5. PaysInOrder /\ LinkedIsComplete
  BY <1>1 DEF Init, PaysInOrder, LinkedIsComplete
<1> QED  BY <1>2, <1>3, <1>4, <1>5 DEF IInv

(* The ordered batch comes into being with its first row.                  *)
LEMMA OrderStep ==
  ASSUME IInv, Order
  PROVE  IInv'
<1>0. /\ TypeOK /\ SizeInv /\ Root \in Batches /\ NoBatch \notin Batches
      /\ \A b \in Batches : size[b] = 0
      /\ \A b \in Batches : \A i \in Positions : row[b][i] = "absent"
      /\ \A h \in Handlers : pc[h] = "idle"
      /\ \A b \in Batches : renewal[b] = NoBatch /\ ~ linked[b]
  <2>1. TypeOK /\ SizeInv /\ WorkInv /\ LinkedIsComplete /\ Root \in Batches /\ NoBatch \notin Batches
    BY BatchesAreNumbered DEF IInv
  <2>2. \A b \in Batches : size[b] = 0
    BY <2>1, MaxQuantityAssumption DEF Order, SizeInv, TypeOK
  <2>3. \A b \in Batches : Rows(b) = {}
    BY <2>2 DEF Rows
  <2> QED  BY <2>1, <2>2, <2>3 DEF SizeInv, WorkInv, LinkedIsComplete, Complete
<1>1. PICK q \in Quantities : size' = [size EXCEPT ![Root] = q]
  BY DEF Order
<1>2. q \in 0 .. MaxQuantity /\ q >= 2 /\ 1 \in Positions
  BY MaxQuantityAssumption DEF Quantities, Positions
<1>3. row' = [row EXCEPT ![Root][1] = "prepared"]
  BY DEF Order, SetRow
<1>4. TypeOK'
  BY <1>0, <1>1, <1>2, <1>3 DEF Order, TypeOK, handlerVars, RowState
<1>5. Rows(Root)' = 1 .. q /\ 1 \in Rows(Root)' /\ size'[Root] > 0
  BY <1>0, <1>1, <1>2, MaxQuantityAssumption DEF Rows, TypeOK
<1>6. SizeInv'
  <2>1. ASSUME NEW b \in Batches, NEW i \in Positions, row'[b][i] # "absent"
        PROVE  i \in 1 .. size'[b]
    BY <1>0, <1>1, <1>2, <1>3, <2>1 DEF TypeOK
  <2>2. \A b \in Batches : size'[b] > 0 => size'[Root] > 0
    BY <1>5
  <2>3. renewal' = renewal
    BY DEF Order
  <2> QED  BY <1>0, <2>1, <2>2, <2>3 DEF SizeInv, Rows
<1>7. WorkInv' /\ PayInv' /\ SentInv'
  BY <1>0 DEF Order, WorkInv, PayInv, SentInv, handlerVars
<1>8. PaysInOrder'
  BY <1>0, <1>3, <1>4, NextRowsArePositions DEF TypeOK, PaysInOrder, Started
<1>9. LinkedIsComplete'
  BY <1>0 DEF Order, LinkedIsComplete
<1> QED  BY <1>4, <1>6, <1>7, <1>8, <1>9 DEF IInv

(* The next row of a batch comes into being: of the ordered one, or of a   *)
(* renewal.                                                                *)
LEMMA PreparedRow ==
  ASSUME IInv, NEW b \in Batches, Missing(b) # {}, SetRow(b, First(Missing(b)), "prepared"),
         UNCHANGED <<size, replaced, renewal, linked, handlerVars>>,
         expired' \in [Batches -> BOOLEAN]
  PROVE  IInv'
<1> DEFINE i == First(Missing(b))
<1>1. i \in Missing(b) /\ i \in Rows(b) /\ i \in Positions
  BY FirstIsLeast, RowsArePositions DEF IInv, Missing
<1>2. row[b][i] = "absent"
  BY <1>1 DEF Missing
<1> HIDE DEF i
<1>3. row' = [row EXCEPT ![b][i] = "prepared"]
  BY DEF SetRow, i
<1>4. TypeOK'
  BY <1>1, <1>3 DEF IInv, TypeOK, handlerVars, RowState
<1>5. \A c \in Batches : Rows(c)' = Rows(c)
  BY DEF Rows
<1>6. SizeInv'
  BY <1>1, <1>3, <1>5 DEF IInv, SizeInv, TypeOK
<1>7. \A c \in Batches : Complete(c) => c # b /\ Complete(c)'
  BY <1>3, <1>5 DEF IInv, TypeOK, Complete, Missing
<1>8. WorkInv'
  BY <1>5, <1>7 DEF IInv, WorkInv, handlerVars
<1>9. \A h \in Handlers : pc[h] # "idle" => work[h] \in Batches /\ row'[work[h]] = row[work[h]]
  BY <1>3, <1>7 DEF IInv, WorkInv, TypeOK
<1>10. PayInv' /\ SentInv'
  BY <1>5, <1>9 DEF IInv, PayInv, SentInv, handlerVars
<1>11. PaysInOrder'
  <2> SUFFICES ASSUME NEW c \in Batches, NEW k \in Rows(c), row'[c][k] \in Started,
                      NEW j \in 1 .. (k - 1)
               PROVE  row'[c][j] = "paid"
    BY <1>5 DEF PaysInOrder
  <2>1. k \in Positions /\ j \in Positions
    BY RowsArePositions DEF IInv
  <2>2. row[c][k] \in Started
    BY <1>1, <1>3, <2>1 DEF IInv, TypeOK, Started
  <2>3. row[c][j] = "paid"
    BY <2>2 DEF IInv, PaysInOrder
  <2> QED  BY <1>2, <1>3, <2>1, <2>3 DEF IInv, TypeOK
<1>12. LinkedIsComplete'
  BY <1>7 DEF IInv, LinkedIsComplete, TypeOK
<1> QED  BY <1>4, <1>6, <1>8, <1>10, <1>11, <1>12 DEF IInv

(* A step that leaves the batches and what handlers know alone.            *)
LEMMA UnnoticedStep ==
  ASSUME IInv, UNCHANGED <<batchVars, pc, work, todo>>,
         expired' \in [Batches -> BOOLEAN], lock' \in [Batches -> Handlers \cup {NoHandler}]
  PROVE  IInv'
<1>1. TypeOK'
  BY DEF IInv, TypeOK, batchVars
<1>2. \A c \in Batches : Rows(c)' = Rows(c) /\ Complete(c)' = Complete(c)
  BY DEF Rows, Complete, Missing, batchVars
<1>3. SizeInv' /\ PaysInOrder' /\ LinkedIsComplete'
  BY <1>2 DEF IInv, SizeInv, PaysInOrder, LinkedIsComplete, TypeOK, batchVars
<1>4. WorkInv' /\ PayInv' /\ SentInv'
  BY <1>2 DEF IInv, WorkInv, PayInv, SentInv, batchVars
<1> QED  BY <1>1, <1>3, <1>4 DEF IInv

(* A handler takes the lock and reads the rows.                            *)
LEMMA BeginStep ==
  ASSUME IInv, NEW h \in Handlers, NEW b \in Batches,
         BeginCheck(h, b) \/ BeginPay(h, b) \/ BeginRenew(h, b)
  PROVE  IInv'
<1>1. PICK step \in {"checking", "paying", "renewing"}, positions \in SUBSET Rows(b) :
        /\ Begin(h, b, step, positions)
        /\ step = "paying" => \A j \in Rows(b) \ positions : row[b][j] = "paid"
  <2>1. CASE BeginCheck(h, b)
    BY <2>1 DEF BeginCheck
  <2>2. CASE BeginPay(h, b)
    BY <2>2 DEF BeginPay, Unpaid
  <2>3. CASE BeginRenew(h, b)
    BY <2>3 DEF BeginRenew, Replaceable, Unpaid
  <2> QED  BY <2>1, <2>2, <2>3
<1>2. positions \subseteq Positions /\ Complete(b) /\ pc[h] = "idle"
  BY <1>1, RowsArePositions DEF IInv, Begin
<1>3. TypeOK'
  BY <1>1, <1>2 DEF IInv, TypeOK, Begin, batchVars, Step
<1>4. \A c \in Batches : Rows(c)' = Rows(c) /\ Complete(c)' = Complete(c)
  BY <1>1 DEF Begin, Rows, Complete, Missing, batchVars
<1>5. SizeInv' /\ PaysInOrder' /\ LinkedIsComplete'
  BY <1>1, <1>4 DEF IInv, SizeInv, PaysInOrder, LinkedIsComplete, TypeOK, Begin, batchVars
<1>6. WorkInv'
  BY <1>1, <1>2, <1>4 DEF IInv, WorkInv, TypeOK, Begin, batchVars
<1>7. PayInv'
  <2> SUFFICES ASSUME NEW g \in Handlers, pc'[g] \in {"paying", "sent"}, todo'[g] # {},
                      NEW j \in (Rows(work[g]) \ todo[g])'
               PROVE  row'[work'[g]][j] = "paid"
    BY DEF PayInv
  <2>1. CASE g = h
    <3>1. work'[g] = b /\ todo'[g] = positions /\ step = "paying"
      BY <1>1, <2>1 DEF IInv, TypeOK, Begin
    <3>2. Rows(work[g])' = Rows(b)
      BY <3>1, <1>1 DEF Rows, Begin, batchVars
    <3> QED  BY <1>1, <3>1, <3>2 DEF Begin, batchVars
  <2>2. CASE g # h
    <3>1. work'[g] = work[g] /\ todo'[g] = todo[g] /\ pc'[g] = pc[g]
      BY <1>1, <2>2 DEF IInv, TypeOK, Begin
    <3>2. Rows(work[g])' = Rows(work[g])
      BY <3>1, <1>1 DEF Rows, Begin, batchVars
    <3> QED  BY <1>1, <3>1, <3>2 DEF IInv, PayInv, Begin, batchVars
  <2> QED  BY <2>1, <2>2
<1>8. SentInv'
  BY <1>1, <1>2 DEF IInv, SentInv, TypeOK, Begin, batchVars
<1> QED  BY <1>3, <1>5, <1>6, <1>7, <1>8 DEF IInv

(* A handler ends its work or dies.                                        *)
LEMMA LeaveStep ==
  ASSUME IInv, NEW h \in Handlers, Release(h)
  PROVE  IInv'
<1>1. TypeOK'
  BY DEF IInv, TypeOK, Release, batchVars, Step
<1>2. \A c \in Batches : Rows(c)' = Rows(c) /\ Complete(c)' = Complete(c)
  BY DEF Release, Rows, Complete, Missing, batchVars
<1>3. SizeInv' /\ PaysInOrder' /\ LinkedIsComplete'
  BY <1>2 DEF IInv, SizeInv, PaysInOrder, LinkedIsComplete, TypeOK, Release, batchVars
<1>4. WorkInv' /\ PayInv' /\ SentInv'
  BY <1>2 DEF IInv, WorkInv, PayInv, SentInv, TypeOK, Release, batchVars
<1> QED  BY <1>1, <1>3, <1>4 DEF IInv

(* What a step may do to a row: it never becomes absent, never started     *)
(* again, and what is paid stays so.                                       *)
LEMMA RowChange ==
  ASSUME IInv, NEW b \in Batches, NEW i \in Rows(b), NEW s \in RowState,
         SetRow(b, i, s), s # "absent", row[b][i] = "paid" => s = "paid",
         row[b][i] # "absent",
         UNCHANGED <<size, replaced, renewal, linked>>
  PROVE  /\ row' = [row EXCEPT ![b][i] = s]
         /\ row' \in [Batches -> [Positions -> RowState]]
         /\ \A c \in Batches : Rows(c)' = Rows(c)
         /\ \A c \in Batches : Complete(c) => Complete(c)'
         /\ \A c \in Batches : \A j \in Positions : row[c][j] = "paid" => row'[c][j] = "paid"
         /\ SizeInv'
         /\ LinkedIsComplete'
<1>1. i \in Positions
  BY RowsArePositions DEF IInv
<1>2. row' = [row EXCEPT ![b][i] = s]
  BY DEF SetRow
<1>3. row' \in [Batches -> [Positions -> RowState]]
  BY <1>1, <1>2 DEF IInv, TypeOK
<1>4. \A c \in Batches : Rows(c)' = Rows(c)
  BY DEF Rows
<1>5. \A c \in Batches : Complete(c) => Complete(c)'
  <2> SUFFICES ASSUME NEW c \in Batches, Complete(c), NEW j \in Rows(c)
               PROVE  row'[c][j] # "absent"
    BY <1>4 DEF Complete, Missing
  <2>1. row[c][j] # "absent" /\ j \in Positions
    BY RowsArePositions DEF IInv, Complete, Missing
  <2> QED  BY <1>1, <1>2, <2>1 DEF IInv, TypeOK
<1>6. \A c \in Batches : \A j \in Positions : row[c][j] = "paid" => row'[c][j] = "paid"
  BY <1>1, <1>2 DEF IInv, TypeOK
<1>7. SizeInv'
  BY <1>1, <1>2, <1>4 DEF IInv, SizeInv, TypeOK
<1>8. LinkedIsComplete'
  BY <1>5 DEF IInv, LinkedIsComplete, TypeOK
<1> QED  BY <1>2, <1>3, <1>4, <1>5, <1>6, <1>7, <1>8

(* A change that starts nothing that is not behind paid positions keeps the*)
(* order.                                                                  *)
LEMMA RowKeepsOrder ==
  ASSUME IInv, NEW b \in Batches, NEW i \in Rows(b), NEW s \in RowState,
         SetRow(b, i, s), s # "absent", row[b][i] = "paid" => s = "paid",
         row[b][i] # "absent",
         UNCHANGED <<size, replaced, renewal, linked>>,
         s \in Started => row[b][i] \in Started \/ \A j \in 1 .. (i - 1) : row[b][j] = "paid"
  PROVE  PaysInOrder'
<1> SUFFICES ASSUME NEW c \in Batches, NEW k \in Rows(c), row'[c][k] \in Started,
                    NEW j \in 1 .. (k - 1)
             PROVE  row'[c][j] = "paid"
  BY RowChange DEF PaysInOrder
<1>1. k \in Positions /\ j \in Positions
  BY RowsArePositions DEF IInv
<1>2. row[c][k] \in Started \/ (c = b /\ k = i /\ s \in Started)
  BY <1>1, RowChange DEF IInv, TypeOK
<1>3. row[c][j] = "paid"
  BY <1>2 DEF IInv, PaysInOrder
<1> QED  BY <1>1, <1>3, RowChange

(* A check changes a position that was prepared, or nothing.               *)
LEMMA CheckRowStep ==
  ASSUME IInv, NEW h \in Handlers, CheckRow(h)
  PROVE  IInv'
<1> DEFINE b == work[h]
           i == First(todo[h])
<1>1. b \in Batches /\ i \in Rows(b) /\ i \in Positions /\ i \in todo[h] /\ Complete(b)
  BY NextPosition DEF IInv, CheckRow, WorkInv
<1>2. row[b][i] # "absent"
  BY <1>1 DEF Complete, Missing
<1>3. /\ pc[h] = "checking" /\ todo[h] # {}
      /\ UNCHANGED <<size, replaced, expired, renewal, linked, lock, pc, work>>
      /\ todo' = [todo EXCEPT ![h] = @ \ {i}] \/ todo' = [todo EXCEPT ![h] = {}]
  BY DEF CheckRow, Stop, Continue
<1>4. row' = row \/ \E s \in CheckEnds : SetRow(b, i, s) /\ row[b][i] = "prepared"
  <2>1. SetRow(b, i, row[b][i]) => row' = row
    BY <1>1 DEF SetRow, IInv, TypeOK
  <2> QED  BY <2>1 DEF CheckRow
<1> HIDE DEF b, i
<1>5. todo' \in [Handlers -> SUBSET Positions] /\ todo'[h] \subseteq todo[h]
      /\ \A g \in Handlers \ {h} : todo'[g] = todo[g]
  BY <1>3 DEF IInv, TypeOK
<1>6. /\ row' \in [Batches -> [Positions -> RowState]]
      /\ \A c \in Batches : Rows(c)' = Rows(c)
      /\ \A c \in Batches : Complete(c) => Complete(c)'
      /\ \A c \in Batches : \A j \in Positions :
            /\ row[c][j] = "paid" => row'[c][j] = "paid"
            /\ row[c][j] = "processing" => row'[c][j] = "processing"
      /\ SizeInv' /\ LinkedIsComplete' /\ PaysInOrder'
  <2>1. CASE row' = row
    <3>1. \A c \in Batches : Rows(c)' = Rows(c) /\ Complete(c)' = Complete(c)
      BY <1>3, <2>1 DEF Rows, Complete, Missing
    <3> QED  BY <1>3, <2>1, <3>1 DEF IInv, TypeOK, SizeInv, LinkedIsComplete, PaysInOrder
  <2>2. CASE row' # row
    <3>1. PICK s \in RowState :
            SetRow(b, i, s) /\ row[b][i] = "prepared" /\ s \notin Started /\ s # "absent"
      BY <1>4, <2>2 DEF CheckEnds, RowState, Started
    <3>2. \A c \in Batches : \A j \in Positions :
            row[c][j] = "processing" => row'[c][j] = "processing"
      BY <1>1, <3>1 DEF SetRow, IInv, TypeOK
    <3> QED  BY <1>1, <1>3, <3>1, <3>2, RowChange, RowKeepsOrder
  <2> QED  BY <2>1, <2>2
<1>7. TypeOK'
  BY <1>3, <1>5, <1>6 DEF IInv, TypeOK
<1>8. WorkInv'
  BY <1>3, <1>5, <1>6 DEF IInv, WorkInv
<1>9. \A g \in Handlers : pc'[g] \in {"paying", "sent"} =>
        g # h /\ work'[g] = work[g] /\ todo'[g] = todo[g] /\ work[g] \in Batches
        /\ Rows(work[g])' = Rows(work[g]) /\ Rows(work[g]) \subseteq Positions
        /\ (pc[g] = "sent" => First(todo[g]) \in Positions)
  BY <1>3, <1>5, <1>6, RowsArePositions, NextPosition DEF IInv, WorkInv
<1>10. PayInv'
  BY <1>3, <1>6, <1>9 DEF IInv, PayInv
<1>11. SentInv'
  BY <1>3, <1>6, <1>9 DEF IInv, SentInv
<1> QED  BY <1>6, <1>7, <1>8, <1>10, <1>11 DEF IInv

(* A paying handler commits to a position that is checked, or passes over  *)
(* one, or stops.                                                          *)
LEMMA PayRowStep ==
  ASSUME IInv, NEW h \in Handlers, PayRow(h)
  PROVE  IInv'
<1> DEFINE b == work[h]
           i == First(todo[h])
<1>1. /\ b \in Batches /\ i \in Rows(b) /\ i \in Positions /\ i \in todo[h]
      /\ \A j \in 1 .. (i - 1) : j \in Rows(b) \ todo[h]
      /\ pc[h] = "paying" /\ todo[h] # {}
      /\ UNCHANGED <<size, replaced, expired, renewal, linked, lock, work>>
  BY NextPosition DEF IInv, PayRow
<1>2. \A j \in 1 .. (i - 1) : row[b][j] = "paid"
  BY <1>1 DEF IInv, PayInv
<1>3. \A g \in Handlers : pc[g] # "idle" =>
        work[g] \in Batches /\ Rows(work[g]) \subseteq Positions
        /\ (todo[g] # {} => First(todo[g]) \in Positions)
  BY NextPosition, RowsArePositions DEF IInv, WorkInv
<1>4. CASE /\ row[b][i] = "checked"
           /\ SetRow(b, i, "processing")
           /\ pc' = [pc EXCEPT ![h] = "sent"]
           /\ todo' = todo
  <2> HIDE DEF b, i
  <2>1. /\ row' = [row EXCEPT ![b][i] = "processing"]
        /\ row' \in [Batches -> [Positions -> RowState]]
        /\ \A c \in Batches : Rows(c)' = Rows(c)
        /\ \A c \in Batches : Complete(c) => Complete(c)'
        /\ \A c \in Batches : \A j \in Positions : row[c][j] = "paid" => row'[c][j] = "paid"
        /\ SizeInv' /\ LinkedIsComplete'
    BY <1>1, <1>4, RowChange DEF RowState, Started
  <2>2. PaysInOrder'
    BY <1>1, <1>2, <1>4, RowKeepsOrder DEF RowState, Started
  <2>3. TypeOK'
    BY <1>1, <1>4, <2>1 DEF IInv, TypeOK, Step
  <2>4. WorkInv'
    BY <1>1, <1>4, <2>1 DEF IInv, WorkInv, TypeOK
  <2>5. PayInv'
    <3> SUFFICES ASSUME NEW g \in Handlers, pc'[g] \in {"paying", "sent"}, todo[g] # {},
                        NEW j \in Rows(work[g]) \ todo[g]
                 PROVE  row'[work[g]][j] = "paid"
      <4>1. \A g \in Handlers : pc'[g] \in {"paying", "sent"} =>
              work'[g] = work[g] /\ work[g] \in Batches
        BY <1>1, <1>3, <1>4 DEF IInv, TypeOK
      <4>2. \A g \in Handlers : pc'[g] \in {"paying", "sent"} => Rows(work[g])' = Rows(work[g])
        BY <1>1, <2>1, <4>1
      <4> QED  BY <1>4, <4>1, <4>2 DEF PayInv
    <3>1. pc[g] \in {"paying", "sent"}
      BY <1>1, <1>4 DEF IInv, TypeOK
    <3> QED  BY <1>3, <2>1, <3>1 DEF IInv, PayInv
  <2>6. SentInv'
    <3> SUFFICES ASSUME NEW g \in Handlers, pc'[g] = "sent"
                 PROVE  /\ row'[work[g]][First(todo[g])] = "processing"
                        /\ \A f \in Handlers :
                              pc'[f] = "sent" /\ work[f] = work[g] /\ First(todo[f]) = First(todo[g])
                                 => f = g
      BY <1>1, <1>4 DEF SentInv
    <3>1. \A f \in Handlers \ {h} : pc'[f] = "sent" => pc[f] = "sent" /\ ~ (work[f] = b /\ First(todo[f]) = i)
      BY <1>1, <1>4 DEF IInv, SentInv, TypeOK
    <3>2. \A f \in Handlers \ {h} : pc'[f] = "sent" => row'[work[f]][First(todo[f])] = "processing"
      BY <1>1, <1>3, <1>4, <2>1, <3>1 DEF IInv, SentInv, WorkInv, TypeOK
    <3>3. row'[b][i] = "processing"
      BY <1>1, <2>1 DEF IInv, TypeOK
    <3>4. row'[work[g]][First(todo[g])] = "processing"
      BY <3>2, <3>3 DEF b, i
    <3>5. ASSUME NEW f \in Handlers, pc'[f] = "sent", work[f] = work[g], First(todo[f]) = First(todo[g])
          PROVE  f = g
      <4>1. CASE f = h \/ g = h
        BY <3>1, <3>5, <4>1 DEF b, i
      <4>2. CASE f # h /\ g # h
        BY <3>1, <3>5, <4>2 DEF IInv, SentInv
      <4> QED  BY <4>1, <4>2
    <3> QED  BY <3>4, <3>5
  <2> QED  BY <2>1, <2>2, <2>3, <2>4, <2>5, <2>6 DEF IInv
<1>5. CASE /\ row' = row /\ pc' = pc
           /\ \/ row[b][i] = "paid" /\ todo' = [todo EXCEPT ![h] = @ \ {i}]
              \/ todo' = [todo EXCEPT ![h] = {}]
  <2> HIDE DEF b, i
  <2>1. \A c \in Batches : Rows(c)' = Rows(c) /\ Complete(c)' = Complete(c)
    BY <1>1, <1>5 DEF Rows, Complete, Missing
  <2>0. /\ todo' \in [Handlers -> SUBSET Positions]
        /\ \A g \in Handlers : todo'[g] \subseteq todo[g] /\ (g # h => todo'[g] = todo[g])
    BY <1>5 DEF IInv, TypeOK
  <2>2. TypeOK'
    BY <1>1, <1>5, <2>0 DEF IInv, TypeOK
  <2>3. SizeInv' /\ PaysInOrder' /\ LinkedIsComplete'
    BY <1>1, <1>5, <2>1 DEF IInv, SizeInv, PaysInOrder, LinkedIsComplete, TypeOK
  <2>4. WorkInv'
    <3>1. \A g \in Handlers : pc'[g] = pc[g] /\ work'[g] = work[g] /\ (pc[g] = "sent" => todo'[g] = todo[g])
      BY <1>1, <1>5, <2>0
    <3>2. \A g \in Handlers : pc[g] # "idle" =>
            Rows(work[g])' = Rows(work[g]) /\ Complete(work[g])' = Complete(work[g])
      BY <1>1, <1>3, <2>1
    <3> QED  BY <1>1, <2>0, <3>1, <3>2 DEF IInv, WorkInv
  <2>5. PayInv'
    <3> SUFFICES ASSUME NEW g \in Handlers, pc[g] \in {"paying", "sent"}, todo'[g] # {},
                        NEW j \in Rows(work[g]) \ todo'[g]
                 PROVE  row[work[g]][j] = "paid"
      BY <1>1, <1>3, <1>5, <2>1 DEF PayInv
    <3>1. (j \notin todo[g] /\ todo[g] # {}) \/ (g = h /\ j = i /\ row[b][i] = "paid")
      BY <1>1, <1>5 DEF IInv, TypeOK
    <3> QED  BY <3>1 DEF IInv, PayInv, b
  <2>6. SentInv'
    <3>1. \A g \in Handlers : pc'[g] = "sent" =>
            pc[g] = "sent" /\ work'[g] = work[g] /\ todo'[g] = todo[g]
      BY <1>1, <1>5, <2>0
    <3> QED  BY <1>5, <3>1 DEF IInv, SentInv
  <2> QED  BY <2>2, <2>3, <2>4, <2>5, <2>6 DEF IInv
<1> QED  BY <1>4, <1>5 DEF PayRow, Continue, Stop

(* A position whose outcome was unknown is settled, or stays unknown, while*)
(* no other handler waits for Airpay about it.                             *)
LEMMA SettledRow ==
  ASSUME IInv, NEW b \in Batches, NEW i \in Rows(b), NEW s \in Started,
         row[b][i] = "processing", SetRow(b, i, s),
         UNCHANGED <<size, replaced, renewal, linked, work>>,
         \A g \in Handlers : pc[g] = "sent" /\ pc'[g] = "sent" =>
            ~ (work[g] = b /\ First(todo[g]) = i) /\ todo'[g] = todo[g],
         \A g \in Handlers : pc'[g] = "sent" => pc[g] = "sent"
  PROVE  /\ SizeInv' /\ LinkedIsComplete' /\ PaysInOrder' /\ SentInv'
         /\ row' = [row EXCEPT ![b][i] = s]
         /\ row' \in [Batches -> [Positions -> RowState]]
         /\ \A c \in Batches : Rows(c)' = Rows(c)
         /\ \A c \in Batches : Complete(c) => Complete(c)'
         /\ \A c \in Batches : \A j \in Positions : row[c][j] = "paid" => row'[c][j] = "paid"
<1>1. s \in RowState /\ s # "absent" /\ row[b][i] \in Started /\ row[b][i] # "paid" /\ row[b][i] # "absent"
  BY DEF RowState, Started
<1>2. /\ SizeInv' /\ LinkedIsComplete'
      /\ row' = [row EXCEPT ![b][i] = s]
      /\ row' \in [Batches -> [Positions -> RowState]]
      /\ \A c \in Batches : Rows(c)' = Rows(c)
      /\ \A c \in Batches : Complete(c) => Complete(c)'
      /\ \A c \in Batches : \A j \in Positions : row[c][j] = "paid" => row'[c][j] = "paid"
  BY <1>1, RowChange
<1>3. PaysInOrder'
  BY <1>1, RowKeepsOrder
<1>4. SentInv'
  <2>1. \A g \in Handlers : pc'[g] = "sent" =>
          /\ pc[g] = "sent" /\ todo'[g] = todo[g] /\ ~ (work[g] = b /\ First(todo[g]) = i)
          /\ work[g] \in Batches /\ First(todo[g]) \in Positions
    BY NextPosition DEF IInv, WorkInv
  <2>2. i \in Positions
    BY RowsArePositions DEF IInv
  <2>3. \A g \in Handlers : pc'[g] = "sent" => row'[work[g]][First(todo[g])] = "processing"
    BY <1>2, <2>1, <2>2 DEF IInv, SentInv, TypeOK
  <2> QED  BY <2>1, <2>3 DEF IInv, SentInv
<1> QED  BY <1>2, <1>3, <1>4

(* Airpay's answer is saved; the handler goes on if it was paid.           *)
LEMMA SavePayStep ==
  ASSUME IInv, NEW h \in Handlers, SavePay(h)
  PROVE  IInv'
<1> DEFINE b == work[h]
           i == First(todo[h])
<1>1. /\ b \in Batches /\ i \in Rows(b) /\ i \in Positions /\ i \in todo[h]
      /\ pc[h] = "sent" /\ row[b][i] = "processing"
      /\ UNCHANGED <<size, replaced, expired, renewal, linked, lock, work>>
      /\ pc' = [pc EXCEPT ![h] = "paying"]
  BY NextPosition DEF IInv, SavePay, WorkInv, SentInv
<1>2. PICK s \in Started : SetRow(b, i, s) /\ Proceed(h, i, s)
  BY DEF SavePay
<1>3. \/ s = "paid" /\ todo' = [todo EXCEPT ![h] = @ \ {i}]
      \/ todo' = [todo EXCEPT ![h] = {}]
  BY <1>2 DEF Proceed, Continue, Stop
<1>4. \A g \in Handlers : pc[g] = "sent" /\ g # h => ~ (work[g] = b /\ First(todo[g]) = i)
  BY <1>1 DEF IInv, SentInv
<1> HIDE DEF b, i
<1>5. \A g \in Handlers :
        /\ g # h => pc'[g] = pc[g] /\ todo'[g] = todo[g]
        /\ g = h => pc'[g] = "paying"
  BY <1>1, <1>3 DEF IInv, TypeOK
<1>6. /\ SizeInv' /\ LinkedIsComplete' /\ PaysInOrder' /\ SentInv'
      /\ row' = [row EXCEPT ![b][i] = s]
      /\ row' \in [Batches -> [Positions -> RowState]]
      /\ \A c \in Batches : Rows(c)' = Rows(c)
      /\ \A c \in Batches : Complete(c) => Complete(c)'
      /\ \A c \in Batches : \A j \in Positions : row[c][j] = "paid" => row'[c][j] = "paid"
  BY <1>1, <1>2, <1>4, <1>5, SettledRow
<1>7. TypeOK'
  <2>1. todo' \in [Handlers -> SUBSET Positions] /\ pc' \in [Handlers -> Step]
    BY <1>1, <1>3 DEF IInv, TypeOK, Step
  <2> QED  BY <1>1, <1>6, <2>1 DEF IInv, TypeOK
<1>8. WorkInv'
  BY <1>1, <1>3, <1>6 DEF IInv, WorkInv, TypeOK
<1>9. PayInv'
  <2> SUFFICES ASSUME NEW g \in Handlers, pc'[g] \in {"paying", "sent"}, todo'[g] # {},
                      NEW j \in Rows(work[g]) \ todo'[g]
               PROVE  row'[work[g]][j] = "paid"
    <3>1. \A g \in Handlers : pc'[g] \in {"paying", "sent"} => work[g] \in Batches /\ work'[g] = work[g]
      BY <1>1, <1>5 DEF IInv, WorkInv
    <3>2. \A g \in Handlers : pc'[g] \in {"paying", "sent"} => Rows(work[g])' = Rows(work[g])
      BY <1>1, <1>6, <3>1
    <3> QED  BY <3>1, <3>2 DEF PayInv
  <2>1. pc[g] \in {"paying", "sent"} /\ todo[g] # {} /\ work[g] \in Batches /\ j \in Positions
    BY <1>1, <1>3, <1>5, RowsArePositions DEF IInv, WorkInv, TypeOK
  <2>2. j \notin todo[g] \/ (g = h /\ j = i /\ s = "paid")
    BY <1>1, <1>3, <1>5, <2>1 DEF IInv, TypeOK
  <2>3. CASE j \notin todo[g]
    BY <1>6, <2>1, <2>3 DEF IInv, PayInv
  <2>4. CASE g = h /\ j = i /\ s = "paid"
    BY <1>1, <1>6, <2>4 DEF IInv, TypeOK, b
  <2> QED  BY <2>2, <2>3, <2>4
<1> QED  BY <1>6, <1>7, <1>8, <1>9 DEF IInv

(* A repetition or the owner settles a position outside any batch's work.  *)
LEMMA SettleStep ==
  ASSUME IInv, NEW b \in Batches, NEW i \in Rows(b), Settle(b, i)
  PROVE  IInv'
<1>1. PICK s \in {"paid", "failed"} : SetRow(b, i, s)
  BY DEF Settle
<1>2. /\ row[b][i] = "processing" /\ s \in Started
      /\ UNCHANGED <<size, replaced, expired, renewal, linked, lock, pc, work, todo>>
  BY <1>1 DEF Settle, handlerVars, Started
<1>3. \A g \in Handlers : pc[g] = "sent" => ~ (work[g] = b /\ First(todo[g]) = i)
  BY DEF Settle
<1>4. /\ SizeInv' /\ LinkedIsComplete' /\ PaysInOrder' /\ SentInv'
      /\ row' \in [Batches -> [Positions -> RowState]]
      /\ \A c \in Batches : Rows(c)' = Rows(c)
      /\ \A c \in Batches : Complete(c) => Complete(c)'
      /\ \A c \in Batches : \A j \in Positions : row[c][j] = "paid" => row'[c][j] = "paid"
  BY <1>1, <1>2, <1>3, SettledRow
<1>5. TypeOK'
  BY <1>2, <1>4 DEF IInv, TypeOK
<1>6. WorkInv'
  BY <1>2, <1>4 DEF IInv, WorkInv
<1>7. PayInv'
  <2>1. \A g \in Handlers : pc[g] # "idle" =>
          work[g] \in Batches /\ Rows(work[g])' = Rows(work[g]) /\ Rows(work[g]) \subseteq Positions
    BY <1>2, <1>4, RowsArePositions DEF IInv, WorkInv
  <2> QED  BY <1>2, <1>4, <2>1 DEF IInv, PayInv
<1> QED  BY <1>4, <1>5, <1>6, <1>7 DEF IInv

(* Some positions are at least one and at most all.                        *)
LEMMA SomePositions ==
  ASSUME NEW S, S \subseteq Positions, S # {}
  PROVE  IsFiniteSet(S) /\ Cardinality(S) \in 1 .. MaxQuantity
<1>1. IsFiniteSet(Positions) /\ Cardinality(Positions) = MaxQuantity
  BY FS_Interval, MaxQuantityAssumption DEF Positions
<1>2. IsFiniteSet(S) /\ Cardinality(S) <= MaxQuantity
  BY <1>1, FS_Subset
<1>3. Cardinality(S) \in Nat /\ Cardinality(S) # 0
  BY <1>2, FS_CardinalityType, FS_EmptySet
<1> QED  BY <1>2, <1>3, MaxQuantityAssumption

(* A new batch is recorded as the renewal of the one that is renewed.      *)
LEMMA NewRenewal ==
  ASSUME IInv, NEW h \in Handlers, pc[h] = "renewing", renewal[work[h]] = NoBatch,
         todo[h] # {}, NEW n \in Batches, size[n] = 0,
         size' = [size EXCEPT ![n] = Cardinality(todo[h])],
         renewal' = [renewal EXCEPT ![work[h]] = n],
         replaced' = [replaced EXCEPT ![work[h]] = @ \cup todo[h]],
         pc' = [pc EXCEPT ![h] = "preparing"],
         UNCHANGED <<row, linked, expired, lock, work, todo>>
  PROVE  IInv'
<1> DEFINE b == work[h]
<1>1. /\ b \in Batches /\ Complete(b) /\ todo[h] \subseteq Positions
      /\ b # n /\ size[b] > 0 /\ n # NoBatch
  <2>1. b \in Batches /\ Complete(b) /\ todo[h] \subseteq Rows(b)
    BY DEF IInv, WorkInv
  <2>2. todo[h] \subseteq Positions
    BY <2>1, RowsArePositions DEF IInv
  <2>3. size[b] > 0
    BY <2>1 DEF Complete
  <2> QED  BY <2>1, <2>2, <2>3, BatchesAreNumbered
<1>2. Cardinality(todo[h]) \in 1 .. MaxQuantity
  BY <1>1, SomePositions
<1>3. /\ \A c \in Batches \ {n} : Rows(c)' = Rows(c)
      /\ \A c \in Batches : Complete(c) => c # n /\ Complete(c)'
      /\ \A c \in Batches : Rows(c) \subseteq Rows(c)'
  <2>1. \A c \in Batches \ {n} : size'[c] = size[c]
    BY DEF IInv, TypeOK
  <2>2. Rows(n) = {}
    BY DEF Rows
  <2> QED  BY <2>1, <2>2 DEF Rows, Complete, Missing
<1>4. \A i \in Positions : row[n][i] = "absent"
  BY DEF IInv, SizeInv, Rows
<1>5. TypeOK'
  BY <1>1, <1>2 DEF IInv, TypeOK, Step
<1>6. SizeInv'
  <2>1. \A c \in Batches : size[c] > 0 => size'[c] > 0
    BY <1>2 DEF IInv, TypeOK
  <2>2. size[Root] > 0 /\ Root \in Batches
    BY <1>1, BatchesAreNumbered DEF IInv, SizeInv
  <2>3. \A c \in Batches : renewal'[c] # NoBatch =>
          renewal'[c] \in Batches /\ size'[c] > 0 /\ size'[renewal'[c]] > 0
    BY <1>1, <1>2, <2>1 DEF IInv, TypeOK, SizeInv
  <2>4. \A c \in Batches : \A i \in Positions : row[c][i] # "absent" => i \in Rows(c)'
    BY <1>3 DEF IInv, SizeInv
  <2> QED  BY <2>1, <2>2, <2>3, <2>4 DEF SizeInv
<1>7. \A g \in Handlers : pc[g] # "idle" =>
        work[g] \in Batches \ {n} /\ Rows(work[g])' = Rows(work[g]) /\ Complete(work[g])'
  BY <1>3 DEF IInv, WorkInv
<1>8. WorkInv'
  BY <1>1, <1>7 DEF IInv, WorkInv, TypeOK
<1>9. PayInv' /\ SentInv'
  <2>1. \A g \in Handlers : pc'[g] \in {"paying", "sent"} => pc'[g] = pc[g]
    BY DEF IInv, TypeOK
  <2>2. PayInv'
    BY <1>7, <2>1 DEF IInv, PayInv
  <2>3. SentInv'
    BY <2>1 DEF IInv, SentInv
  <2> QED  BY <2>2, <2>3
<1>10. PaysInOrder'
  <2> SUFFICES ASSUME NEW c \in Batches, NEW i \in Rows(c)', row[c][i] \in Started
               PROVE  \A j \in 1 .. (i - 1) : row[c][j] = "paid"
    BY DEF PaysInOrder
  <2>1. i \in Positions
    BY <1>5, NextRowsArePositions
  <2>2. c # n
    BY <1>4, <2>1 DEF Started
  <2> QED  BY <1>3, <2>2 DEF IInv, PaysInOrder
<1>11. LinkedIsComplete'
  BY <1>1, <1>3, BatchesAreNumbered DEF IInv, LinkedIsComplete, TypeOK
<1> QED  BY <1>5, <1>6, <1>8, <1>9, <1>10, <1>11 DEF IInv

(* The renewal is recorded, or one that was recorded before is resumed.    *)
LEMMA CommitRenewalStep ==
  ASSUME IInv, NEW h \in Handlers, CommitRenewal(h)
  PROVE  IInv'
<1>1. CASE renewal[work[h]] = NoBatch
  BY <1>1, NewRenewal DEF CommitRenewal
<1>2. CASE renewal[work[h]] # NoBatch
  <2>1. /\ UNCHANGED <<batchVars, expired, lock, work, todo>>
        /\ pc[h] = "renewing" /\ pc' = [pc EXCEPT ![h] = "preparing"]
    BY <1>2 DEF CommitRenewal, batchVars
  <2>2. TypeOK'
    BY <2>1 DEF IInv, TypeOK, batchVars, Step
  <2>3. \A c \in Batches : Rows(c)' = Rows(c) /\ Complete(c)' = Complete(c)
    BY <2>1 DEF Rows, Complete, Missing, batchVars
  <2>4. SizeInv' /\ PaysInOrder' /\ LinkedIsComplete'
    BY <2>1, <2>3 DEF IInv, SizeInv, PaysInOrder, LinkedIsComplete, TypeOK, batchVars
  <2>5. \A g \in Handlers : pc[g] # "idle" =>
          work[g] \in Batches /\ Rows(work[g])' = Rows(work[g]) /\ Complete(work[g])'
    BY <2>1, <2>3 DEF IInv, WorkInv
  <2>6. WorkInv'
    BY <1>2, <2>1, <2>5 DEF IInv, WorkInv, TypeOK, batchVars
  <2>7. \A g \in Handlers : pc'[g] \in {"paying", "sent"} => pc'[g] = pc[g]
    BY <2>1 DEF IInv, TypeOK
  <2>8. PayInv' /\ SentInv'
    BY <2>1, <2>5, <2>7 DEF IInv, PayInv, SentInv, batchVars
  <2> QED  BY <2>2, <2>4, <2>6, <2>8 DEF IInv
<1> QED  BY <1>1, <1>2

(* A renewal with all its rows is linked, and its handler is done.         *)
LEMMA LinkRenewalStep ==
  ASSUME IInv, NEW h \in Handlers, LinkRenewal(h)
  PROVE  IInv'
<1> DEFINE b == work[h]
<1>1. /\ b \in Batches /\ renewal[b] # NoBatch /\ renewal[b] \in Batches
      /\ size[renewal[b]] > 0 /\ Missing(renewal[b]) = {}
  BY DEF IInv, WorkInv, SizeInv, LinkRenewal, Prepared
<1> HIDE DEF b
<1>2. /\ linked' = [linked EXCEPT ![b] = TRUE]
      /\ UNCHANGED <<size, row, replaced, renewal, expired>>
      /\ pc' = [pc EXCEPT ![h] = "idle"]
      /\ work' = [work EXCEPT ![h] = NoBatch]
      /\ todo' = [todo EXCEPT ![h] = {}]
  BY DEF LinkRenewal, b
<1>3. TypeOK'
  BY <1>1, <1>2 DEF IInv, TypeOK, LinkRenewal, Step
<1>4. \A c \in Batches : Rows(c)' = Rows(c) /\ Complete(c)' = Complete(c)
  BY <1>2 DEF Rows, Complete, Missing
<1>5. SizeInv' /\ PaysInOrder'
  BY <1>2, <1>4 DEF IInv, SizeInv, PaysInOrder
<1>6. LinkedIsComplete'
  <2>1. Complete(renewal[b])
    BY <1>1 DEF Complete
  <2> QED  BY <1>1, <1>2, <1>4, <2>1 DEF IInv, TypeOK, LinkedIsComplete
<1>7. \A g \in Handlers : pc'[g] # "idle" =>
        pc'[g] = pc[g] /\ work'[g] = work[g] /\ todo'[g] = todo[g] /\ work[g] \in Batches
  BY <1>2 DEF IInv, WorkInv, TypeOK
<1>8. \A g \in Handlers : pc'[g] # "idle" =>
        Rows(work[g])' = Rows(work[g]) /\ Complete(work[g])' = Complete(work[g])
  BY <1>4, <1>7
<1>9. WorkInv' /\ PayInv' /\ SentInv'
  <2>1. WorkInv'
    BY <1>2, <1>7, <1>8 DEF IInv, WorkInv
  <2>2. PayInv'
    BY <1>2, <1>7, <1>8 DEF IInv, PayInv
  <2>3. SentInv'
    BY <1>2, <1>7 DEF IInv, SentInv
  <2> QED  BY <2>1, <2>2, <2>3
<1> QED  BY <1>3, <1>5, <1>6, <1>9 DEF IInv

(* The rows of a renewal are prepared one by one.                          *)
LEMMA PrepareRenewalStep ==
  ASSUME IInv, NEW h \in Handlers, PrepareRenewal(h)
  PROVE  IInv'
<1>1. renewal[work[h]] \in Batches
  BY DEF IInv, WorkInv, SizeInv, PrepareRenewal
<1> QED  BY <1>1, PreparedRow DEF PrepareRenewal, IInv, TypeOK

(* Every step keeps what holds with or without the locks.                  *)
LEMMA NextIInv == IInv /\ [Next]_vars => IInv'
<1> SUFFICES ASSUME IInv, [Next]_vars PROVE IInv'
  OBVIOUS
<1>1. CASE Order
  BY <1>1, OrderStep
<1>2. CASE PrepareOrdered
  BY <1>2, PreparedRow, BatchesAreNumbered DEF PrepareOrdered, IInv, TypeOK
<1>3. ASSUME NEW h \in Handlers, NEW b \in Batches,
             BeginCheck(h, b) \/ BeginPay(h, b) \/ BeginRenew(h, b)
      PROVE  IInv'
  BY <1>3, BeginStep
<1>4. ASSUME NEW h \in Handlers, CheckRow(h) \/ PayRow(h) \/ SavePay(h)
      PROVE  IInv'
  BY <1>4, CheckRowStep, PayRowStep, SavePayStep
<1>5. ASSUME NEW h \in Handlers, CommitRenewal(h) \/ PrepareRenewal(h) \/ LinkRenewal(h)
      PROVE  IInv'
  BY <1>5, CommitRenewalStep, PrepareRenewalStep, LinkRenewalStep
<1>6. ASSUME NEW h \in Handlers, Finish(h) \/ Dies(h)
      PROVE  IInv'
  BY <1>6, LeaveStep DEF Finish, Dies
<1>7. ASSUME NEW h \in Handlers, LoseLock(h)
      PROVE  IInv'
  BY <1>7, UnnoticedStep DEF LoseLock, IInv, TypeOK
<1>8. ASSUME NEW b \in Batches, Expire(b)
      PROVE  IInv'
  BY <1>8, UnnoticedStep DEF Expire, handlerVars, IInv, TypeOK
<1>9. ASSUME NEW b \in Batches, NEW i \in Rows(b), Settle(b, i)
      PROVE  IInv'
  BY <1>9, SettleStep
<1>10. CASE UNCHANGED vars
  BY <1>10, UnnoticedStep DEF vars, handlerVars, IInv, TypeOK
<1> QED  BY <1>1, <1>2, <1>3, <1>4, <1>5, <1>6, <1>7, <1>8, <1>9, <1>10 DEF Next

(* It always holds.                                                        *)
LEMMA AlwaysIInv == Spec => []IInv
  BY InitIInv, NextIInv, PTL DEF Spec

-----------------------------------------------------------------------------
(* What holds while the locks do.                                          *)

KeptInv == LocksHold => HeldInv

(* The quantity of an order is settled when it is placed.                  *)
LEMMA RootKeepsSize ==
  ASSUME IInv, Next, ~ Order
  PROVE  size'[Root] = size[Root]
<1>1. ASSUME NEW h \in Handlers, CommitRenewal(h) PROVE size'[Root] = size[Root]
  <2>1. size[Root] > 0
    BY <1>1, BatchesAreNumbered DEF CommitRenewal, IInv, WorkInv, SizeInv, Complete
  <2> QED  BY <1>1, <2>1, BatchesAreNumbered DEF CommitRenewal, IInv, TypeOK
<1>2. ASSUME NEW h \in Handlers, NEW b \in Batches,
             BeginCheck(h, b) \/ BeginPay(h, b) \/ BeginRenew(h, b)
      PROVE  size'[Root] = size[Root]
  BY <1>2 DEF BeginCheck, BeginPay, BeginRenew, Begin, batchVars
<1>3. ASSUME NEW h \in Handlers,
             \/ CheckRow(h) \/ PayRow(h) \/ SavePay(h) \/ PrepareRenewal(h) \/ LinkRenewal(h)
             \/ Finish(h) \/ Dies(h) \/ LoseLock(h)
      PROVE  size'[Root] = size[Root]
  BY <1>3 DEF CheckRow, PayRow, SavePay, PrepareRenewal, LinkRenewal, Finish, Dies,
              LoseLock, Release, batchVars
<1>4. ASSUME NEW b \in Batches, Expire(b) \/ \E i \in Rows(b) : Settle(b, i)
      PROVE  size'[Root] = size[Root]
  BY <1>4 DEF Expire, Settle, batchVars
<1>5. CASE PrepareOrdered
  BY <1>5 DEF PrepareOrdered
<1> QED  BY <1>1, <1>2, <1>3, <1>4, <1>5 DEF Next

(* Whether locks hold is settled with it.                                  *)
LEMMA LocksStillHold ==
  ASSUME IInv, Next, LocksHold'
  PROVE  LocksHold
<1>1. CASE size[Root] = 0
  BY <1>1, LossyAssumption DEF LocksHold, Quantities
<1>2. CASE size[Root] # 0
  <2>1. ~ Order
    BY <1>2 DEF Order
  <2> QED  BY <2>1, RootKeepsSize DEF LocksHold
<1> QED  BY <1>1, <1>2

(* While nobody has ordered, everything is quiet.                          *)
LEMMA InitKept == Init => KeptInv
  BY DEF Init, KeptInv, HeldInv, LockInv, QuietInv, RenewInv, ChainInv, OneInv, ReplacedIsUnpaid

(* A handler at work works on its batch alone.                             *)
LEMMA WorksAlone ==
  ASSUME LockInv, NEW h \in Handlers, NEW g \in Handlers,
         pc[h] # "idle", pc[g] # "idle", work[h] = work[g]
  PROVE  h = g
BY DEF LockInv

(* The ordered batch is the only one.                                      *)
LEMMA OrderHeld ==
  ASSUME IInv, HeldInv, Order
  PROVE  HeldInv'
<1>1. /\ Root \in Batches
      /\ \A b \in Batches : size[b] = 0
      /\ \A b \in Batches : \A i \in Positions : row[b][i] = "absent"
      /\ \A h \in Handlers : pc[h] = "idle"
      /\ \A b \in Batches : renewal[b] = NoBatch /\ replaced[b] = {}
  <2>1. TypeOK /\ SizeInv /\ WorkInv /\ Root \in Batches
    BY BatchesAreNumbered DEF IInv
  <2>2. \A b \in Batches : size[b] = 0
    BY <2>1, MaxQuantityAssumption DEF Order, SizeInv, TypeOK
  <2>3. \A b \in Batches : Rows(b) = {}
    BY <2>2 DEF Rows
  <2>4. \A b \in Batches : renewal[b] = NoBatch
    BY <2>1, <2>2 DEF SizeInv
  <2> QED  BY <2>1, <2>2, <2>3, <2>4 DEF SizeInv, WorkInv, Complete, HeldInv, ChainInv
<1>2. \A b \in Batches \ {Root} : size'[b] = 0
  BY <1>1 DEF Order, IInv, TypeOK
<1>3. \A b \in Batches : \A i \in Positions : row'[b][i] # "processing"
  BY <1>1 DEF Order, SetRow, IInv, TypeOK
<1>4. LockInv' /\ QuietInv' /\ RenewInv'
  BY <1>1 DEF Order, LockInv, QuietInv, RenewInv, handlerVars
<1>5. ChainInv' /\ ReplacedIsUnpaid'
  BY <1>1, <1>2 DEF Order, ChainInv, ReplacedIsUnpaid
<1>6. OneInv'
  BY <1>3 DEF OneInv
<1> QED  BY <1>4, <1>5, <1>6 DEF HeldInv

(* A row that is prepared is in a batch nobody works on.                   *)
LEMMA PreparedHeld ==
  ASSUME IInv, HeldInv, NEW b \in Batches, Missing(b) # {},
         SetRow(b, First(Missing(b)), "prepared"),
         UNCHANGED <<size, replaced, renewal, linked, handlerVars>>
  PROVE  HeldInv'
<1> DEFINE i == First(Missing(b))
<1>1. i \in Missing(b) /\ i \in Positions
  BY FirstIsLeast, RowsArePositions DEF IInv, Missing
<1>2. row[b][i] = "absent"
  BY <1>1 DEF Missing
<1> HIDE DEF i
<1>3. row' = [row EXCEPT ![b][i] = "prepared"]
  BY DEF SetRow, i
<1>4. \A c \in Batches : Rows(c)' = Rows(c)
  BY DEF Rows
<1>5. \A h \in Handlers : pc[h] # "idle" =>
        work[h] \in Batches /\ row'[work[h]] = row[work[h]] /\ Rows(work[h])' = Rows(work[h])
  <2>1. ~ Complete(b)
    BY DEF Complete
  <2> QED  BY <1>3, <1>4, <2>1 DEF IInv, WorkInv, TypeOK, handlerVars
<1>6. LockInv' /\ QuietInv' /\ RenewInv'
  BY <1>5 DEF HeldInv, LockInv, QuietInv, RenewInv, Quiet, handlerVars
<1>7. \A c \in Batches : \A j \in Positions :
        /\ row'[c][j] \in {"processing", "paid"} => row'[c][j] = row[c][j]
        /\ row[c][j] = "paid" => row'[c][j] = "paid"
  BY <1>1, <1>2, <1>3 DEF IInv, TypeOK
<1>8. ChainInv'
  BY <1>4, <1>7, RowsArePositions DEF IInv, HeldInv, ChainInv
<1>9. OneInv'
  BY <1>7 DEF HeldInv, OneInv
<1>10. ReplacedIsUnpaid'
  BY <1>7 DEF IInv, TypeOK, HeldInv, ReplacedIsUnpaid
<1> QED  BY <1>6, <1>8, <1>9, <1>10 DEF HeldInv

(* Who begins finds the lock free and the batch as it says.                *)
LEMMA BeginHeld ==
  ASSUME IInv, HeldInv, NEW h \in Handlers, NEW b \in Batches,
         BeginCheck(h, b) \/ BeginPay(h, b) \/ BeginRenew(h, b)
  PROVE  HeldInv'
<1>1. PICK step \in {"checking", "paying", "renewing"}, positions \in SUBSET Rows(b) :
        /\ Begin(h, b, step, positions)
        /\ step = "paying" => \A j \in Rows(b) : Quiet(b, j)
        /\ step = "renewing" /\ positions # {} =>
              /\ \A i \in positions : row[b][i] \notin {"processing", "paid"}
              /\ \A i \in Rows(b) \ positions : row[b][i] = "paid"
  <2>1. CASE BeginCheck(h, b)
    BY <2>1 DEF BeginCheck
  <2>2. CASE BeginPay(h, b)
    BY <2>2 DEF BeginPay, Unpaid, Payable, Quiet
  <2>3. CASE BeginRenew(h, b)
    BY <2>3 DEF BeginRenew, Replaceable, Unpaid
  <2> QED  BY <2>1, <2>2, <2>3
<1>2. /\ pc[h] = "idle" /\ lock[b] = NoHandler
      /\ lock' = [lock EXCEPT ![b] = h] /\ pc' = [pc EXCEPT ![h] = step]
      /\ work' = [work EXCEPT ![h] = b] /\ todo' = [todo EXCEPT ![h] = positions]
      /\ UNCHANGED batchVars
  BY <1>1 DEF Begin, Unlocked
<1>3. \A c \in Batches : Rows(c)' = Rows(c)
  BY <1>2 DEF Rows, batchVars
<1>4. /\ pc'[h] = step /\ work'[h] = b /\ todo'[h] = positions /\ Rows(work[h])' = Rows(b)
      /\ \A g \in Handlers \ {h} : pc'[g] = pc[g] /\ work'[g] = work[g] /\ todo'[g] = todo[g]
  BY <1>2, <1>3 DEF IInv, TypeOK
<1>5. \A g \in Handlers \ {h} : pc[g] # "idle" =>
        /\ work[g] \in Batches /\ work[g] # b
        /\ Rows(work[g])' = Rows(work[g])
  BY <1>2, <1>3, <1>4, NoHandlerAssumption DEF IInv, WorkInv, HeldInv, LockInv
<1>6. LockInv'
  BY <1>2, <1>4, <1>5 DEF IInv, TypeOK, HeldInv, LockInv
<1>7. QuietInv'
  BY <1>1, <1>2, <1>4, <1>5 DEF HeldInv, QuietInv, Quiet, batchVars
<1>8. RenewInv'
  BY <1>1, <1>2, <1>4, <1>5 DEF HeldInv, RenewInv, batchVars
<1>9. ChainInv' /\ OneInv' /\ ReplacedIsUnpaid'
  BY <1>2, <1>3 DEF HeldInv, ChainInv, OneInv, ReplacedIsUnpaid, batchVars
<1> QED  BY <1>6, <1>7, <1>8, <1>9 DEF HeldInv

(* Who leaves leaves the others their locks.                               *)
LEMMA LeaveHeld ==
  ASSUME IInv, HeldInv, NEW h \in Handlers,
         UNCHANGED <<size, row, replaced, renewal>>,
         lock' = [c \in Batches |-> IF lock[c] = h THEN NoHandler ELSE lock[c]],
         pc' = [pc EXCEPT ![h] = "idle"], work' = [work EXCEPT ![h] = NoBatch],
         todo' = [todo EXCEPT ![h] = {}]
  PROVE  HeldInv'
<1>1. \A c \in Batches : Rows(c)' = Rows(c)
  BY DEF Rows
<1>2. \A g \in Handlers : pc'[g] # "idle" =>
        /\ g # h /\ pc'[g] = pc[g] /\ work'[g] = work[g] /\ todo'[g] = todo[g]
        /\ work[g] \in Batches
  BY DEF IInv, TypeOK, WorkInv
<1>3. \A g \in Handlers : pc'[g] # "idle" => Rows(work[g])' = Rows(work[g])
  BY <1>1, <1>2
<1>4. LockInv'
  BY <1>2 DEF HeldInv, LockInv
<1>5. QuietInv' /\ RenewInv'
  BY <1>2, <1>3 DEF HeldInv, QuietInv, RenewInv, Quiet
<1>6. ChainInv' /\ OneInv' /\ ReplacedIsUnpaid'
  BY <1>1 DEF HeldInv, ChainInv, OneInv, ReplacedIsUnpaid
<1> QED  BY <1>4, <1>5, <1>6 DEF HeldInv

(* A step that leaves everything but the clock alone.                      *)
LEMMA UnnoticedHeld ==
  ASSUME HeldInv, UNCHANGED <<batchVars, handlerVars>>
  PROVE  HeldInv'
<1>1. \A c : Rows(c)' = Rows(c)
  BY DEF Rows, batchVars
<1> QED  BY <1>1 DEF HeldInv, LockInv, QuietInv, RenewInv, Quiet, ChainInv, OneInv,
                     ReplacedIsUnpaid, batchVars, handlerVars

(* A position of a batch is not paid, and not replaced: the batch is the   *)
(* last of its chain.                                                      *)
LEMMA OpenIsLast ==
  ASSUME IInv, HeldInv, NEW b \in Batches, NEW i \in Positions,
         row[b][i] \notin {"absent", "paid"}, i \notin replaced[b]
  PROVE  i \in Rows(b) /\ size[b] > 0 /\ renewal[b] = NoBatch
<1>1. i \in Rows(b)
  BY DEF IInv, SizeInv
<1>2. size[b] > 0
  BY <1>1, MaxQuantityAssumption DEF IInv, TypeOK, Rows
<1> QED  BY <1>1, <1>2 DEF HeldInv, ChainInv

(* The two positions of an order that are open are of the same batch.      *)
LEMMA OpenAreTogether ==
  ASSUME IInv, HeldInv,
         NEW b \in Batches, NEW i \in Positions,
         row[b][i] \notin {"absent", "paid"}, i \notin replaced[b],
         NEW c \in Batches, NEW j \in Positions,
         row[c][j] \notin {"absent", "paid"}, j \notin replaced[c]
  PROVE  b = c
BY OpenIsLast DEF HeldInv, ChainInv

(* When a position is about to be paid, no outcome is unknown.             *)
LEMMA NothingUnknown ==
  ASSUME IInv, HeldInv, NEW h \in Handlers, pc[h] = "paying", todo[h] # {},
         row[work[h]][First(todo[h])] = "checked", First(todo[h]) \notin replaced[work[h]]
  PROVE  /\ \A c \in Batches : \A j \in Positions : row[c][j] # "processing"
         /\ \A j \in Positions : row[work[h]][j] # "failed"
<1>1. work[h] \in Batches /\ First(todo[h]) \in Positions
  BY NextPosition DEF IInv
<1>2. \A j \in Rows(work[h]) : Quiet(work[h], j)
  BY DEF HeldInv, QuietInv
<1>3. \A j \in Positions : row[work[h]][j] \notin {"processing", "failed"}
  BY <1>1, <1>2 DEF IInv, SizeInv, Quiet
<1>4. ASSUME NEW c \in Batches, NEW j \in Positions, row[c][j] = "processing"
      PROVE  FALSE
  <2>1. j \notin replaced[c]
    BY <1>4 DEF HeldInv, ReplacedIsUnpaid
  <2>2. c = work[h]
    BY <1>1, <1>4, <2>1, OpenAreTogether
  <2> QED  BY <1>3, <1>4, <2>2
<1> QED  BY <1>3, <1>4

(* A change of one row that was open, in a batch on which nobody else works*)
(* and is left as whoever works on it must find it.                        *)
RowStep(b, i, s) ==
    /\ row' = [row EXCEPT ![b][i] = s]
    /\ row[b][i] # "paid"
    /\ s \in {"processing", "paid"} => i \notin replaced[b]
    /\ s = "processing" =>
          \A c \in Batches : \A j \in Positions : row[c][j] = "processing" => c = b /\ j = i
    /\ UNCHANGED <<size, replaced, renewal, lock, work>>
    /\ \A g \in Handlers : pc'[g] # "idle" =>
          /\ pc[g] # "idle"
          /\ work[g] # b => pc'[g] = pc[g] /\ todo'[g] = todo[g]
    /\ \A g \in Handlers : work[g] = b =>
          /\ pc'[g] = "paying" /\ todo'[g] # {} =>
                \A j \in Rows(b) : row'[b][j] \in {"checked", "paid"}
          /\ pc'[g] = "sent" =>
                \A j \in Rows(b) \ {First(todo'[g])} : row'[b][j] \in {"checked", "paid"}
          /\ ~ (pc'[g] = "renewing" /\ todo'[g] # {})

(* Such a change keeps what holds.                                         *)
LEMMA RowHeld ==
  ASSUME IInv, HeldInv, NEW b \in Batches, NEW i \in Rows(b), NEW s \in RowState, RowStep(b, i, s)
  PROVE  HeldInv'
<1> USE DEF RowStep
<1>1. i \in Positions
  BY RowsArePositions DEF IInv
<1>2. \A c \in Batches : Rows(c)' = Rows(c)
  BY DEF Rows
<1>3. \A g \in Handlers : pc'[g] # "idle" =>
        /\ work[g] \in Batches /\ Rows(work[g])' = Rows(work[g])
        /\ work[g] # b => row'[work[g]] = row[work[g]]
  BY <1>2 DEF IInv, WorkInv, TypeOK
<1>4. LockInv'
  BY DEF HeldInv, LockInv
<1>5. QuietInv' /\ RenewInv'
  BY <1>3 DEF HeldInv, QuietInv, RenewInv, Quiet
<1>6. \A c \in Batches : \A j \in Positions :
        /\ row[c][j] = "paid" => row'[c][j] = "paid"
        /\ c # b \/ j # i => row'[c][j] = row[c][j]
        /\ row'[b][i] = s
  BY <1>1 DEF IInv, TypeOK
<1>7. ChainInv'
  BY <1>2, <1>6, RowsArePositions DEF IInv, HeldInv, ChainInv
<1>8. OneInv'
  BY <1>1, <1>6 DEF HeldInv, OneInv
<1>9. ReplacedIsUnpaid'
  BY <1>1, <1>6 DEF IInv, TypeOK, HeldInv, ReplacedIsUnpaid
<1> QED  BY <1>4, <1>5, <1>7, <1>8, <1>9 DEF HeldInv

(* A step that changes no row and only goes on, or ends, what is done to   *)
(* them.                                                                   *)
LEMMA SameRowsHeld ==
  ASSUME IInv, HeldInv, UNCHANGED <<size, row, replaced, renewal, lock, work>>,
         \A g \in Handlers : pc'[g] # "idle" => pc[g] # "idle",
         \A g \in Handlers : pc'[g] = "paying" /\ todo'[g] # {} => pc[g] = "paying" /\ todo[g] # {},
         \A g \in Handlers : pc'[g] \in {"sent", "renewing"} => pc[g] = pc'[g] /\ todo'[g] = todo[g]
  PROVE  HeldInv'
<1>1. \A c \in Batches : Rows(c)' = Rows(c)
  BY DEF Rows
<1>2. \A g \in Handlers : pc'[g] # "idle" => Rows(work[g])' = Rows(work[g])
  BY <1>1 DEF IInv, WorkInv
<1>3. LockInv'
  BY DEF HeldInv, LockInv
<1>4. QuietInv' /\ RenewInv'
  BY <1>2 DEF HeldInv, QuietInv, RenewInv, Quiet
<1>5. ChainInv' /\ OneInv' /\ ReplacedIsUnpaid'
  BY <1>1 DEF HeldInv, ChainInv, OneInv, ReplacedIsUnpaid
<1> QED  BY <1>3, <1>4, <1>5 DEF HeldInv

(* A check starts nothing.                                                 *)
LEMMA CheckRowHeld ==
  ASSUME IInv, HeldInv, NEW h \in Handlers, CheckRow(h)
  PROVE  HeldInv'
<1> DEFINE b == work[h]
           i == First(todo[h])
<1>1. /\ b \in Batches /\ i \in Rows(b) /\ i \in Positions
      /\ pc[h] = "checking"
      /\ UNCHANGED <<size, replaced, renewal, lock, pc, work>>
      /\ \A g \in Handlers \ {h} : todo'[g] = todo[g]
      /\ \A g \in Handlers : pc[g] # "idle" /\ work[g] = b => g = h
  BY NextPosition, WorksAlone DEF IInv, TypeOK, CheckRow, Stop, Continue, HeldInv
<1>2. row' = row \/ \E s \in CheckEnds : SetRow(b, i, s) /\ row[b][i] = "prepared"
  <2>1. SetRow(b, i, row[b][i]) => row' = row
    BY <1>1 DEF SetRow, IInv, TypeOK
  <2> QED  BY <2>1 DEF CheckRow
<1> HIDE DEF b, i
<1>3. CASE row' = row
  BY <1>1, <1>3, SameRowsHeld
<1>4. CASE row' # row
  <2>1. PICK s \in RowState \ Started : row' = [row EXCEPT ![b][i] = s] /\ row[b][i] = "prepared"
    BY <1>2, <1>4 DEF CheckEnds, RowState, Started, SetRow
  <2>2. s \notin {"processing", "paid"}
    BY DEF Started
  <2>3. RowStep(b, i, s)
    BY <1>1, <2>1, <2>2 DEF RowStep, b
  <2> QED  BY <1>1, <2>1, <2>3, RowHeld
<1> QED  BY <1>3, <1>4

(* A commitment is made when no outcome is unknown.                        *)
LEMMA PayRowHeld ==
  ASSUME IInv, HeldInv, NEW h \in Handlers, PayRow(h)
  PROVE  HeldInv'
<1> DEFINE b == work[h]
           i == First(todo[h])
<1>1. /\ b \in Batches /\ i \in Rows(b) /\ i \in Positions
      /\ pc[h] = "paying" /\ todo[h] # {}
      /\ UNCHANGED <<size, replaced, renewal, lock, work>>
      /\ \A g \in Handlers : pc[g] # "idle" /\ work[g] = b => g = h
  BY NextPosition, WorksAlone DEF IInv, PayRow, HeldInv
<1>2. CASE /\ row[b][i] = "checked" /\ i \notin replaced[b]
           /\ SetRow(b, i, "processing")
           /\ pc' = [pc EXCEPT ![h] = "sent"]
           /\ todo' = todo
  <2>1. \A c \in Batches : \A j \in Positions : row[c][j] # "processing"
    BY <1>1, <1>2, NothingUnknown
  <2>2. \A j \in Rows(b) : row[b][j] \in {"checked", "paid"}
    BY <1>1 DEF HeldInv, QuietInv, Quiet
  <2>3. \A g \in Handlers \ {h} : pc'[g] = pc[g]
    BY <1>2 DEF IInv, TypeOK
  <2>4. \A g \in Handlers : pc'[g] # "idle" /\ work[g] = b => g = h
    BY <1>1, <2>3
  <2> HIDE DEF b
  <2>5. row' = [row EXCEPT ![b][i] = "processing"] /\ pc'[h] = "sent"
    BY <1>2 DEF SetRow, IInv, TypeOK
  <2>6. \A j \in Rows(b) \ {i} : row'[b][j] \in {"checked", "paid"}
    BY <1>1, <2>2, <2>5, RowsArePositions DEF IInv, TypeOK
  <2>7. "processing" \in RowState
    BY DEF RowState, Started
  <2>8. \A g \in Handlers : work[g] = b =>
          /\ pc'[g] = "paying" /\ todo'[g] # {} => \A j \in Rows(b) : row'[b][j] \in {"checked", "paid"}
          /\ pc'[g] = "sent" => \A j \in Rows(b) \ {First(todo'[g])} : row'[b][j] \in {"checked", "paid"}
          /\ ~ (pc'[g] = "renewing" /\ todo'[g] # {})
    BY <1>1, <1>2, <2>4, <2>5, <2>6
  <2>9. \A g \in Handlers :
          /\ pc'[g] # "idle" => pc[g] # "idle"
          /\ pc'[g] # "idle" /\ work[g] # b => pc'[g] = pc[g] /\ todo'[g] = todo[g]
    BY <1>1, <1>2, <2>3 DEF b
  <2> HIDE DEF i
  <2>10. RowStep(b, i, "processing")
    BY <1>1, <1>2, <2>1, <2>5, <2>8, <2>9 DEF RowStep
  <2> QED  BY <1>1, <2>7, <2>10, RowHeld
<1>3. CASE row' = row /\ pc' = pc /\ \A g \in Handlers \ {h} : todo'[g] = todo[g]
  BY <1>1, <1>3, SameRowsHeld
<1> QED  BY <1>2, <1>3 DEF PayRow, Continue, Stop, IInv, TypeOK

(* An outcome that is not a payment ends the work on its batch.            *)
LEMMA SavePayHeld ==
  ASSUME IInv, HeldInv, NEW h \in Handlers, SavePay(h)
  PROVE  HeldInv'
<1> DEFINE b == work[h]
           i == First(todo[h])
<1>1. /\ b \in Batches /\ i \in Rows(b) /\ i \in Positions
      /\ pc[h] = "sent" /\ row[b][i] = "processing" /\ i \notin replaced[b]
      /\ UNCHANGED <<size, replaced, renewal, lock, work>>
      /\ pc' = [pc EXCEPT ![h] = "paying"]
      /\ \A g \in Handlers : pc[g] # "idle" /\ work[g] = b => g = h
  BY NextPosition, WorksAlone DEF IInv, SavePay, HeldInv, WorkInv, SentInv, ReplacedIsUnpaid
<1>2. PICK s \in Started : SetRow(b, i, s) /\ Proceed(h, i, s)
  BY DEF SavePay
<1>3. /\ \A g \in Handlers \ {h} : todo'[g] = todo[g] /\ pc'[g] = pc[g]
      /\ pc'[h] = "paying"
      /\ todo'[h] # {} => s = "paid"
  BY <1>1, <1>2 DEF Proceed, Continue, Stop, IInv, TypeOK
<1>4. \A j \in Rows(b) \ {i} : row[b][j] \in {"checked", "paid"}
  BY <1>1 DEF HeldInv, QuietInv, Quiet
<1> HIDE DEF b
<1>5. row' = [row EXCEPT ![b][i] = s] /\ s \in RowState
  BY <1>2 DEF SetRow, RowState
<1>6. todo'[h] # {} => \A j \in Rows(b) : row'[b][j] \in {"checked", "paid"}
  BY <1>1, <1>3, <1>4, <1>5, RowsArePositions DEF IInv, TypeOK
<1>7. \A c \in Batches : \A j \in Positions : row[c][j] = "processing" => c = b /\ j = i
  BY <1>1 DEF HeldInv, OneInv
<1>8. \A g \in Handlers :
        /\ pc'[g] # "idle" => pc[g] # "idle"
        /\ pc'[g] # "idle" /\ work[g] # b => pc'[g] = pc[g] /\ todo'[g] = todo[g]
        /\ pc'[g] # "idle" /\ work[g] = b => g = h
  BY <1>1, <1>3 DEF b
<1>9. \A g \in Handlers : work[g] = b =>
        /\ pc'[g] = "paying" /\ todo'[g] # {} => \A j \in Rows(b) : row'[b][j] \in {"checked", "paid"}
        /\ pc'[g] = "sent" => \A j \in Rows(b) \ {First(todo'[g])} : row'[b][j] \in {"checked", "paid"}
        /\ ~ (pc'[g] = "renewing" /\ todo'[g] # {})
  BY <1>3, <1>6, <1>8
<1> HIDE DEF i
<1>10. RowStep(b, i, s)
  BY <1>1, <1>5, <1>7, <1>8, <1>9 DEF RowStep
<1> QED  BY <1>1, <1>5, <1>10, RowHeld

(* Nobody works on a position whose outcome is settled elsewhere.          *)
LEMMA SettleHeld ==
  ASSUME IInv, HeldInv, NEW b \in Batches, NEW i \in Rows(b), Settle(b, i)
  PROVE  HeldInv'
<1>1. PICK s \in {"paid", "failed"} : SetRow(b, i, s)
  BY DEF Settle
<1>2. /\ row[b][i] = "processing" /\ i \in Positions /\ i \notin replaced[b]
      /\ UNCHANGED <<size, replaced, expired, renewal, linked, lock, pc, work, todo>>
  BY RowsArePositions DEF IInv, Settle, handlerVars, HeldInv, ReplacedIsUnpaid
<1>3. row' = [row EXCEPT ![b][i] = s] /\ s \in RowState /\ s # "processing"
  BY <1>1 DEF SetRow, RowState, Started
<1>4. \A g \in Handlers : work[g] = b =>
        /\ ~ (pc[g] = "paying" /\ todo[g] # {})
        /\ ~ (pc[g] = "renewing" /\ todo[g] # {})
        /\ pc[g] # "sent"
  <2> SUFFICES ASSUME NEW g \in Handlers, work[g] = b,
                      pc[g] = "sent" \/ (pc[g] \in {"paying", "renewing"} /\ todo[g] # {})
               PROVE  FALSE
    OBVIOUS
  <2>1. CASE pc[g] = "paying" /\ todo[g] # {}
    BY <1>2, <2>1 DEF HeldInv, QuietInv, Quiet
  <2>2. CASE pc[g] = "sent"
    <3>1. i # First(todo[g])
      BY <2>2 DEF Settle
    <3> QED  BY <1>2, <2>2, <3>1 DEF HeldInv, QuietInv, Quiet
  <2>3. CASE pc[g] = "renewing" /\ todo[g] # {}
    BY <1>2, <2>3 DEF HeldInv, RenewInv
  <2> QED  BY <2>1, <2>2, <2>3
<1>5. RowStep(b, i, s)
  BY <1>2, <1>3, <1>4 DEF RowStep
<1> QED  BY <1>3, <1>5, RowHeld

(* What was not paid is replaced; the renewal is the last of the chain.    *)
LEMMA CommitRenewalHeld ==
  ASSUME IInv, HeldInv, NEW h \in Handlers, CommitRenewal(h)
  PROVE  HeldInv'
<1> DEFINE b == work[h]
<1>1. CASE renewal[b] # NoBatch
  <2>1. UNCHANGED <<size, row, replaced, renewal, lock, work, todo>> /\ pc' = [pc EXCEPT ![h] = "preparing"]
        /\ pc[h] = "renewing"
    BY <1>1 DEF CommitRenewal
  <2>2. \A g \in Handlers \ {h} : pc'[g] = pc[g]
    BY <2>1
  <2>3. pc'[h] = "preparing"
    BY <2>1 DEF IInv, TypeOK
  <2> QED  BY <2>1, <2>2, <2>3, SameRowsHeld
<1>2. CASE renewal[b] = NoBatch
  <2>1. PICK n \in Batches :
          /\ size[n] = 0
          /\ size' = [size EXCEPT ![n] = Cardinality(todo[h])]
          /\ renewal' = [renewal EXCEPT ![b] = n]
          /\ replaced' = [replaced EXCEPT ![b] = @ \cup todo[h]]
    BY <1>2 DEF CommitRenewal
  <2>2. /\ pc[h] = "renewing" /\ todo[h] # {} /\ pc' = [pc EXCEPT ![h] = "preparing"]
        /\ UNCHANGED <<row, linked, expired, lock, work, todo>>
    BY <1>2 DEF CommitRenewal
  <2>3. /\ b \in Batches /\ size[b] > 0 /\ b # n /\ n # NoBatch
        /\ todo[h] \subseteq Rows(b)
        /\ \A i \in todo[h] : row[b][i] \notin {"processing", "paid"}
        /\ \A i \in Rows(b) \ todo[h] : row[b][i] = "paid"
    BY <2>1, <2>2, BatchesAreNumbered DEF IInv, WorkInv, Complete, HeldInv, RenewInv
  <2> HIDE DEF b
  <2>4. \A c \in Batches \ {n} : Rows(c)' = Rows(c)
    BY <2>1 DEF Rows, IInv, TypeOK
  <2>5. \A g \in Handlers :
          /\ pc'[g] # "idle" => pc[g] # "idle" /\ work[g] \in Batches \ {n}
          /\ pc'[g] \in {"paying", "sent", "renewing"} => pc'[g] = pc[g]
    BY <2>1, <2>2 DEF IInv, TypeOK, WorkInv, Complete
  <2>6. \A g \in Handlers : pc'[g] # "idle" => Rows(work[g])' = Rows(work[g])
    BY <2>2, <2>4, <2>5
  <2>7. LockInv'
    BY <2>2, <2>5 DEF HeldInv, LockInv
  <2>8. QuietInv' /\ RenewInv'
    BY <2>2, <2>5, <2>6 DEF HeldInv, QuietInv, RenewInv, Quiet
  <2>9. ChainInv'
    <3>1. \A c \in Batches : size'[c] > 0 /\ renewal'[c] = NoBatch => c = n
      BY <1>2, <2>1, <2>3 DEF IInv, TypeOK, HeldInv, ChainInv, b
    <3>2. renewal[n] = NoBatch
      BY <2>1 DEF IInv, SizeInv
    <3>3. \A c \in Batches : renewal'[c] = NoBatch => replaced'[c] = {}
      BY <2>1, <2>3 DEF IInv, TypeOK, HeldInv, ChainInv
    <3>4. \A c \in Batches : renewal'[c] # NoBatch =>
            \A i \in Rows(c)' : i \in replaced'[c] \/ row[c][i] = "paid"
      BY <2>1, <2>3, <2>4, <3>2 DEF IInv, TypeOK, HeldInv, ChainInv
    <3> QED  BY <2>2, <3>1, <3>3, <3>4 DEF ChainInv
  <2>10. OneInv'
    BY <2>2 DEF HeldInv, OneInv
  <2>11. ReplacedIsUnpaid'
    BY <2>1, <2>2, <2>3 DEF IInv, TypeOK, HeldInv, ReplacedIsUnpaid
  <2> QED  BY <2>7, <2>8, <2>9, <2>10, <2>11 DEF HeldInv
<1> QED  BY <1>1, <1>2

(* Every step of an order whose locks hold keeps what follows from them.   *)
LEMMA NextKept == IInv /\ KeptInv /\ [Next]_vars => KeptInv'
<1> SUFFICES ASSUME IInv, KeptInv, [Next]_vars, LocksHold' PROVE HeldInv'
  BY DEF KeptInv
<1>0. CASE UNCHANGED vars
  <2>1. UNCHANGED <<batchVars, handlerVars>>
    BY <1>0 DEF vars
  <2>2. LocksHold
    BY <2>1 DEF LocksHold, batchVars
  <2> QED  BY <2>1, <2>2, UnnoticedHeld DEF KeptInv
<1>00. SUFFICES ASSUME Next, HeldInv, LocksHold PROVE HeldInv'
  BY <1>0, LocksStillHold DEF KeptInv
<1>1. CASE Order
  BY <1>1, <1>00, OrderHeld
<1>2. CASE PrepareOrdered
  BY <1>2, <1>00, PreparedHeld, BatchesAreNumbered DEF PrepareOrdered
<1>3. ASSUME NEW h \in Handlers, NEW b \in Batches,
             BeginCheck(h, b) \/ BeginPay(h, b) \/ BeginRenew(h, b)
      PROVE  HeldInv'
  BY <1>3, <1>00, BeginHeld
<1>4. ASSUME NEW h \in Handlers, CheckRow(h) \/ PayRow(h) \/ SavePay(h) \/ CommitRenewal(h)
      PROVE  HeldInv'
  BY <1>4, <1>00, CheckRowHeld, PayRowHeld, SavePayHeld, CommitRenewalHeld
<1>5. ASSUME NEW h \in Handlers, PrepareRenewal(h)
      PROVE  HeldInv'
  <2>1. renewal[work[h]] \in Batches
    BY <1>5 DEF IInv, WorkInv, SizeInv, PrepareRenewal
  <2> QED  BY <1>5, <1>00, <2>1, PreparedHeld DEF PrepareRenewal
<1>6. ASSUME NEW h \in Handlers, LinkRenewal(h) \/ Finish(h) \/ Dies(h)
      PROVE  HeldInv'
  BY <1>6, <1>00, LeaveHeld DEF LinkRenewal, Finish, Dies, Release, batchVars
<1>7. ASSUME NEW h \in Handlers, LoseLock(h)
      PROVE  HeldInv'
  BY <1>7, <1>00 DEF LoseLock, LocksHold
<1>8. ASSUME NEW b \in Batches, Expire(b)
      PROVE  HeldInv'
  BY <1>8, <1>00, UnnoticedHeld DEF Expire
<1>9. ASSUME NEW b \in Batches, NEW i \in Rows(b), Settle(b, i)
      PROVE  HeldInv'
  BY <1>9, <1>00, SettleHeld
<1> QED  BY <1>00, <1>1, <1>2, <1>3, <1>4, <1>5, <1>6, <1>7, <1>8, <1>9 DEF Next

(* It always holds.                                                        *)
LEMMA AlwaysKept == Spec => []KeptInv
  BY InitKept, NextKept, AlwaysIInv, PTL DEF Spec

-----------------------------------------------------------------------------
(* What the invariants give.                                               *)

(* A position is committed by a paying handler, by nothing else.           *)
LEMMA CommitmentIsPayment ==
  ASSUME IInv, Next, NEW b \in Batches, NEW i \in Positions,
         row[b][i] # "processing", row'[b][i] = "processing"
  PROVE  \E h \in Handlers :
            /\ pc[h] = "paying" /\ todo[h] # {} /\ b = work[h]
            /\ row[b][First(todo[h])] = "checked" /\ First(todo[h]) \notin replaced[b]
<1>1. ASSUME NEW c \in Batches, NEW j, NEW s, SetRow(c, j, s), s # "processing"
      PROVE  FALSE
  BY <1>1 DEF SetRow, IInv, TypeOK
<1>2. row' # row
  OBVIOUS
<1>3. ASSUME Order \/ PrepareOrdered PROVE FALSE
  BY <1>1, <1>3, BatchesAreNumbered DEF Order, PrepareOrdered
<1>4. ASSUME NEW h \in Handlers,
             \/ \E c \in Batches : BeginCheck(h, c) \/ BeginPay(h, c) \/ BeginRenew(h, c)
             \/ CommitRenewal(h) \/ LinkRenewal(h) \/ Finish(h) \/ Dies(h) \/ LoseLock(h)
      PROVE  FALSE
  BY <1>2, <1>4 DEF BeginCheck, BeginPay, BeginRenew, Begin, CommitRenewal, LinkRenewal, Finish,
                    Dies, Release, LoseLock, batchVars
<1>5. ASSUME NEW h \in Handlers, PrepareRenewal(h) PROVE FALSE
  <2>1. renewal[work[h]] \in Batches
    BY <1>5 DEF IInv, WorkInv, SizeInv, PrepareRenewal
  <2> QED  BY <1>1, <1>5, <2>1 DEF PrepareRenewal
<1>6. ASSUME NEW h \in Handlers, CheckRow(h) PROVE FALSE
  <2> DEFINE c == work[h]
             j == First(todo[h])
  <2>1. c \in Batches /\ j \in Positions
    BY <1>6, NextPosition DEF IInv, CheckRow
  <2>2. PICK s \in CheckEnds \cup {row[c][j]} : SetRow(c, j, s)
    BY <1>2, <1>6 DEF CheckRow
  <2>3. s = row[c][j]
    BY <1>1, <2>1, <2>2 DEF CheckEnds
  <2> QED  BY <1>2, <2>1, <2>2, <2>3 DEF SetRow, IInv, TypeOK
<1>7. ASSUME NEW h \in Handlers, SavePay(h) PROVE FALSE
  <2> DEFINE c == work[h]
             j == First(todo[h])
  <2>1. c \in Batches /\ j \in Positions /\ row[c][j] = "processing"
    BY <1>7, NextPosition DEF IInv, SavePay, WorkInv, SentInv
  <2>2. PICK s \in Started : SetRow(c, j, s)
    BY <1>7 DEF SavePay
  <2> QED  BY <1>1, <2>1, <2>2 DEF SetRow, IInv, TypeOK
<1>8. ASSUME NEW c \in Batches, Expire(c) \/ \E j \in Rows(c) : Settle(c, j) PROVE FALSE
  <2>1. CASE Expire(c)
    BY <1>2, <2>1 DEF Expire, batchVars
  <2>2. ASSUME NEW j \in Rows(c), Settle(c, j) PROVE FALSE
    BY <1>1, <2>2 DEF Settle
  <2> QED  BY <1>8, <2>1, <2>2
<1>9. PICK h \in Handlers : PayRow(h)
  BY <1>3, <1>4, <1>5, <1>6, <1>7, <1>8 DEF Next
<1>10. /\ pc[h] = "paying" /\ todo[h] # {}
       /\ row[work[h]][First(todo[h])] = "checked" /\ First(todo[h]) \notin replaced[work[h]]
       /\ SetRow(work[h], First(todo[h]), "processing")
  BY <1>2, <1>9 DEF PayRow
<1>11. b = work[h]
  <2>1. work[h] \in Batches
    BY <1>10 DEF IInv, WorkInv
  <2> QED  BY <1>10, <2>1 DEF SetRow, IInv, TypeOK
<1> QED  BY <1>10, <1>11

(* The variables have their types (api/airpay_runtime/airpay_batch.py).    *)
THEOREM TypeCorrect == Spec => []TypeOK
  BY AlwaysIInv, PTL DEF IInv

(* airpay_batch.py:130: whatever locks are lost and whichever handlers pay *)
(* from rows they read at different times, a batch is bought from its first*)
(* position on.                                                            *)
THEOREM BatchesArePaidInOrder == Spec => []PaysInOrder
  BY AlwaysIInv, PTL DEF IInv

(* airpay_repository.py:166: a renewal shown to the owner has all its      *)
(* positions.                                                              *)
THEOREM RenewalsAreWhole == Spec => []LinkedIsComplete
  BY AlwaysIInv, PTL DEF IInv

(* airpay_batch.py:150: while its locks hold, nothing of an order is       *)
(* replaced that is being paid or was paid.                                *)
THEOREM ReplacedStaysUnpaid == Spec => []RemainderIsUnpaid
<1>1. KeptInv => RemainderIsUnpaid
  BY DEF KeptInv, HeldInv, RemainderIsUnpaid
<1> QED  BY <1>1, AlwaysKept, PTL

(* airpay_batch.py:109: while its locks hold, money is committed for a     *)
(* position only when no outcome of the order is unknown and none of the   *)
(* batch was refused.                                                      *)
THEOREM PaymentsFollowOneAnother == Spec => BuysInSequence
<1>1. IInv /\ KeptInv /\ [Next]_vars =>
        [LocksHold => \A b \in Batches : \A i \in Positions :
            row[b][i] # "processing" /\ row'[b][i] = "processing" =>
                /\ \A c \in Batches : \A j \in Positions : row[c][j] # "processing"
                /\ \A j \in Positions : row[b][j] # "failed"]_vars
  <2> SUFFICES ASSUME IInv, HeldInv, Next, NEW b \in Batches, NEW i \in Positions,
                      row[b][i] # "processing", row'[b][i] = "processing"
               PROVE  /\ \A c \in Batches : \A j \in Positions : row[c][j] # "processing"
                      /\ \A j \in Positions : row[b][j] # "failed"
    BY DEF KeptInv
  <2>1. PICK h \in Handlers :
          /\ pc[h] = "paying" /\ todo[h] # {} /\ b = work[h]
          /\ row[b][First(todo[h])] = "checked" /\ First(todo[h]) \notin replaced[b]
    BY CommitmentIsPayment
  <2> QED  BY <2>1, NothingUnknown
<1> QED  BY <1>1, AlwaysIInv, AlwaysKept, PTL DEF Spec, BuysInSequence

-----------------------------------------------------------------------------
(* The order that the batches amount to.                                   *)

(* The positions of an order in some of the states, where they are now.    *)
Open(states) ==
    {p \in Batches \X Positions :
        /\ p[2] \in Rows(p[1])
        /\ p[2] \notin replaced[p[1]]
        /\ row[p[1]][p[2]] \in states}

Rest == RowState \ {"processing", "paid"}

(* They are counted.                                                       *)
LEMMA OpenIsFinite ==
  ASSUME NEW S
  PROVE  IsFiniteSet(Open(S)) /\ Cardinality(Open(S)) \in Nat
<1>1. IsFiniteSet(Batches) /\ IsFiniteSet(Positions)
  BY FS_Interval, MaxQuantityAssumption, MaxBatchesAssumption DEF Batches, Positions
<1>2. IsFiniteSet(Batches \X Positions)
  BY <1>1, FS_Product
<1>3. Open(S) \subseteq Batches \X Positions
  BY DEF Open
<1>4. IsFiniteSet(Open(S))
  BY <1>2, <1>3, FS_Subset
<1> QED  BY <1>4, FS_CardinalityType

(* The count of the abstract order is theirs.                              *)
LEMMA CurrentIsOpen ==
  ASSUME TypeOK, NEW S
  PROVE  Current(S) = IF LocksHold THEN Cardinality(Open(S)) ELSE 0
<1> DEFINE Cells(b) == {i \in Rows(b) : i \notin replaced[b] /\ row[b][i] \in S}
           Union == UNION {{b} \X Cells(b) : b \in Batches}
<1>1. Union \subseteq Open(S)
  <2> SUFFICES ASSUME NEW b \in Batches, NEW p \in {b} \X Cells(b) PROVE p \in Open(S)
    OBVIOUS
  <2> QED  BY RowsArePositions DEF Open
<1>2. Open(S) \subseteq Union
  <2> SUFFICES ASSUME NEW p \in Open(S) PROVE p \in Union
    OBVIOUS
  <2>1. p = <<p[1], p[2]>> /\ p[1] \in Batches /\ p[2] \in Cells(p[1])
    BY DEF Open
  <2>2. p \in {p[1]} \X Cells(p[1])
    BY <2>1
  <2> QED  BY <2>1, <2>2
<1>3. Open(S) = Union
  BY <1>1, <1>2
<1> QED  BY <1>3 DEF Current

(* The same after a step.                                                  *)
LEMMA NextCurrentIsOpen ==
  ASSUME TypeOK', NEW S
  PROVE  Current(S)' = IF LocksHold' THEN Cardinality(Open(S)') ELSE 0
<1> DEFINE Cells(b) == {i \in Rows(b)' : i \notin replaced'[b] /\ row'[b][i] \in S}
           Union == UNION {{b} \X Cells(b) : b \in Batches}
<1>1. Union \subseteq Open(S)'
  <2> SUFFICES ASSUME NEW b \in Batches, NEW p \in {b} \X Cells(b) PROVE p \in Open(S)'
    OBVIOUS
  <2> QED  BY NextRowsArePositions DEF Open
<1>2. Open(S)' \subseteq Union
  <2> SUFFICES ASSUME NEW p \in Open(S)' PROVE p \in Union
    OBVIOUS
  <2>1. p = <<p[1], p[2]>> /\ p[1] \in Batches /\ p[2] \in Cells(p[1])
    BY DEF Open
  <2>2. p \in {p[1]} \X Cells(p[1])
    BY <2>1
  <2> QED  BY <2>1, <2>2
<1>3. Open(S)' = Union
  BY <1>1, <1>2
<1> QED  BY <1>3 DEF Current

(* A change of a row takes its position from some and gives it to others.  *)
LEMMA OpenMoves ==
  ASSUME IInv, NEW b \in Batches, NEW i \in Rows(b), NEW s, i \notin replaced[b],
         row' = [row EXCEPT ![b][i] = s], UNCHANGED <<size, replaced>>,
         NEW S
  PROVE  Open(S)' = IF s \in S THEN Open(S) \cup {<<b, i>>} ELSE Open(S) \ {<<b, i>>}
<1>1. i \in Positions
  BY RowsArePositions DEF IInv
<1>2. \A c \in Batches : Rows(c)' = Rows(c)
  BY DEF Rows
<1>3. ASSUME NEW p \in Batches \X Positions
      PROVE  p \in Open(S)' <=> IF p = <<b, i>> THEN s \in S ELSE p \in Open(S)
  <2>1. p = <<p[1], p[2]>> /\ p[1] \in Batches /\ p[2] \in Positions
    OBVIOUS
  <2>2. p \in Open(S)' <=> p[2] \in Rows(p[1]) /\ p[2] \notin replaced[p[1]] /\ row'[p[1]][p[2]] \in S
    BY <1>2, <2>1 DEF Open
  <2>3. CASE p = <<b, i>>
    BY <1>1, <2>2, <2>3 DEF IInv, TypeOK
  <2>4. CASE p # <<b, i>>
    <3>1. row'[p[1]][p[2]] = row[p[1]][p[2]]
      BY <2>1, <2>4 DEF IInv, TypeOK
    <3> QED  BY <2>2, <2>4, <3>1 DEF Open
  <2> QED  BY <2>3, <2>4
<1>4. Open(S)' \subseteq Batches \X Positions /\ Open(S) \subseteq Batches \X Positions
      /\ <<b, i>> \in Batches \X Positions
  BY <1>1 DEF Open
<1> QED  BY <1>3, <1>4

(* A change among states that are counted together is none.                *)
LEMMA OpenStays ==
  ASSUME IInv, NEW b \in Batches, NEW i \in Rows(b), NEW s,
         row' = [row EXCEPT ![b][i] = s], UNCHANGED <<size, replaced>>,
         NEW S, row[b][i] \in S <=> s \in S
  PROVE  Open(S)' = Open(S)
<1>1. \A c \in Batches : Rows(c)' = Rows(c)
  BY DEF Rows
<1>2. i \in Positions
  BY RowsArePositions DEF IInv
<1>3. \A c \in Batches : \A j \in Positions : row'[c][j] \in S <=> row[c][j] \in S
  BY <1>2 DEF IInv, TypeOK
<1> QED  BY <1>1, <1>3 DEF Open

(* Nothing moves where no row changes.                                     *)
LEMMA OpenUnchanged ==
  ASSUME UNCHANGED <<size, row, replaced>>, NEW S
  PROVE  Open(S)' = Open(S)
<1>1. \A c \in Batches : Rows(c)' = Rows(c)
  BY DEF Rows
<1> QED  BY <1>1 DEF Open

(* Counts that stay as they are.                                           *)
LEMMA SameCounts ==
  ASSUME IInv, IInv', LocksHold' = LocksHold,
         Cardinality(Open(Rest)') = Cardinality(Open(Rest)),
         Open({"processing"})' = Open({"processing"}), Open({"paid"})' = Open({"paid"})
  PROVE  UNCHANGED VoucherOrder!orderVars
BY CurrentIsOpen, NextCurrentIsOpen DEF IInv, VoucherOrder!orderVars, Rest

(* With its position, the state of a row is counted once.                  *)
LEMMA RestStates ==
  /\ "processing" \notin Rest /\ "paid" \notin Rest
  /\ {"absent", "prepared", "checked", "refused", "failed"} \subseteq Rest
BY DEF Rest, RowState, Started

(* An outcome takes the one unknown position to what is bought or wanted.  *)
LEMMA OutcomeStep ==
  ASSUME IInv, IInv', HeldInv, LocksHold, LocksHold',
         NEW b \in Batches, NEW i \in Rows(b), NEW s \in Started,
         row[b][i] = "processing", row' = [row EXCEPT ![b][i] = s], UNCHANGED <<size, replaced>>
  PROVE  [VoucherOrder!OrderNext]_(VoucherOrder!orderVars)
<1> DEFINE p == <<b, i>>
           W == Open(Rest)
           U == Open({"processing"})
           B == Open({"paid"})
<1>1. i \in Positions /\ i \notin replaced[b]
  BY RowsArePositions DEF IInv, HeldInv, ReplacedIsUnpaid
<1>2. /\ W' = IF s \in Rest THEN W \cup {p} ELSE W \ {p}
      /\ U' = IF s = "processing" THEN U \cup {p} ELSE U \ {p}
      /\ B' = IF s = "paid" THEN B \cup {p} ELSE B \ {p}
  <2> HIDE DEF p, W, U, B
  <2>1. ASSUME NEW S PROVE Open(S)' = IF s \in S THEN Open(S) \cup {<<b, i>>} ELSE Open(S) \ {<<b, i>>}
    BY <1>1, OpenMoves
  <2> QED  BY <2>1 DEF p, W, U, B
<1>3. p \in U /\ p \notin W /\ p \notin B
  BY <1>1, RestStates DEF Open
<1>4. U \subseteq {p}
  <2> SUFFICES ASSUME NEW q \in U PROVE q = p
    OBVIOUS
  <2>1. q = <<q[1], q[2]>> /\ q[1] \in Batches /\ q[2] \in Positions /\ row[q[1]][q[2]] = "processing"
    BY DEF Open
  <2>2. q[1] = b /\ q[2] = i
    BY <1>1, <2>1 DEF HeldInv, OneInv
  <2> QED  BY <2>1, <2>2
<1>5. U = {p}
  BY <1>3, <1>4
<1>6. /\ IsFiniteSet(W) /\ Cardinality(W) \in Nat
      /\ IsFiniteSet(B) /\ Cardinality(B) \in Nat
  BY OpenIsFinite
<1>7. Cardinality(U) = 1 /\ Cardinality({}) = 0
  BY <1>5, FS_Singleton, FS_EmptySet
<1>8. Cardinality(W \cup {p}) = Cardinality(W) + 1 /\ Cardinality(B \cup {p}) = Cardinality(B) + 1
  BY <1>3, <1>6, FS_AddElement
<1>9. /\ Current(Rest) = Cardinality(W) /\ Current(Rest)' = Cardinality(W')
      /\ Current({"processing"}) = Cardinality(U) /\ Current({"processing"})' = Cardinality(U')
      /\ Current({"paid"}) = Cardinality(B) /\ Current({"paid"})' = Cardinality(B')
  BY CurrentIsOpen, NextCurrentIsOpen DEF IInv
<1>10. CASE s = "processing"
  <2>1. W' = W /\ U' = U /\ B' = B
    BY <1>2, <1>3, <1>10, RestStates
  <2> QED  BY <1>9, <2>1 DEF VoucherOrder!orderVars, Rest
<1>11. CASE s = "paid"
  <2>1. W' = W /\ U' = {} /\ B' = B \cup {p}
    BY <1>2, <1>3, <1>5, <1>11, RestStates
  <2>2. VoucherOrder!Bought
    BY <1>7, <1>8, <1>9, <2>1 DEF VoucherOrder!Bought, Rest
  <2> QED  BY <2>2 DEF VoucherOrder!OrderNext
<1>12. CASE s = "failed"
  <2>1. W' = W \cup {p} /\ U' = {} /\ B' = B
    BY <1>2, <1>3, <1>5, <1>12, RestStates
  <2>2. VoucherOrder!NotBought
    BY <1>7, <1>8, <1>9, <2>1 DEF VoucherOrder!NotBought, Rest
  <2> QED  BY <2>2 DEF VoucherOrder!OrderNext
<1> QED  BY <1>10, <1>11, <1>12 DEF Started

(* A commitment takes a position from what is wanted, when nothing is      *)
(* unknown.                                                                *)
LEMMA BuyStep ==
  ASSUME IInv, IInv', HeldInv, LocksHold, LocksHold',
         NEW b \in Batches, NEW i \in Rows(b), NEW s \in Started, s \notin {"paid", "failed"},
         row[b][i] = "checked", i \notin replaced[b],
         row' = [row EXCEPT ![b][i] = s], UNCHANGED <<size, replaced>>,
         \A c \in Batches : \A j \in Positions : row[c][j] # "processing"
  PROVE  VoucherOrder!Buy
<1> DEFINE p == <<b, i>>
           W == Open(Rest)
           U == Open({"processing"})
           B == Open({"paid"})
<1>1. i \in Positions
  BY RowsArePositions DEF IInv
<1>2. /\ W' = W \ {p} /\ U' = U \cup {p} /\ B' = B \ {p}
  <2> HIDE DEF p, W, U, B
  <2>1. ASSUME NEW S PROVE Open(S)' = IF s \in S THEN Open(S) \cup {<<b, i>>} ELSE Open(S) \ {<<b, i>>}
    BY <1>1, OpenMoves
  <2> QED  BY <2>1, RestStates DEF p, W, U, B, Started
<1>3. U = {}
  BY DEF Open
<1>4. p \in W /\ p \notin B
  BY <1>1, RestStates DEF Open
<1>5. U' = {p} /\ B' = B
  BY <1>2, <1>3, <1>4
<1>6. /\ IsFiniteSet(W) /\ Cardinality(W) \in Nat
      /\ Cardinality(W \ {p}) = Cardinality(W) - 1
      /\ Cardinality(W \ {p}) \in Nat
  BY <1>2, <1>4, OpenIsFinite, FS_RemoveElement, FS_CardinalityType
<1>7. Cardinality(W) > 0
  BY <1>6
<1>8. Cardinality({p}) = 1 /\ Cardinality({}) = 0
  BY FS_Singleton, FS_EmptySet
<1>9. /\ Current(Rest) = Cardinality(W) /\ Current(Rest)' = Cardinality(W')
      /\ Current({"processing"}) = Cardinality(U) /\ Current({"processing"})' = Cardinality(U')
      /\ Current({"paid"}) = Cardinality(B) /\ Current({"paid"})' = Cardinality(B')
  BY CurrentIsOpen, NextCurrentIsOpen DEF IInv
<1>10. /\ Current(Rest) > 0 /\ Current(Rest)' = Current(Rest) - 1
       /\ Current({"processing"}) = 0 /\ Current({"processing"})' = 1
       /\ Current({"paid"})' = Current({"paid"})
  BY <1>2, <1>3, <1>5, <1>6, <1>7, <1>8, <1>9
<1> QED  BY <1>10 DEF VoucherOrder!Buy, Rest

(* What a paying handler does to a row is to commit it, or nothing.        *)
LEMMA PayRowOrders ==
  ASSUME IInv, IInv', HeldInv, LocksHold, LocksHold', NEW h \in Handlers, PayRow(h)
  PROVE  [VoucherOrder!OrderNext]_(VoucherOrder!orderVars)
<1>1. CASE row' = row
  <2>1. UNCHANGED <<size, replaced, row>>
    BY <1>1 DEF PayRow
  <2> QED  BY <2>1, OpenUnchanged, SameCounts
<1>2. CASE row' # row
  <2>0. PICK b \in Batches : b = work[h] /\ First(todo[h]) \in Rows(b)
    BY NextPosition DEF IInv, PayRow
  <2>1. PICK i \in Rows(b) : b = work[h] /\ i = First(todo[h])
    BY <2>0
  <2>2. PICK s \in Started : s = "processing"
    BY DEF Started
  <2>3. /\ row[b][i] = "checked" /\ i \notin replaced[b]
        /\ row' = [row EXCEPT ![b][i] = s]
        /\ UNCHANGED <<size, replaced>>
        /\ pc[h] = "paying" /\ todo[h] # {}
    BY <1>2, <2>1, <2>2 DEF PayRow, SetRow
  <2>4. \A c \in Batches : \A j \in Positions : row[c][j] # "processing"
    BY <2>1, <2>3, NothingUnknown
  <2>5. VoucherOrder!Buy
    BY <2>2, <2>3, <2>4, BuyStep
  <2> QED  BY <2>5 DEF VoucherOrder!OrderNext
<1> QED  BY <1>1, <1>2

(* A row that was not sent for payment and still was not is no step of the *)
(* order.                                                                  *)
LEMMA RestStep ==
  ASSUME IInv, IInv', LocksHold' = LocksHold,
         NEW b \in Batches, NEW i \in Rows(b), NEW s \in Rest,
         row[b][i] \in Rest, SetRow(b, i, s), UNCHANGED <<size, replaced>>
  PROVE  UNCHANGED VoucherOrder!orderVars
<1>1. row' = [row EXCEPT ![b][i] = s]
  BY DEF SetRow
<1>2. Open(Rest)' = Open(Rest)
  BY <1>1, OpenStays
<1>3. Open({"processing"})' = Open({"processing"}) /\ Open({"paid"})' = Open({"paid"})
  <2>1. row[b][i] \notin {"processing"} /\ s \notin {"processing"} /\ row[b][i] \notin {"paid"} /\ s \notin {"paid"}
    BY RestStates
  <2> QED  BY <1>1, <2>1, OpenStays
<1> QED  BY <1>2, <1>3, SameCounts

(* The preparation of a row is no step of the order.                       *)
LEMMA PreparedIsRest ==
  ASSUME IInv, IInv', LocksHold' = LocksHold,
         NEW b \in Batches, Missing(b) # {}, SetRow(b, First(Missing(b)), "prepared"),
         UNCHANGED <<size, replaced>>
  PROVE  UNCHANGED VoucherOrder!orderVars
<1>1. First(Missing(b)) \in Missing(b)
  BY FirstIsLeast, RowsArePositions DEF IInv, Missing
<1>2. First(Missing(b)) \in Rows(b) /\ row[b][First(Missing(b))] = "absent"
  BY <1>1 DEF Missing
<1>3. "prepared" \in Rest /\ "absent" \in Rest
  BY RestStates
<1> QED  BY <1>2, <1>3, RestStep

(* Nor is a check.                                                         *)
LEMMA CheckRowOrders ==
  ASSUME IInv, IInv', LocksHold' = LocksHold, NEW h \in Handlers, CheckRow(h)
  PROVE  UNCHANGED VoucherOrder!orderVars
<1>1. PICK b \in Batches : b = work[h] /\ First(todo[h]) \in Rows(b)
  BY NextPosition DEF IInv, CheckRow
<1>2. PICK i \in Rows(b) : i = First(todo[h]) /\ i \in Positions
  BY <1>1, RowsArePositions DEF IInv
<1>3. UNCHANGED <<size, replaced>>
  BY DEF CheckRow
<1>4. row' = row \/ \E s \in CheckEnds : SetRow(b, i, s) /\ row[b][i] = "prepared"
  <2>1. SetRow(b, i, row[b][i]) => row' = row
    BY <1>2 DEF SetRow, IInv, TypeOK
  <2> QED  BY <1>1, <1>2, <2>1 DEF CheckRow
<1>5. CASE row' = row
  BY <1>3, <1>5, OpenUnchanged, SameCounts
<1>6. ASSUME NEW s \in CheckEnds, SetRow(b, i, s), row[b][i] = "prepared"
      PROVE  UNCHANGED VoucherOrder!orderVars
  <2>1. s \in Rest /\ "prepared" \in Rest
    BY RestStates DEF CheckEnds
  <2> QED  BY <1>3, <1>6, <2>1, RestStep
<1> QED  BY <1>4, <1>5, <1>6

(* The order is placed when its batch is.                                  *)
LEMMA PlacingStep ==
  ASSUME IInv, IInv', HeldInv, LocksHold, Order
  PROVE  [VoucherOrder!OrderNext]_(VoucherOrder!orderVars)
<1>1. Root \in Batches /\ \A b \in Batches : size[b] = 0
  BY BatchesAreNumbered, MaxQuantityAssumption DEF Order, IInv, TypeOK, SizeInv
<1>2. /\ \A b \in Batches : Rows(b) = {} /\ replaced[b] = {}
      /\ \A b \in Batches : \A i \in Positions : row[b][i] = "absent"
  <2>1. \A b \in Batches : Rows(b) = {}
    BY <1>1 DEF Rows
  <2> QED  BY <1>1, <2>1 DEF IInv, SizeInv, HeldInv, ChainInv
<1>3. \A S : Open(S) = {}
  BY <1>2 DEF Open
<1>4. Current(Rest) = 0 /\ Current({"processing"}) = 0 /\ Current({"paid"}) = 0
  BY <1>3, CurrentIsOpen, FS_EmptySet DEF IInv
<1>5. PICK q \in Quantities : size' = [size EXCEPT ![Root] = q]
  BY DEF Order
<1>6. q \in Nat /\ 1 .. q \subseteq Positions /\ 1 \in Positions
  BY MaxQuantityAssumption DEF Quantities, Positions
<1>7. /\ Rows(Root)' = 1 .. q
      /\ \A b \in Batches \ {Root} : Rows(b)' = {}
  BY <1>1, <1>5 DEF Rows, IInv, TypeOK
<1>8. \A b \in Batches : \A i \in Positions : row'[b][i] \in Rest /\ row'[b][i] \notin {"processing", "paid"}
  BY <1>1, <1>2, <1>6, RestStates DEF Order, SetRow, IInv, TypeOK
<1>9. \A b \in Batches : replaced'[b] = {}
  BY <1>2 DEF Order
<1>10. Open({"processing"})' = {} /\ Open({"paid"})' = {}
  BY <1>8 DEF Open
<1>11. Open(Rest)' = {Root} \X (1 .. q)
  <2>1. ASSUME NEW p \in Open(Rest)' PROVE p \in {Root} \X (1 .. q)
    <3>1. p = <<p[1], p[2]>> /\ p[1] \in Batches /\ p[2] \in Rows(p[1])'
      BY DEF Open
    <3> QED  BY <1>7, <3>1
  <2>2. ASSUME NEW p \in {Root} \X (1 .. q) PROVE p \in Open(Rest)'
    <3>1. p = <<Root, p[2]>> /\ p[1] = Root /\ p[2] \in 1 .. q
      OBVIOUS
    <3> QED  BY <1>1, <1>6, <1>7, <1>8, <1>9, <3>1 DEF Open
  <2> QED  BY <2>1, <2>2
<1>12. Cardinality({Root} \X (1 .. q)) = q
  <2>1. IsFiniteSet({Root}) /\ Cardinality({Root}) = 1
    BY FS_Singleton
  <2>2. IsFiniteSet(1 .. q) /\ Cardinality(1 .. q) = q
    BY <1>6, FS_Interval
  <2>3. Cardinality({Root} \X (1 .. q)) = Cardinality({Root}) * Cardinality(1 .. q)
    BY <2>1, <2>2, FS_Product
  <2> QED  BY <1>6, <2>1, <2>2, <2>3
<1>13. CASE LocksHold'
  <2>1. Current(Rest)' = q /\ Current({"processing"})' = 0 /\ Current({"paid"})' = 0
    BY <1>10, <1>11, <1>12, <1>13, NextCurrentIsOpen, FS_EmptySet DEF IInv
  <2>2. VoucherOrder!Place
    BY <1>4, <2>1 DEF VoucherOrder!Place, Rest
  <2> QED  BY <2>2 DEF VoucherOrder!OrderNext
<1>14. CASE ~ LocksHold'
  <2>1. Current(Rest)' = 0 /\ Current({"processing"})' = 0 /\ Current({"paid"})' = 0
    BY <1>14, NextCurrentIsOpen DEF IInv
  <2> QED  BY <1>4, <2>1 DEF VoucherOrder!orderVars, Rest
<1> QED  BY <1>13, <1>14

(* What is replaced in one batch is prepared in the next: nothing is wanted*)
(* more or less for it.                                                    *)
LEMMA RenewalKeepsOrder ==
  ASSUME IInv, IInv', HeldInv, LocksHold, LocksHold', NEW h \in Handlers, CommitRenewal(h)
  PROVE  UNCHANGED VoucherOrder!orderVars
<1>1. CASE renewal[work[h]] # NoBatch
  BY <1>1, OpenUnchanged, SameCounts DEF CommitRenewal
<1>2. CASE renewal[work[h]] = NoBatch
  <2>1. PICK b \in Batches : b = work[h]
    BY DEF IInv, WorkInv, CommitRenewal
  <2>2. PICK T : T = todo[h]
    OBVIOUS
  <2>3. PICK n \in Batches :
          /\ size[n] = 0
          /\ size' = [size EXCEPT ![n] = Cardinality(T)]
          /\ replaced' = [replaced EXCEPT ![b] = @ \cup T]
    BY <1>2, <2>1, <2>2 DEF CommitRenewal
  <2>4. /\ row' = row /\ T # {} /\ T \subseteq Rows(b) /\ b # n /\ size[b] > 0
        /\ renewal[b] = NoBatch
        /\ \A i \in T : row[b][i] \notin {"processing", "paid"}
        /\ \A i \in Rows(b) \ T : row[b][i] = "paid"
    BY <1>2, <2>1, <2>2, <2>3 DEF CommitRenewal, IInv, WorkInv, Complete, HeldInv, RenewInv
  <2>5. T \subseteq Positions /\ Rows(b) \subseteq Positions
    BY <2>4, RowsArePositions DEF IInv
  <2>6. IsFiniteSet(T) /\ Cardinality(T) \in 1 .. MaxQuantity /\ Cardinality(T) \in Nat
    BY <2>4, <2>5, SomePositions, MaxQuantityAssumption
  <2>7. replaced[b] = {} /\ replaced[n] = {}
    BY <2>3, <2>4 DEF HeldInv, ChainInv, IInv, SizeInv
  <2>8. /\ Rows(n)' = 1 .. Cardinality(T) /\ Rows(n) = {}
        /\ \A c \in Batches \ {n} : Rows(c)' = Rows(c)
        /\ replaced'[b] = T
        /\ \A c \in Batches \ {b} : replaced'[c] = replaced[c]
    BY <2>3, <2>7 DEF Rows, IInv, TypeOK
  <2>9. \A i \in Positions : row[n][i] = "absent"
    BY <2>8 DEF IInv, SizeInv
  <2>10. Open(Rest) = {b} \X T
    <3>1. ASSUME NEW p \in Open(Rest) PROVE p \in {b} \X T
      <4>1. /\ p = <<p[1], p[2]>> /\ p[1] \in Batches /\ p[2] \in Positions /\ p[2] \in Rows(p[1])
            /\ p[2] \notin replaced[p[1]] /\ row[p[1]][p[2]] \in Rest /\ row[p[1]][p[2]] # "paid"
        BY RestStates DEF Open
      <4>2. renewal[p[1]] = NoBatch
        BY <4>1 DEF HeldInv, ChainInv
      <4>3. size[p[1]] > 0
        BY <4>1, MaxQuantityAssumption DEF Rows, IInv, TypeOK
      <4>4. p[1] = b
        BY <2>4, <4>1, <4>2, <4>3 DEF HeldInv, ChainInv
      <4> QED  BY <2>4, <4>1, <4>4
    <3>2. ASSUME NEW p \in {b} \X T PROVE p \in Open(Rest)
      <4>1. p = <<b, p[2]>> /\ p[1] = b /\ p[2] \in T
        OBVIOUS
      <4>2. row[b][p[2]] \in Rest
        BY <2>4, <2>5, <4>1 DEF Rest, IInv, TypeOK
      <4> QED  BY <2>4, <2>5, <2>7, <4>1, <4>2 DEF Open
    <3> QED  BY <3>1, <3>2
  <2>11. Open(Rest)' = {n} \X (1 .. Cardinality(T))
    <3>0. 1 .. Cardinality(T) \subseteq Positions
      BY <2>6, MaxQuantityAssumption DEF Positions
    <3>1. ASSUME NEW p \in Open(Rest)' PROVE p \in {n} \X (1 .. Cardinality(T))
      <4>1. /\ p = <<p[1], p[2]>> /\ p[1] \in Batches /\ p[2] \in Positions /\ p[2] \in Rows(p[1])'
            /\ p[2] \notin replaced'[p[1]] /\ row[p[1]][p[2]] \in Rest
        BY <2>4 DEF Open
      <4>2. CASE p[1] = n
        BY <2>8, <4>1, <4>2
      <4>3. CASE p[1] = b
        BY <2>4, <2>8, <4>1, <4>3, RestStates
      <4>4. CASE p[1] \notin {b, n}
        <5>1. p \in Open(Rest)
          BY <2>8, <4>1, <4>4 DEF Open
        <5> QED  BY <2>10, <4>4, <5>1
      <4> QED  BY <4>2, <4>3, <4>4
    <3>2. ASSUME NEW p \in {n} \X (1 .. Cardinality(T)) PROVE p \in Open(Rest)'
      <4>1. p = <<n, p[2]>> /\ p[1] = n /\ p[2] \in 1 .. Cardinality(T)
        OBVIOUS
      <4>2. row'[n][p[2]] \in Rest
        BY <2>4, <2>9, <3>0, <4>1, RestStates
      <4> QED  BY <2>4, <2>7, <2>8, <3>0, <4>1, <4>2 DEF Open
    <3> QED  BY <3>1, <3>2
  <2>12. Cardinality(Open(Rest)') = Cardinality(Open(Rest))
    <3>1. /\ IsFiniteSet({b}) /\ Cardinality({b}) = 1
          /\ IsFiniteSet({n}) /\ Cardinality({n}) = 1
      BY FS_Singleton
    <3>2. IsFiniteSet(1 .. Cardinality(T)) /\ Cardinality(1 .. Cardinality(T)) = Cardinality(T)
      BY <2>6, FS_Interval
    <3>3. Cardinality({b} \X T) = Cardinality({b}) * Cardinality(T)
      BY <2>6, <3>1, FS_Product
    <3>4. Cardinality({n} \X (1 .. Cardinality(T))) = Cardinality({n}) * Cardinality(1 .. Cardinality(T))
      BY <3>1, <3>2, FS_Product
    <3> QED  BY <2>6, <2>10, <2>11, <3>1, <3>2, <3>3, <3>4
  <2>13. ASSUME NEW s \in {"processing", "paid"} PROVE Open({s})' = Open({s})
    <3>1. ASSUME NEW p \in Batches \X Positions PROVE p \in Open({s})' <=> p \in Open({s})
      <4>1. p = <<p[1], p[2]>> /\ p[1] \in Batches /\ p[2] \in Positions
        OBVIOUS
      <4>2. CASE p[1] = n
        BY <2>4, <2>9, <4>1, <4>2 DEF Open
      <4>3. CASE p[1] = b
        BY <2>4, <2>7, <2>8, <4>1, <4>3 DEF Open
      <4>4. CASE p[1] \notin {b, n}
        BY <2>4, <2>8, <4>1, <4>4 DEF Open
      <4> QED  BY <4>2, <4>3, <4>4
    <3> QED  BY <3>1 DEF Open
  <2> QED  BY <2>12, <2>13, SameCounts
<1> QED  BY <1>1, <1>2

(* Every step of an order whose locks hold is one of the abstract order, or*)
(* none.                                                                   *)
LEMMA HeldStepOrders ==
  ASSUME IInv, IInv', HeldInv, LocksHold, LocksHold', Next
  PROVE  [VoucherOrder!OrderNext]_(VoucherOrder!orderVars)
<1>1. CASE Order
  BY <1>1, PlacingStep
<1>2. CASE PrepareOrdered
  BY <1>2, PreparedIsRest, BatchesAreNumbered DEF PrepareOrdered
<1>3. ASSUME NEW h \in Handlers, PrepareRenewal(h)
      PROVE  UNCHANGED VoucherOrder!orderVars
  <2>1. renewal[work[h]] \in Batches
    BY <1>3 DEF IInv, WorkInv, SizeInv, PrepareRenewal
  <2> QED  BY <1>3, <2>1, PreparedIsRest DEF PrepareRenewal
<1>4. ASSUME UNCHANGED <<size, row, replaced>>
      PROVE  UNCHANGED VoucherOrder!orderVars
  BY <1>4, OpenUnchanged, SameCounts
<1>5. ASSUME NEW h \in Handlers,
             \/ \E b \in Batches : BeginCheck(h, b) \/ BeginPay(h, b) \/ BeginRenew(h, b)
             \/ LinkRenewal(h) \/ Finish(h) \/ Dies(h) \/ LoseLock(h)
      PROVE  UNCHANGED VoucherOrder!orderVars
  BY <1>4, <1>5 DEF BeginCheck, BeginPay, BeginRenew, Begin, LinkRenewal, Finish, Dies, Release,
                    LoseLock, batchVars
<1>6. ASSUME NEW h \in Handlers, CheckRow(h) \/ PayRow(h) \/ CommitRenewal(h)
      PROVE  [VoucherOrder!OrderNext]_(VoucherOrder!orderVars)
  BY <1>6, CheckRowOrders, PayRowOrders, RenewalKeepsOrder
<1>7. ASSUME NEW h \in Handlers, SavePay(h)
      PROVE  [VoucherOrder!OrderNext]_(VoucherOrder!orderVars)
  <2>1. /\ work[h] \in Batches /\ First(todo[h]) \in Rows(work[h])
        /\ row[work[h]][First(todo[h])] = "processing"
    BY <1>7, NextPosition DEF IInv, SavePay, WorkInv, SentInv
  <2>2. PICK s \in Started : SetRow(work[h], First(todo[h]), s)
    BY <1>7 DEF SavePay
  <2>3. UNCHANGED <<size, replaced>>
    BY <1>7 DEF SavePay
  <2> QED  BY <2>1, <2>2, <2>3, OutcomeStep DEF SetRow
<1>8. ASSUME NEW b \in Batches, Expire(b) \/ \E i \in Rows(b) : Settle(b, i)
      PROVE  [VoucherOrder!OrderNext]_(VoucherOrder!orderVars)
  <2>1. CASE Expire(b)
    BY <1>4, <2>1 DEF Expire, batchVars
  <2>2. ASSUME NEW i \in Rows(b), Settle(b, i)
        PROVE  [VoucherOrder!OrderNext]_(VoucherOrder!orderVars)
    <3>1. PICK s \in {"paid", "failed"} : SetRow(b, i, s)
      BY <2>2 DEF Settle
    <3>2. s \in Started /\ row[b][i] = "processing" /\ UNCHANGED <<size, replaced>>
      BY <2>2 DEF Settle, Started
    <3> QED  BY <3>1, <3>2, OutcomeStep DEF SetRow
  <2> QED  BY <1>8, <2>1, <2>2
<1> QED  BY <1>1, <1>2, <1>3, <1>5, <1>6, <1>7, <1>8 DEF Next

(* airpay_batch.py, airpay_repository.py:149: through payments, refusals,  *)
(* deaths and renewals, the chain of batches buys the ordered quantity one *)
(* by one, as long as the batch locks hold.                                *)
THEOREM BatchesImplementOrder == Spec => ImplementsOrder
<1>1. Init => VoucherOrder!OrderInit
  <2> SUFFICES ASSUME Init PROVE VoucherOrder!OrderInit
    OBVIOUS
  <2>1. IInv
    BY InitIInv
  <2>2. \A S : Open(S) = {}
    BY DEF Init, Open, Rows
  <2>3. \A S : Current(S) = 0
    BY <2>1, <2>2, CurrentIsOpen, FS_EmptySet DEF IInv
  <2> QED  BY <2>3 DEF VoucherOrder!OrderInit
<1>2. IInv /\ IInv' /\ KeptInv /\ [Next]_vars => [VoucherOrder!OrderNext]_(VoucherOrder!orderVars)
  <2> SUFFICES ASSUME IInv, IInv', KeptInv, [Next]_vars
               PROVE  [VoucherOrder!OrderNext]_(VoucherOrder!orderVars)
    OBVIOUS
  <2>1. CASE UNCHANGED vars
    <3>1. UNCHANGED <<size, row, replaced>>
      BY <2>1 DEF vars, batchVars
    <3>2. LocksHold' = LocksHold
      BY <3>1 DEF LocksHold
    <3> QED  BY <3>1, <3>2, OpenUnchanged, SameCounts
  <2>2. CASE Next /\ ~ LocksHold
    <3>1. ~ LocksHold'
      BY <2>2, LocksStillHold
    <3> QED  BY <2>2, <3>1 DEF Current, VoucherOrder!orderVars
  <2>3. CASE Next /\ LocksHold /\ LocksHold'
    BY <2>3, HeldStepOrders DEF KeptInv
  <2>4. CASE Next /\ LocksHold /\ ~ LocksHold'
    <3>1. size'[Root] # size[Root]
      BY <2>4 DEF LocksHold
    <3>2. CASE Order
      BY <2>4, <3>2, PlacingStep DEF KeptInv
    <3>3. CASE ~ Order
      BY <2>4, <3>1, <3>3, RootKeepsSize
    <3> QED  BY <3>2, <3>3
  <2> QED  BY <2>1, <2>2, <2>3, <2>4
<1> QED  BY <1>1, <1>2, AlwaysIInv, AlwaysKept, PTL DEF Spec, ImplementsOrder,
                VoucherOrder!OrderSpec

-----------------------------------------------------------------------------
(* The journal.                                                            *)
Fresh == [c \in Places |-> expired[c[1]]]
JournalStep == [Journal!JournalNext]_(Journal!journalVars)

LEMMA CellIs ==
  ASSUME NEW b \in Batches, NEW i \in Positions
  PROVE  <<b, i>> \in Places /\ Stages[<<b, i>>] = row[b][i] /\ Fresh[<<b, i>>] = expired[b]
BY DEF Places, Stages, Fresh

LEMMA RowsStay ==
  ASSUME UNCHANGED <<row, expired>>
  PROVE  JournalStep
BY DEF JournalStep, Journal!journalVars, Stages

(* A row that is set is an operation's move.                               *)
LEMMA RowMoves ==
  ASSUME TypeOK, NEW b \in Batches, NEW i \in Positions, NEW s, SetRow(b, i, s), UNCHANGED expired
  PROVE  Journal!Becomes(<<b, i>>, s)
<1>1. Stages' = [Stages EXCEPT ![<<b, i>>] = s]
  <2>1. ASSUME NEW c \in Batches, NEW j \in Positions
        PROVE  row'[c][j] = IF <<c, j>> = <<b, i>> THEN s ELSE row[c][j]
    BY DEF SetRow, TypeOK
  <2>2. \A c \in Places : Stages'[c] = IF c = <<b, i>> THEN s ELSE Stages[c]
    BY <2>1 DEF Stages, Places
  <2> QED  BY <2>2 DEF Stages
<1> QED  BY <1>1 DEF Journal!Becomes

LEMMA RowInPlace ==
  ASSUME TypeOK, NEW b \in Batches, NEW i \in Positions, SetRow(b, i, row[b][i]), UNCHANGED expired
  PROVE  JournalStep
<1>1. row' = row
  BY DEF SetRow, TypeOK
<1> QED  BY <1>1, RowsStay

LEMMA RowInserted ==
  ASSUME TypeOK, NEW b \in Batches, NEW i \in Positions, row[b][i] = "absent",
         SetRow(b, i, "prepared"), UNCHANGED expired
  PROVE  JournalStep
<1>1. Journal!Insert(<<b, i>>)
  BY CellIs, RowMoves DEF Journal!Insert
<1> QED  BY <1>1, CellIs DEF JournalStep, Journal!JournalNext

LEMMA RowChecked ==
  ASSUME TypeOK, NEW b \in Batches, NEW i \in Positions, row[b][i] = "prepared",
         NEW verdict \in CheckEnds, SetRow(b, i, verdict), UNCHANGED expired
  PROVE  JournalStep
<1>1. CASE verdict = "prepared"
  BY <1>1, RowInPlace
<1>2. CASE verdict # "prepared"
  <2>1. verdict \in {"checked", "refused"}
    BY <1>2 DEF CheckEnds
  <2>2. Journal!CheckEnds(<<b, i>>, verdict)
    BY CellIs, RowMoves DEF Journal!CheckEnds
  <2> QED  BY <2>1, <2>2, CellIs DEF JournalStep, Journal!JournalNext
<1> QED  BY <1>1, <1>2

LEMMA RowCommitted ==
  ASSUME TypeOK, NEW b \in Batches, NEW i \in Positions, row[b][i] = "checked", ~ expired[b],
         SetRow(b, i, "processing"), UNCHANGED expired
  PROVE  JournalStep
<1>1. Journal!Becomes(<<b, i>>, "processing")
  BY RowMoves
<1>2. Stages[<<b, i>>] = "checked" /\ ~ Fresh[<<b, i>>] /\ <<b, i>> \in Places
  BY CellIs
<1>3. Journal!Commit(<<b, i>>)
  BY <1>1, <1>2 DEF Journal!Commit, Fresh
<1> QED  BY <1>2, <1>3 DEF JournalStep, Journal!JournalNext

LEMMA RowEnded ==
  ASSUME TypeOK, NEW b \in Batches, NEW i \in Positions, row[b][i] = "processing",
         NEW outcome \in Started, SetRow(b, i, outcome), UNCHANGED expired
  PROVE  JournalStep
<1>1. CASE outcome = "processing"
  BY <1>1, RowInPlace
<1>2. CASE outcome # "processing"
  <2>1. outcome \in {"paid", "failed"}
    BY <1>2 DEF Started
  <2>2. Journal!PaymentEnds(<<b, i>>, outcome)
    BY CellIs, RowMoves DEF Journal!PaymentEnds
  <2> QED  BY <2>1, <2>2, CellIs DEF JournalStep, Journal!JournalNext
<1> QED  BY <1>1, <1>2

(* The first missing row of a batch is absent.                             *)
LEMMA FirstMissing ==
  ASSUME TypeOK, NEW b \in Batches, Missing(b) # {}
  PROVE  First(Missing(b)) \in Positions /\ row[b][First(Missing(b))] = "absent"
<1>1. Missing(b) \subseteq Positions
  BY RowsArePositions DEF Missing
<1>2. First(Missing(b)) \in Missing(b)
  BY <1>1, FirstIsLeast
<1> QED  BY <1>1, <1>2 DEF Missing

(* Every step goes the journal's way.  A handler that waits for Airpay     *)
(* finds its row still unknown, although others pay, renew and settle: so  *)
(* the answer it saves ends the payment that was begun.                    *)
LEMMA JournalSteps ==
  ASSUME IInv, [Next]_vars
  PROVE  JournalStep
<1> USE DEF IInv
<1>1. CASE Order
  <2>1. 1 \in Positions
    BY <1>1, MaxQuantityAssumption DEF Order, Quantities, Positions
  <2>2. row[Root][1] = "absent"
    BY <1>1, <2>1, BatchesAreNumbered DEF Order, SizeInv, Rows
  <2> QED  BY <1>1, <2>1, <2>2, RowInserted, BatchesAreNumbered DEF Order
<1>2. CASE PrepareOrdered
  BY <1>2, FirstMissing, RowInserted, BatchesAreNumbered DEF PrepareOrdered
<1>3. ASSUME NEW h \in Handlers, CheckRow(h) PROVE JournalStep
  <2>1. /\ work[h] \in Batches /\ First(todo[h]) \in Positions
        /\ pc[h] = "checking"
    BY <1>3, NextPosition DEF CheckRow
  <2>2. CASE UNCHANGED row
    BY <1>3, <2>2, RowsStay DEF CheckRow
  <2>3. CASE row' # row
    <3>1. PICK result \in (IF row[work[h]][First(todo[h])] = "prepared"
                             THEN CheckEnds ELSE {row[work[h]][First(todo[h])]}) :
            SetRow(work[h], First(todo[h]), result)
      BY <1>3, <2>3 DEF CheckRow
    <3>2. UNCHANGED expired
      BY <1>3 DEF CheckRow
    <3> QED  BY <2>1, <3>1, <3>2, RowChecked, RowInPlace
  <2> QED  BY <2>2, <2>3
<1>4. ASSUME NEW h \in Handlers, PayRow(h) PROVE JournalStep
  <2>1. work[h] \in Batches /\ First(todo[h]) \in Positions
    BY <1>4, NextPosition DEF PayRow
  <2>2. UNCHANGED expired
    BY <1>4 DEF PayRow
  <2>3. \/ UNCHANGED row
        \/ /\ row[work[h]][First(todo[h])] = "checked" /\ ~ expired[work[h]]
           /\ SetRow(work[h], First(todo[h]), "processing")
    BY <1>4 DEF PayRow
  <2> QED  BY <2>1, <2>2, <2>3, RowCommitted, RowsStay
<1>5. ASSUME NEW h \in Handlers, SavePay(h) PROVE JournalStep
  <2>1. /\ work[h] \in Batches /\ First(todo[h]) \in Positions
        /\ row[work[h]][First(todo[h])] = "processing"
    BY <1>5, NextPosition DEF SavePay, WorkInv, SentInv
  <2>2. PICK outcome \in Started : SetRow(work[h], First(todo[h]), outcome)
    BY <1>5 DEF SavePay
  <2> QED  BY <1>5, <2>1, <2>2, RowEnded DEF SavePay
<1>6. ASSUME NEW b \in Batches, NEW i \in Rows(b), Settle(b, i) PROVE JournalStep
  <2>1. i \in Positions
    BY RowsArePositions
  <2>2. PICK outcome \in {"paid", "failed"} : SetRow(b, i, outcome)
    BY <1>6 DEF Settle
  <2> QED  BY <1>6, <2>1, <2>2, RowEnded DEF Settle, Started
<1>7. ASSUME NEW h \in Handlers, PrepareRenewal(h) PROVE JournalStep
  <2>1. renewal[work[h]] \in Batches
    BY <1>7 DEF PrepareRenewal, WorkInv, SizeInv
  <2> QED  BY <1>7, <2>1, FirstMissing, RowInserted DEF PrepareRenewal
<1>8. ASSUME NEW b \in Batches, Expire(b) PROVE JournalStep
  <2>1. UNCHANGED row /\ expired' = [expired EXCEPT ![b] = TRUE]
    BY <1>8 DEF Expire, batchVars
  <2>2. Stages' = Stages
    BY <2>1 DEF Stages
  <2>3. ASSUME NEW c \in Places
        PROVE  expired'[c[1]] = (Fresh[c] \/ c \in {b} \X Positions)
    <3>1. c[1] \in Batches /\ c[2] \in Positions /\ c = <<c[1], c[2]>>
      BY DEF Places
    <3>2. CASE c[1] = b
      BY <2>1, <3>1, <3>2 DEF TypeOK, Fresh
    <3>3. CASE c[1] # b
      <4>1. expired'[c[1]] = expired[c[1]] /\ Fresh[c] = expired[c[1]]
        BY <2>1, <3>3 DEF TypeOK, Fresh
      <4>2. expired[c[1]] \in BOOLEAN /\ c \notin {b} \X Positions
        BY <3>1, <3>3 DEF TypeOK
      <4> QED  BY <4>1, <4>2
    <3> QED  BY <3>2, <3>3
  <2>4. Journal!Expire({b} \X Positions)
    BY <2>2, <2>3 DEF Journal!Expire, Fresh
  <2>5. {b} \X Positions \in SUBSET Places
    BY DEF Places
  <2> QED  BY <2>4, <2>5 DEF JournalStep, Journal!JournalNext
<1>9. ASSUME NEW h \in Handlers,
             \/ \E b \in Batches : BeginCheck(h, b) \/ BeginPay(h, b) \/ BeginRenew(h, b)
             \/ CommitRenewal(h) \/ LinkRenewal(h) \/ Finish(h) \/ Dies(h) \/ LoseLock(h)
      PROVE  JournalStep
  <2>1. UNCHANGED <<row, expired>>
    BY <1>9 DEF BeginCheck, BeginPay, BeginRenew, Begin, CommitRenewal, LinkRenewal, Finish, Dies,
                Release, LoseLock, batchVars
  <2> QED  BY <2>1, RowsStay
<1>10. CASE UNCHANGED vars
  BY <1>10, RowsStay DEF vars, batchVars
<1> QED  BY <1>1, <1>2, <1>3, <1>4, <1>5, <1>6, <1>7, <1>8, <1>9, <1>10 DEF Next

(* The rows of batches are the journal that AirpayPurchase keeps, whether  *)
(* batch locks hold or not: nobody begins anew what has begun, and renewals*)
(* touch no row that is there.                                             *)
THEOREM BatchesImplementJournal == Spec => ImplementsJournal
<1>1. Init => Journal!JournalInit
  <2> SUFFICES ASSUME Init PROVE Journal!JournalInit
    OBVIOUS
  <2>1. \A c \in Places : Stages[c] = "absent" /\ Fresh[c] = FALSE
    BY DEF Init, Places, Stages, Fresh
  <2> QED  BY <2>1 DEF Journal!JournalInit, Stages, Fresh
<1>2. IInv /\ [Next]_vars => [Journal!JournalNext]_(Journal!journalVars)
  BY JournalSteps DEF JournalStep
<1> QED  BY <1>1, <1>2, AlwaysIInv, PTL DEF Spec, ImplementsJournal, Journal!JournalSpec

(* However the payment of a position may end, it is `SavePay' of the       *)
(* handler that waits for it, or `Settle' when nobody does: the batch goes *)
(* on whatever AirpayPurchase makes of its operations.                     *)
THEOREM BatchesAdmitOutcomes ==
  ASSUME TypeOK, NEW b \in Batches, NEW i \in Rows(b), NEW outcome \in {"paid", "failed"},
         Journal!PaymentEnds(<<b, i>>, outcome),
         row' \in [Batches -> [Positions -> RowState]],
         UNCHANGED <<size, replaced, expired, renewal, linked, lock, work>>,
         \/ /\ \A h \in Handlers : ~ (pc[h] = "sent" /\ work[h] = b /\ First(todo[h]) = i)
            /\ UNCHANGED <<pc, todo>>
         \/ \E h \in Handlers :
               /\ pc[h] = "sent" /\ work[h] = b /\ First(todo[h]) = i
               /\ pc' = [pc EXCEPT ![h] = "paying"]
               /\ Proceed(h, i, outcome)
  PROVE  Settle(b, i) \/ \E h \in Handlers : SavePay(h)
<1>1. i \in Positions /\ <<b, i>> \in Places
  BY RowsArePositions, CellIs
<1>2. row[b][i] = "processing" /\ Stages' = [Stages EXCEPT ![<<b, i>>] = outcome]
  BY <1>1, CellIs DEF Journal!PaymentEnds, Journal!Becomes
<1>3. SetRow(b, i, outcome)
  <2>1. \A c \in Places : Stages'[c] = row'[c[1]][c[2]] /\ Stages[c] = row[c[1]][c[2]]
    BY DEF Stages
  <2>2. ASSUME NEW c \in Batches, NEW j \in Positions
        PROVE  row'[c][j] = IF c = b /\ j = i THEN outcome ELSE row[c][j]
    <3>1. <<c, j>> \in Places
      BY DEF Places
    <3>2. Stages'[<<c, j>>] = IF <<c, j>> = <<b, i>> THEN outcome ELSE Stages[<<c, j>>]
      BY <1>2, <3>1 DEF Stages
    <3> QED  BY <2>1, <3>1, <3>2
  <2>3. row' = [row EXCEPT ![b] = [row[b] EXCEPT ![i] = outcome]]
    BY <1>1, <2>2 DEF TypeOK
  <2> QED  BY <2>3 DEF SetRow
<1> QED  BY <1>2, <1>3 DEF Settle, SavePay, Started, handlerVars
=============================================================================
