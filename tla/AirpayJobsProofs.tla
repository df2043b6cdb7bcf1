-------------------------- MODULE AirpayJobsProofs ---------------------------
(***************************************************************************)
(* Theorems about AirpayJobs, for any batches, workers, jobs and failures. *)
(***************************************************************************)
EXTENDS AirpayJobsProperties, TLAPS

Busy == {"taken", "working", "saving"}
Untouched == {"absent", "queued", "cancelled"}

(* The lock of a job is held by the worker that took it, as long as its    *)
(* connection works, and only then may others find the job running.        *)
LockInv ==
    /\ \A j \in Jobs, w \in Workers :
          jobLock[j] = w => pc[w] \in Busy /\ current[w] = j /\ connected[w]
    /\ \A w \in Workers :
          pc[w] \in Busy =>
              /\ current[w] \in Jobs
              /\ connected[w] => jobLock[current[w]] = w /\ state[current[w]] = "running"
    /\ \A w \in Workers : pc[w] \notin Busy => connected[w]

(* Nobody is at work on a job that is not begun.                           *)
UntouchedInv ==
    \A j \in Jobs : state[j] \in Untouched =>
        /\ runs[j] = 0
        /\ \A w \in Workers : pc[w] \in Busy => current[w] # j

(* Only one worker ever takes a payment job, and its action is yet to come *)
(* while it is "taken".                                                    *)
SensitiveInv ==
    /\ \A v, w \in Workers :
          /\ pc[v] \in Busy /\ pc[w] \in Busy
          /\ current[v] = current[w] /\ action[current[v]] \in Sensitive
          => v = w
    /\ \A w \in Workers :
          pc[w] = "taken" /\ action[current[w]] \in Sensitive => runs[current[w]] = 0

VerdictInv ==
    \A w \in Workers : pc[w] = "saving" =>
        verdict[w] \in {"succeeded", "failed", "busy", "interrupted"}

BatchInv ==
    /\ \A j \in Jobs : state[j] # "absent" => batch[j] \in Batches
    /\ \A w \in Workers :
          pc[w] = "working" /\ guarded[w] => batchLock[batch[current[w]]] = w

(* The unique index: one active job of a batch.                            *)
IndexInv ==
    \A i, j \in Jobs :
        state[i] \in Active /\ state[j] \in Active /\ batch[i] = batch[j] => i = j

IInv ==
    /\ TypeOK
    /\ LockInv
    /\ UntouchedInv
    /\ SensitiveInv
    /\ SensitiveRunsOnce
    /\ VerdictInv
    /\ BatchInv
    /\ IndexInv

(* No row, no lock and no worker at work: the invariant holds at the start.*)
LEMMA InitIInv == Init => IInv
  BY ActorsAssumption, MaxFailuresAssumption DEF Init, IInv, TypeOK, LockInv,
     UntouchedInv, SensitiveInv, SensitiveRunsOnce, VerdictInv, BatchInv, IndexInv,
     Active, Busy

(* A request takes the free lock of a batch (airpay_api.py, batch_locked). *)
LEMMA SubmitStep ==
  ASSUME IInv, NEW b \in Batches, NEW a \in Actions, Submit(b, a)
  PROVE  IInv'
<1>1. TypeOK'
  BY DEF IInv, TypeOK, Submit, jobVars, workerVars, processVars
<1>2. LockInv'
  BY DEF IInv, LockInv, Submit, jobVars, workerVars
<1>3. UntouchedInv'
  BY DEF IInv, UntouchedInv, Submit, jobVars, workerVars
<1>4. SensitiveInv'
  BY DEF IInv, SensitiveInv, Submit, jobVars, workerVars
<1>5. SensitiveRunsOnce'
  BY DEF IInv, SensitiveRunsOnce, Submit, jobVars
<1>6. VerdictInv'
  BY DEF IInv, VerdictInv, Submit, workerVars
<1>7. BatchInv'
  BY ActorsAssumption DEF IInv, BatchInv, TypeOK, Submit, Unlocked, jobVars,
     workerVars
<1>8. IndexInv'
  BY DEF IInv, IndexInv, Submit, jobVars
<1> QED  BY <1>1, <1>2, <1>3, <1>4, <1>5, <1>6, <1>7, <1>8 DEF IInv

(* A row that nobody can be at work on yet is inserted (enqueue).          *)
LEMMA EnqueueStep ==
  ASSUME IInv, Enqueue
  PROVE  IInv'
<1>1. TypeOK'
  BY DEF IInv, TypeOK, Active, Enqueue, ReleaseRequest, jobVars, workerVars,
     processVars
<1>2. LockInv'
  BY DEF IInv, LockInv, TypeOK, Enqueue, jobVars, workerVars
<1>3. UntouchedInv'
  BY DEF IInv, UntouchedInv, Untouched, TypeOK, Enqueue, jobVars, workerVars
<1>4. SensitiveInv'
  BY DEF IInv, SensitiveInv, UntouchedInv, Untouched, Busy, TypeOK, LockInv,
     Enqueue, jobVars, workerVars
<1>5. SensitiveRunsOnce'
  BY DEF IInv, SensitiveRunsOnce, UntouchedInv, Untouched, TypeOK, Enqueue,
     jobVars
<1>6. VerdictInv'
  BY DEF IInv, VerdictInv, Enqueue, workerVars
<1>7. BatchInv'
  BY ActorsAssumption DEF IInv, BatchInv, TypeOK, LockInv, Busy, UntouchedInv,
     Untouched, Enqueue, ReleaseRequest, jobVars, workerVars
<1>8. IndexInv'
  BY DEF IInv, IndexInv, TypeOK, Active, Enqueue, jobVars
<1> QED  BY <1>1, <1>2, <1>3, <1>4, <1>5, <1>6, <1>7, <1>8 DEF IInv

(* A refused request gives the batch's lock back.                          *)
LEMMA RejectStep ==
  ASSUME IInv, Reject
  PROVE  IInv'
<1>1. TypeOK'
  BY DEF IInv, TypeOK, Reject, ReleaseRequest, jobVars, workerVars, processVars
<1>2. LockInv'
  BY DEF IInv, LockInv, Reject, jobVars, workerVars
<1>3. UntouchedInv'
  BY DEF IInv, UntouchedInv, Reject, jobVars, workerVars
<1>4. SensitiveInv'
  BY DEF IInv, SensitiveInv, Reject, jobVars, workerVars
<1>5. SensitiveRunsOnce'
  BY DEF IInv, SensitiveRunsOnce, Reject, jobVars
<1>6. VerdictInv'
  BY DEF IInv, VerdictInv, Reject, workerVars
<1>7. BatchInv'
  BY ActorsAssumption DEF IInv, BatchInv, Reject, ReleaseRequest, jobVars,
     workerVars
<1>8. IndexInv'
  BY DEF IInv, IndexInv, Reject, jobVars
<1> QED  BY <1>1, <1>2, <1>3, <1>4, <1>5, <1>6, <1>7, <1>8 DEF IInv

(* Only queued jobs are cancelled, and those were never begun (cancel).    *)
LEMMA CancelStep ==
  ASSUME IInv, NEW j \in Jobs, Cancel(j)
  PROVE  IInv'
<1>1. TypeOK'
  BY DEF IInv, TypeOK, Ended, Cancel, workerVars, processVars
<1>2. LockInv'
  BY ActorsAssumption DEF IInv, LockInv, Cancel, workerVars
<1>3. UntouchedInv'
  BY DEF IInv, UntouchedInv, Untouched, Cancel, Cancellable, workerVars
<1>4. SensitiveInv'
  BY DEF IInv, SensitiveInv, Cancel, workerVars
<1>5. SensitiveRunsOnce'
  BY DEF IInv, SensitiveRunsOnce, Cancel
<1>6. VerdictInv'
  BY DEF IInv, VerdictInv, Cancel, workerVars
<1>7. BatchInv'
  BY DEF IInv, BatchInv, Cancel, Cancellable, workerVars
<1>8. IndexInv'
  BY DEF IInv, IndexInv, Active, Cancel
<1> QED  BY <1>1, <1>2, <1>3, <1>4, <1>5, <1>6, <1>7, <1>8 DEF IInv

(* A scan changes nothing but the worker's list (candidates).              *)
LEMMA ScanStep ==
  ASSUME IInv, NEW w \in Workers, Scan(w)
  PROVE  IInv'
<1>1. TypeOK'
  BY DEF IInv, TypeOK, Scan, Candidates, Goto, jobVars, processVars
<1>2. LockInv'
  BY DEF IInv, LockInv, Busy, Scan, Goto, jobVars
<1>3. UntouchedInv'
  BY DEF IInv, UntouchedInv, Busy, Scan, Goto, jobVars
<1>4. SensitiveInv'
  BY DEF IInv, SensitiveInv, Busy, Scan, Goto, jobVars
<1>5. SensitiveRunsOnce'
  BY DEF IInv, SensitiveRunsOnce, Scan, jobVars
<1>6. VerdictInv'
  BY DEF IInv, VerdictInv, Scan, Goto
<1>7. BatchInv'
  BY DEF IInv, BatchInv, Scan, Goto, jobVars
<1>8. IndexInv'
  BY DEF IInv, IndexInv, Scan, jobVars
<1> QED  BY <1>1, <1>2, <1>3, <1>4, <1>5, <1>6, <1>7, <1>8 DEF IInv

(* A candidate that is locked or no longer active is passed over.          *)
LEMMA SkipStep ==
  ASSUME IInv, NEW w \in Workers, Skip(w)
  PROVE  IInv'
<1>1. TypeOK'
  BY DEF IInv, TypeOK, Skip, Goto, jobVars, processVars
<1>2. LockInv'
  BY DEF IInv, LockInv, Busy, Skip, Goto, jobVars
<1>3. UntouchedInv'
  BY DEF IInv, UntouchedInv, Busy, Skip, Goto, jobVars
<1>4. SensitiveInv'
  BY DEF IInv, SensitiveInv, Busy, Skip, Goto, jobVars
<1>5. SensitiveRunsOnce'
  BY DEF IInv, SensitiveRunsOnce, Skip, jobVars
<1>6. VerdictInv'
  BY DEF IInv, VerdictInv, Skip, Goto
<1>7. BatchInv'
  BY DEF IInv, BatchInv, Skip, Goto, jobVars
<1>8. IndexInv'
  BY DEF IInv, IndexInv, Skip, jobVars
<1> QED  BY <1>1, <1>2, <1>3, <1>4, <1>5, <1>6, <1>7, <1>8 DEF IInv

(* The lock is free, so no worker that can still write runs the job.       *)
LEMMA CloseStep ==
  ASSUME IInv, NEW w \in Workers, CloseInterrupted(w)
  PROVE  IInv'
<1>1. TypeOK'
  BY DEF IInv, TypeOK, Ended, CloseInterrupted, Goto, processVars
<1>2. LockInv'
  BY ActorsAssumption DEF IInv, LockInv, Busy, CloseInterrupted, Goto
<1>3. UntouchedInv'
  BY DEF IInv, UntouchedInv, Untouched, Busy, CloseInterrupted, Goto
<1>4. SensitiveInv'
  BY DEF IInv, SensitiveInv, Busy, CloseInterrupted, Goto
<1>5. SensitiveRunsOnce'
  BY DEF IInv, SensitiveRunsOnce, CloseInterrupted
<1>6. VerdictInv'
  BY DEF IInv, VerdictInv, CloseInterrupted, Goto
<1>7. BatchInv'
  BY DEF IInv, BatchInv, CloseInterrupted, Interrupted, Goto
<1>8. IndexInv'
  BY DEF IInv, IndexInv, Active, CloseInterrupted
<1> QED  BY <1>1, <1>2, <1>3, <1>4, <1>5, <1>6, <1>7, <1>8 DEF IInv

(* The lock makes the worker the job's only one, and keeps a payment job that*)
(* was already running from being taken again (Interrupted).               *)
LEMMA TakeStep ==
  ASSUME IInv, NEW w \in Workers, Take(w)
  PROVE  IInv'
<1>1. TypeOK'
  BY DEF IInv, TypeOK, Active, Take, Goto, processVars
<1>2. LockInv'
  BY ActorsAssumption DEF IInv, LockInv, TypeOK, Busy, Take, Goto
<1>3. UntouchedInv'
  BY DEF IInv, UntouchedInv, Untouched, TypeOK, Take, Goto
<1>4. SensitiveInv'
  BY DEF IInv, SensitiveInv, UntouchedInv, Untouched, TypeOK, Active, Take,
     StillActive, Interrupted, Goto
<1>5. SensitiveRunsOnce'
  BY DEF IInv, SensitiveRunsOnce, Take
<1>6. VerdictInv'
  BY DEF IInv, VerdictInv, Take, Goto
<1>7. BatchInv'
  BY DEF IInv, BatchInv, Active, Take, StillActive, Goto
<1>8. IndexInv'
  BY DEF IInv, IndexInv, Active, TypeOK, Take, StillActive
<1> QED  BY <1>1, <1>2, <1>3, <1>4, <1>5, <1>6, <1>7, <1>8 DEF IInv

(* The one step that begins an action: it needs a "taken" job, whose action is*)
(* yet to come, and the free lock of the batch.                            *)
LEMMA BeginStep ==
  ASSUME IInv, NEW w \in Workers, Begin(w)
  PROVE  IInv'
<1>1. TypeOK'
  <2>1. current[w] \in Jobs
    BY DEF IInv, LockInv, Busy, Begin
  <2>2. runs' \in [Jobs -> Nat]
    BY <2>1 DEF IInv, TypeOK, Begin
  <2>3. batchLock' \in [Batches -> Workers \cup {NoWorker, Http}]
    BY DEF IInv, TypeOK, Begin
  <2>4. pc' \in [Workers -> {"idle", "scanning", "taken", "working", "saving"}]
    BY DEF IInv, TypeOK, Begin, Conclude, Goto
  <2>5. verdict' \in [Workers -> Ended \cup {"none"}]
    BY DEF IInv, TypeOK, Ended, Begin, Conclude
  <2> QED  BY <2>2, <2>3, <2>4, <2>5 DEF IInv, TypeOK, Begin, jobVars, processVars
<1>2. LockInv'
  BY DEF IInv, LockInv, TypeOK, Busy, Begin, Conclude, Goto, jobVars
<1>3. UntouchedInv'
  BY DEF IInv, UntouchedInv, Busy, TypeOK, Begin, Conclude, Goto, jobVars
<1>4. SensitiveInv'
  BY DEF IInv, SensitiveInv, Busy, TypeOK, LockInv, Begin, Conclude, Goto,
     jobVars
<1>5. SensitiveRunsOnce'
  BY DEF IInv, SensitiveRunsOnce, SensitiveInv, TypeOK, Begin, jobVars
<1>6. VerdictInv'
  BY DEF IInv, VerdictInv, TypeOK, Begin, Conclude, Goto
<1>7. BatchInv'
  BY ActorsAssumption DEF IInv, BatchInv, TypeOK, LockInv, Busy, UntouchedInv,
     Untouched, Begin, Conclude, Unlocked, Goto, jobVars
<1>8. IndexInv'
  BY DEF IInv, IndexInv, Begin, jobVars
<1> QED  BY <1>1, <1>2, <1>3, <1>4, <1>5, <1>6, <1>7, <1>8 DEF IInv

(* An action that ends leaves a verdict and gives up its batch.            *)
LEMMA EndActionStep ==
  ASSUME IInv, NEW w \in Workers, EndAction(w)
  PROVE  IInv'
<1>0. PICK v \in {"succeeded", "failed", "interrupted"} : Conclude(w, v)
  BY DEF EndAction
<1>1. TypeOK'
  <2>1. batchLock' \in [Batches -> Workers \cup {NoWorker, Http}]
    BY DEF IInv, TypeOK, EndAction
  <2>2. guarded' \in [Workers -> BOOLEAN]
    BY DEF IInv, TypeOK, EndAction
  <2>3. pc' \in [Workers -> {"idle", "scanning", "taken", "working", "saving"}]
    BY <1>0 DEF IInv, TypeOK, Conclude, Goto
  <2>4. verdict' \in [Workers -> Ended \cup {"none"}]
    BY <1>0 DEF IInv, TypeOK, Ended, Conclude
  <2>5. UNCHANGED <<jobVars, jobLock, list, current, connected, processVars, request, runs>>
    BY DEF EndAction
  <2> QED  BY <2>1, <2>2, <2>3, <2>4, <2>5 DEF IInv, TypeOK, jobVars, processVars
<1>a. /\ pc[w] = "working" /\ pc' = [pc EXCEPT ![w] = "saving"]
      /\ UNCHANGED <<batch, action, state, jobLock, current, connected, runs>>
  BY <1>0 DEF EndAction, Conclude, Goto, jobVars
<1>2. LockInv'
  BY <1>a DEF IInv, LockInv, TypeOK, Busy
<1>3. UntouchedInv'
  BY <1>a DEF IInv, UntouchedInv, TypeOK, Busy
<1>4. SensitiveInv'
  BY <1>a DEF IInv, SensitiveInv, TypeOK, Busy
<1>5. SensitiveRunsOnce'
  BY DEF IInv, SensitiveRunsOnce, EndAction, jobVars
<1>6. VerdictInv'
  BY <1>0 DEF IInv, VerdictInv, TypeOK, Conclude, Goto
<1>7. BatchInv'
  <2>1. batchLock' = [batchLock EXCEPT ![batch[current[w]]] = IF @ = w THEN NoWorker ELSE @]
        /\ guarded' = [guarded EXCEPT ![w] = TRUE]
    BY DEF EndAction
  <2> QED  BY <1>a, <2>1, ActorsAssumption DEF IInv, BatchInv, TypeOK
<1>8. IndexInv'
  BY DEF IInv, IndexInv, EndAction, jobVars
<1> QED  BY <1>1, <1>2, <1>3, <1>4, <1>5, <1>6, <1>7, <1>8 DEF IInv

(* Only the holder of the job's lock can write the outcome (CanWrite).     *)
LEMMA SaveStep ==
  ASSUME IInv, NEW w \in Workers, Save(w)
  PROVE  IInv'
<1>1. TypeOK'
  BY MaxFailuresAssumption DEF IInv, TypeOK, VerdictInv, Save, CanWrite, Goto,
     processVars
<1>2. LockInv'
  BY ActorsAssumption DEF IInv, LockInv, TypeOK, Busy, Save, CanWrite, Goto
<1>3. UntouchedInv'
  BY DEF IInv, UntouchedInv, Untouched, Busy, TypeOK, VerdictInv, Save, Goto
<1>4. SensitiveInv'
  BY DEF IInv, SensitiveInv, Busy, TypeOK, Save, Goto
<1>5. SensitiveRunsOnce'
  BY DEF IInv, SensitiveRunsOnce, Save
<1>6. VerdictInv'
  BY DEF IInv, VerdictInv, TypeOK, Save, Goto
<1>7. BatchInv'
  BY DEF IInv, BatchInv, TypeOK, LockInv, Busy, Save, CanWrite, Goto
<1>8. IndexInv'
  BY DEF IInv, IndexInv, Active, TypeOK, VerdictInv, Save
<1> QED  BY <1>1, <1>2, <1>3, <1>4, <1>5, <1>6, <1>7, <1>8 DEF IInv

(* A dead process is at work on nothing and holds no lock.                 *)
LEMMA CrashStep ==
  ASSUME IInv, NEW w \in Workers, Crash(w)
  PROVE  IInv'
<1>1. TypeOK'
  BY MaxFailuresAssumption DEF IInv, TypeOK, Crash, Fail, Goto, jobVars
<1>2. LockInv'
  BY ActorsAssumption DEF IInv, LockInv, TypeOK, Busy, Crash, Goto, jobVars
<1>3. UntouchedInv'
  BY DEF IInv, UntouchedInv, Busy, TypeOK, Crash, Goto, jobVars
<1>4. SensitiveInv'
  BY DEF IInv, SensitiveInv, Busy, TypeOK, Crash, Goto, jobVars
<1>5. SensitiveRunsOnce'
  BY DEF IInv, SensitiveRunsOnce, Crash, jobVars
<1>6. VerdictInv'
  BY DEF IInv, VerdictInv, TypeOK, Crash, Goto
<1>7. BatchInv'
  BY ActorsAssumption DEF IInv, BatchInv, TypeOK, LockInv, Busy, UntouchedInv,
     Untouched, Crash, Goto, jobVars
<1>8. IndexInv'
  BY DEF IInv, IndexInv, Crash, jobVars
<1> QED  BY <1>1, <1>2, <1>3, <1>4, <1>5, <1>6, <1>7, <1>8 DEF IInv

(* A broken connection loses the job's lock while its worker goes on.      *)
LEMMA DisconnectStep ==
  ASSUME IInv, NEW w \in Workers, Disconnect(w)
  PROVE  IInv'
<1>1. TypeOK'
  BY MaxFailuresAssumption DEF IInv, TypeOK, Disconnect, Fail, jobVars
<1>2. LockInv'
  BY ActorsAssumption DEF IInv, LockInv, TypeOK, Busy, Disconnect, jobVars
<1>3. UntouchedInv'
  BY DEF IInv, UntouchedInv, Disconnect, jobVars
<1>4. SensitiveInv'
  BY DEF IInv, SensitiveInv, Disconnect, jobVars
<1>5. SensitiveRunsOnce'
  BY DEF IInv, SensitiveRunsOnce, Disconnect, jobVars
<1>6. VerdictInv'
  BY DEF IInv, VerdictInv, Disconnect
<1>7. BatchInv'
  BY DEF IInv, BatchInv, Disconnect, jobVars
<1>8. IndexInv'
  BY DEF IInv, IndexInv, Disconnect, jobVars
<1> QED  BY <1>1, <1>2, <1>3, <1>4, <1>5, <1>6, <1>7, <1>8 DEF IInv

(* The lock of a batch is lost under its worker, who goes on.              *)
LEMMA LoseBatchStep ==
  ASSUME IInv, NEW w \in Workers, LoseBatch(w)
  PROVE  IInv'
<1>1. TypeOK'
  <2>1. batchLock' \in [Batches -> Workers \cup {NoWorker, Http}]
    BY DEF IInv, TypeOK, LoseBatch
  <2>2. guarded' \in [Workers -> BOOLEAN]
    BY DEF IInv, TypeOK, LoseBatch
  <2>3. failures' \in 0 .. MaxFailures
    BY MaxFailuresAssumption DEF IInv, TypeOK, LoseBatch, Fail
  <2>4. UNCHANGED <<jobVars, jobLock, pc, list, current, connected, verdict, process, enabled, request, runs>>
    BY DEF LoseBatch
  <2> QED  BY <2>1, <2>2, <2>3, <2>4 DEF IInv, TypeOK, jobVars
<1>2. LockInv'
  BY DEF IInv, LockInv, LoseBatch, jobVars
<1>3. UntouchedInv'
  BY DEF IInv, UntouchedInv, LoseBatch, jobVars
<1>4. SensitiveInv'
  BY DEF IInv, SensitiveInv, LoseBatch, jobVars
<1>5. SensitiveRunsOnce'
  BY DEF IInv, SensitiveRunsOnce, LoseBatch, jobVars
<1>6. VerdictInv'
  BY DEF IInv, VerdictInv, LoseBatch
<1>7. BatchInv'
  BY DEF IInv, BatchInv, TypeOK, LoseBatch, jobVars
<1>8. IndexInv'
  BY DEF IInv, IndexInv, LoseBatch, jobVars
<1> QED  BY <1>1, <1>2, <1>3, <1>4, <1>5, <1>6, <1>7, <1>8 DEF IInv

(* A request, too, may lose the batch's lock while it enqueues.            *)
LEMMA RequestLosesBatchStep ==
  ASSUME IInv, RequestLosesBatch
  PROVE  IInv'
<1>1. TypeOK'
  BY MaxFailuresAssumption DEF IInv, TypeOK, RequestLosesBatch, Fail, jobVars,
     workerVars
<1>2. LockInv'
  BY DEF IInv, LockInv, RequestLosesBatch, jobVars, workerVars
<1>3. UntouchedInv'
  BY DEF IInv, UntouchedInv, RequestLosesBatch, jobVars, workerVars
<1>4. SensitiveInv'
  BY DEF IInv, SensitiveInv, RequestLosesBatch, jobVars, workerVars
<1>5. SensitiveRunsOnce'
  BY DEF IInv, SensitiveRunsOnce, RequestLosesBatch, jobVars
<1>6. VerdictInv'
  BY DEF IInv, VerdictInv, RequestLosesBatch, workerVars
<1>7. BatchInv'
  BY ActorsAssumption DEF IInv, BatchInv, TypeOK, RequestLosesBatch, jobVars,
     workerVars
<1>8. IndexInv'
  BY DEF IInv, IndexInv, RequestLosesBatch, jobVars
<1> QED  BY <1>1, <1>2, <1>3, <1>4, <1>5, <1>6, <1>7, <1>8 DEF IInv

(* A shutdown only tells the workers of the process to stop.               *)
LEMMA StopStep ==
  ASSUME IInv, NEW w \in Workers, Stop(w)
  PROVE  IInv'
<1>1. TypeOK'
  BY MaxFailuresAssumption DEF IInv, TypeOK, Stop, Fail, jobVars, workerVars
<1>2. LockInv'
  BY DEF IInv, LockInv, Stop, jobVars, workerVars
<1>3. UntouchedInv'
  BY DEF IInv, UntouchedInv, Stop, jobVars, workerVars
<1>4. SensitiveInv'
  BY DEF IInv, SensitiveInv, Stop, jobVars, workerVars
<1>5. SensitiveRunsOnce'
  BY DEF IInv, SensitiveRunsOnce, Stop, jobVars
<1>6. VerdictInv'
  BY DEF IInv, VerdictInv, Stop, workerVars
<1>7. BatchInv'
  BY DEF IInv, BatchInv, Stop, jobVars, workerVars
<1>8. IndexInv'
  BY DEF IInv, IndexInv, Stop, jobVars
<1> QED  BY <1>1, <1>2, <1>3, <1>4, <1>5, <1>6, <1>7, <1>8 DEF IInv

(* A process starts with an idle worker, with payments allowed or not.     *)
LEMMA StartStep ==
  ASSUME IInv, NEW w \in Workers, Start(w)
  PROVE  IInv'
<1>1. TypeOK'
  BY DEF IInv, TypeOK, Start, jobVars, workerVars
<1>2. LockInv'
  BY DEF IInv, LockInv, Start, jobVars, workerVars
<1>3. UntouchedInv'
  BY DEF IInv, UntouchedInv, Start, jobVars, workerVars
<1>4. SensitiveInv'
  BY DEF IInv, SensitiveInv, Start, jobVars, workerVars
<1>5. SensitiveRunsOnce'
  BY DEF IInv, SensitiveRunsOnce, Start, jobVars
<1>6. VerdictInv'
  BY DEF IInv, VerdictInv, Start, workerVars
<1>7. BatchInv'
  BY DEF IInv, BatchInv, Start, jobVars, workerVars
<1>8. IndexInv'
  BY DEF IInv, IndexInv, Start, jobVars
<1> QED  BY <1>1, <1>2, <1>3, <1>4, <1>5, <1>6, <1>7, <1>8 DEF IInv

(* The invariant is inductive.                                             *)
LEMMA NextIInv == IInv /\ [Next]_vars => IInv'
<1> SUFFICES ASSUME IInv, [Next]_vars PROVE IInv'
  OBVIOUS
<1>1. ASSUME NEW b \in Batches, NEW a \in Actions, Submit(b, a) PROVE IInv'
  BY <1>1, SubmitStep
<1>2. CASE Enqueue
  BY <1>2, EnqueueStep
<1>3. CASE Reject
  BY <1>3, RejectStep
<1>4. ASSUME NEW j \in Jobs, Cancel(j) PROVE IInv'
  BY <1>4, CancelStep
<1>5. ASSUME NEW w \in Workers, WorkerStep(w) PROVE IInv'
  BY <1>5, ScanStep, SkipStep, CloseStep, TakeStep, BeginStep, EndActionStep,
     SaveStep DEF WorkerStep
<1>6. ASSUME NEW w \in Workers,
             Crash(w) \/ Disconnect(w) \/ LoseBatch(w) \/ Stop(w) \/ Start(w)
      PROVE  IInv'
  BY <1>6, CrashStep, DisconnectStep, LoseBatchStep, StopStep, StartStep
<1>7. CASE RequestLosesBatch
  BY <1>7, RequestLosesBatchStep
<1>8. CASE UNCHANGED vars
  BY <1>8 DEF vars, jobVars, workerVars, processVars, IInv, TypeOK, LockInv,
     UntouchedInv, SensitiveInv, SensitiveRunsOnce, VerdictInv, BatchInv, IndexInv
<1> QED  BY <1>1, <1>2, <1>3, <1>4, <1>5, <1>6, <1>7, <1>8 DEF Next

(* It holds in every reachable state.                                      *)
THEOREM Invariance == Spec => []IInv
<1>1. Init => IInv
  BY InitIInv
<1>2. IInv /\ [Next]_vars => IInv'
  BY NextIInv
<1> QED  BY <1>1, <1>2, PTL DEF Spec

-----------------------------------------------------------------------------
(* Every reachable state of the queue is well typed.                       *)
THEOREM TypeCorrect == Spec => []TypeOK
<1>1. IInv => TypeOK
  BY DEF IInv
<1> QED  BY <1>1, Invariance, PTL

(* However many workers crash, lose their lock or scan again, the action of*)
(* a payment job is begun at most once (CloseInterrupted).                 *)
THEOREM PaymentJobsRunOnce == Spec => []SensitiveRunsOnce
<1>1. IInv => SensitiveRunsOnce
  BY DEF IInv
<1> QED  BY <1>1, Invariance, PTL

(* A job its owner cancelled was never begun (Cancel, Take).               *)
THEOREM CancellationHolds == Spec => []CancelledNeverRuns
<1>1. IInv => CancelledNeverRuns
  BY DEF IInv, UntouchedInv, Untouched, CancelledNeverRuns
<1> QED  BY <1>1, Invariance, PTL

(* No two workers act on one batch unless the lock of a job and the lock of*)
(* the batch were both lost: a second action needs the batch's lock (Begin)*)
(* and an active job, of which a batch has one, locked by its worker.      *)
THEOREM BatchesAreWorkedAlone == Spec => []WorkedAlone
<1>1. ASSUME IInv PROVE WorkedAlone
  <2> SUFFICES ASSUME NEW v \in Workers, NEW w \in Workers, v # w,
                      pc[v] = "working", pc[w] = "working",
                      batch[current[v]] = batch[current[w]]
               PROVE  /\ ~ (connected[v] /\ connected[w])
                      /\ ~ (guarded[v] /\ guarded[w])
    BY DEF WorkedAlone
  <2>1. ~ (guarded[v] /\ guarded[w])
    BY <1>1 DEF IInv, BatchInv
  <2>2. ASSUME connected[v], connected[w] PROVE FALSE
    <3>1. /\ current[v] \in Jobs /\ state[current[v]] \in Active
          /\ current[w] \in Jobs /\ state[current[w]] \in Active
          /\ jobLock[current[v]] = v /\ jobLock[current[w]] = w
      BY <1>1, <2>2 DEF IInv, LockInv, Busy, Active
    <3>2. current[v] = current[w]
      BY <1>1, <3>1 DEF IInv, IndexInv
    <3> QED  BY <3>1, <3>2
  <2> QED  BY <2>1, <2>2
<1> QED  BY <1>1, Invariance, PTL

(* No step revises the outcome of a job: a worker without its lock cannot  *)
(* write, and one with it holds a running job (Save).                      *)
THEOREM OutcomesStand == Spec => EndedIsFinal
<1> DEFINE Stand == \A j \in Jobs : state[j] \in Ended => state'[j] = state[j]
<1>1. IInv /\ [Next]_vars => [Stand]_vars
  <2> SUFFICES ASSUME IInv, [Next]_vars PROVE Stand
    OBVIOUS
  <2>1. CASE UNCHANGED state
    BY <2>1
  <2>2. CASE Enqueue
    BY <2>2 DEF Enqueue, IInv, TypeOK, Ended, jobVars
  <2>3. ASSUME NEW j \in Jobs, Cancel(j) PROVE Stand
    BY <2>3 DEF Cancel, Cancellable, Ended
  <2>4. ASSUME NEW w \in Workers, CloseInterrupted(w) PROVE Stand
    BY <2>4 DEF CloseInterrupted, Interrupted, Ended
  <2>5. ASSUME NEW w \in Workers, Take(w) PROVE Stand
    BY <2>5 DEF Take, StillActive, Active, Ended
  <2>6. ASSUME NEW w \in Workers, Save(w) PROVE Stand
    BY <2>6 DEF Save, CanWrite, IInv, TypeOK, LockInv, Busy, Ended
  <2>7. ASSUME \/ \E b \in Batches, a \in Actions : Submit(b, a)
               \/ Reject \/ RequestLosesBatch
               \/ \E w \in Workers :
                     \/ Scan(w) \/ Skip(w) \/ Begin(w) \/ EndAction(w)
                     \/ Crash(w) \/ Disconnect(w) \/ LoseBatch(w) \/ Stop(w) \/ Start(w)
               \/ UNCHANGED vars
        PROVE  UNCHANGED state
    BY <2>7 DEF Submit, Reject, Scan, Skip, Begin, EndAction, Crash, Disconnect,
       LoseBatch, RequestLosesBatch, Stop, Start, jobVars, vars
  <2> QED  BY <2>1, <2>2, <2>3, <2>4, <2>5, <2>6, <2>7 DEF Next, WorkerStep
<1> QED  BY <1>1, Invariance, PTL DEF Spec, EndedIsFinal
=============================================================================
