----------------------------- MODULE AirpayJobs ------------------------------
(***************************************************************************)
(* The queue of actions on Airpay batches: HTTP requests insert jobs, the  *)
(* job thread of each API process takes them one at a time.  A worker      *)
(* holds a session lock on its job through the connection it also writes   *)
(* the job with; the action works under the batch's lock, which a second   *)
(* connection holds that is not used for anything else.  Processes crash,  *)
(* are restarted with payments allowed or not, and each of the connections *)
(* may break unnoticed while the worker goes on.                           *)
(*                                                                         *)
(* What an action does to its batch is AirpayBatch; here it only ends well *)
(* or badly.  The candidates fit in the query's page of 32 and the jobs are*)
(* those of one owner.  Nothing enqueues "reconcile".                      *)
(*                                                                         *)
(* Sources: api/airpay_runtime/airpay_jobs.py, airpay_api.py.              *)
(***************************************************************************)
EXTENDS Naturals

CONSTANTS
    Batches,
    Workers,        \* job threads, one per API process
    Actions,        \* of those the API enqueues
    NoBatch, NoWorker, Http,
    MaxJobs,        \* bound on the jobs enqueued
    MaxFailures     \* bound on crashes, broken connections and shutdowns

ASSUME ActionsAssumption == Actions \subseteq {"check", "renew", "pay", "voucher"}
ASSUME NoBatchAssumption == NoBatch \notin Batches
ASSUME ActorsAssumption == NoWorker \notin Workers /\ Http \notin Workers \cup {NoWorker}
ASSUME MaxJobsAssumption == MaxJobs \in Nat
ASSUME MaxFailuresAssumption == MaxFailures \in Nat

VARIABLES
    batch, action, state,   \* airpay_jobs, by order of creation
    jobLock,                \* worker whose connection holds the job's lock
    batchLock,              \* worker (or HTTP request) that holds the batch's
    process,                \* up, stopping (stop_event is set) or down
    enabled,                \* payments_enabled of the process
    pc,
    list,                   \* candidates read and not yet tried
    current,                \* the job taken
    connected,              \* the connection of this pass over the queue works
    guarded,                \* and that of the batch's lock
    verdict,                \* what it is about to save
    request,                \* of the HTTP handler that holds a batch's lock
    failures,
    runs                    \* how often the action of the job was begun

jobVars == <<batch, action, state>>
workerVars == <<pc, list, current, connected, guarded, verdict>>
processVars == <<process, enabled, failures>>
vars == <<jobVars, jobLock, batchLock, workerVars, processVars, request, runs>>

Jobs == 1 .. MaxJobs
NoJob == 0
Sensitive == {"pay", "voucher"}
Active == {"queued", "running"}

(* "failed" with the reason that is kept in error.                         *)
Ended == {"succeeded", "failed", "busy", "interrupted", "cancelled"}

NoRequest == [batch |-> NoBatch, action |-> "none"]

TypeOK ==
    /\ batch \in [Jobs -> Batches \cup {NoBatch}]
    /\ action \in [Jobs -> Actions \cup {"none"}]
    /\ state \in [Jobs -> {"absent"} \cup Active \cup Ended]
    /\ jobLock \in [Jobs -> Workers \cup {NoWorker}]
    /\ batchLock \in [Batches -> Workers \cup {NoWorker, Http}]
    /\ process \in [Workers -> {"up", "stopping", "down"}]
    /\ enabled \in [Workers -> BOOLEAN]
    /\ pc \in [Workers -> {"idle", "scanning", "taken", "working", "saving"}]
    /\ list \in [Workers -> SUBSET Jobs]
    /\ current \in [Workers -> Jobs \cup {NoJob}]
    /\ connected \in [Workers -> BOOLEAN]
    /\ guarded \in [Workers -> BOOLEAN]
    /\ verdict \in [Workers -> Ended \cup {"none"}]
    /\ request \in [batch : Batches, action : Actions] \cup {NoRequest}
    /\ failures \in 0 .. MaxFailures
    /\ runs \in [Jobs -> Nat]

Init ==
    /\ batch = [j \in Jobs |-> NoBatch]
    /\ action = [j \in Jobs |-> "none"]
    /\ state = [j \in Jobs |-> "absent"]
    /\ jobLock = [j \in Jobs |-> NoWorker]
    /\ batchLock = [b \in Batches |-> NoWorker]
    /\ process = [w \in Workers |-> "up"]
    /\ enabled = [w \in Workers |-> TRUE]
    /\ pc = [w \in Workers |-> "idle"]
    /\ list = [w \in Workers |-> {}]
    /\ current = [w \in Workers |-> NoJob]
    /\ connected = [w \in Workers |-> TRUE]
    /\ guarded = [w \in Workers |-> TRUE]
    /\ verdict = [w \in Workers |-> "none"]
    /\ request = NoRequest
    /\ failures = 0
    /\ runs = [j \in Jobs |-> 0]

Goto(w, step) == pc' = [pc EXCEPT ![w] = step]

-----------------------------------------------------------------------------
(* HTTP: submit holds the batch's lock while it validates and enqueues.    *)

Slip_NoLock(b) == TRUE
Unlocked(b) == batchLock[b] = NoWorker

Submit(b, a) ==
    /\ request = NoRequest
    /\ Unlocked(b)
    /\ \E w \in Workers : process[w] # "down" /\ (a \in Sensitive => enabled[w])
    /\ request' = [batch |-> b, action |-> a]
    /\ batchLock' = [batchLock EXCEPT ![b] = Http]
    /\ UNCHANGED <<jobVars, jobLock, workerVars, processVars, runs>>

ReleaseRequest ==
    /\ batchLock' = [batchLock EXCEPT ![request.batch] = IF @ = Http THEN NoWorker ELSE @]
    /\ request' = NoRequest

(* The unique index over active jobs answers a repetition with the job that*)
(* is there, and another action with a conflict.                           *)
Enqueue ==
    /\ request # NoRequest
    /\ \/ /\ \A j \in Jobs : ~ (batch[j] = request.batch /\ state[j] \in Active)
          /\ \E j \in Jobs :
                /\ state[j] = "absent"
                /\ \A i \in 1 .. (j - 1) : state[i] # "absent"
                /\ batch' = [batch EXCEPT ![j] = request.batch]
                /\ action' = [action EXCEPT ![j] = request.action]
                /\ state' = [state EXCEPT ![j] = "queued"]
       \/ /\ \E j \in Jobs : batch[j] = request.batch /\ state[j] \in Active
          /\ UNCHANGED jobVars
    /\ ReleaseRequest
    /\ UNCHANGED <<jobLock, workerVars, processVars, runs>>

(* Validation refused it, the handler died, or (bound) no job is left.     *)
Reject ==
    /\ request # NoRequest
    /\ ReleaseRequest
    /\ UNCHANGED <<jobVars, jobLock, workerVars, processVars, runs>>

(* cancel takes the job's lock, reads the row again and gives it back.     *)
Slip_AnyUnlocked(j) == state[j] \in Active
Cancellable(j) == state[j] = "queued"

Cancel(j) ==
    /\ jobLock[j] = NoWorker
    /\ Cancellable(j)
    /\ state' = [state EXCEPT ![j] = "cancelled"]
    /\ UNCHANGED <<batch, action, jobLock, batchLock, workerVars, processVars, request, runs>>

-----------------------------------------------------------------------------
(* The job thread                                                          *)

Slip_OwnActionsOnly(w) ==
    {j \in Jobs : state[j] \in Active /\ (action[j] \in Sensitive => enabled[w])}
Candidates(w) ==
    {j \in Jobs : \/ state[j] \in Active /\ (action[j] \in Sensitive => enabled[w])
                  \/ state[j] = "running" /\ action[j] \in Sensitive}

Scan(w) ==
    /\ pc[w] = "idle"
    /\ process[w] = "up"
    /\ Candidates(w) # {}
    /\ list' = [list EXCEPT ![w] = Candidates(w)]
    /\ Goto(w, "scanning")
    /\ UNCHANGED <<jobVars, jobLock, batchLock, current, connected, guarded, verdict, processVars, request, runs>>

Oldest(w, j) == j \in list[w] /\ \A i \in list[w] : j <= i

(* Locked by another worker, or no longer active when read under the lock. *)
Slip_RunningOnly(j) == state[j] = "running"
StillActive(j) == state[j] \in Active

Skip(w) ==
    /\ pc[w] = "scanning"
    /\ \E j \in Jobs :
          /\ Oldest(w, j)
          /\ jobLock[j] # NoWorker \/ ~ StillActive(j)
          /\ list' = [list EXCEPT ![w] = @ \ {j}]
    /\ Goto(w, IF list'[w] = {} THEN "idle" ELSE "scanning")
    /\ UNCHANGED <<jobVars, jobLock, batchLock, current, connected, guarded, verdict, processVars, request, runs>>

(* A running payment whose lock is free has lost its worker: it is closed, *)
(* never run again.                                                        *)
Slip_None(j) == FALSE
Interrupted(j) == state[j] = "running" /\ action[j] \in Sensitive

CloseInterrupted(w) ==
    /\ pc[w] = "scanning"
    /\ \E j \in Jobs :
          /\ Oldest(w, j)
          /\ jobLock[j] = NoWorker
          /\ Interrupted(j)
          /\ state' = [state EXCEPT ![j] = "interrupted"]
    /\ list' = [list EXCEPT ![w] = {}]
    /\ Goto(w, "idle")
    /\ UNCHANGED <<batch, action, jobLock, batchLock, current, connected, guarded, verdict, processVars, request, runs>>

Take(w) ==
    /\ pc[w] = "scanning"
    /\ \E j \in Jobs :
          /\ Oldest(w, j)
          /\ jobLock[j] = NoWorker
          /\ StillActive(j)
          /\ ~ Interrupted(j)
          /\ state' = [state EXCEPT ![j] = "running"]
          /\ jobLock' = [jobLock EXCEPT ![j] = w]
          /\ current' = [current EXCEPT ![w] = j]
    /\ list' = [list EXCEPT ![w] = {}]
    /\ Goto(w, "taken")
    /\ UNCHANGED <<batch, action, batchLock, connected, guarded, verdict, processVars, request, runs>>

Conclude(w, v) ==
    /\ verdict' = [verdict EXCEPT ![w] = v]
    /\ Goto(w, "saving")

(* execute: the batch's lock is tried once, not waited for.                *)
Begin(w) ==
    LET b == batch[current[w]] IN
    /\ pc[w] = "taken"
    /\ \/ /\ process[w] = "stopping"
          /\ Conclude(w, "interrupted")
          /\ UNCHANGED <<batchLock, runs>>
       \/ /\ process[w] = "up"
          /\ Unlocked(b)
          /\ batchLock' = [batchLock EXCEPT ![b] = w]
          /\ runs' = [runs EXCEPT ![current[w]] = @ + 1]
          /\ Goto(w, "working")
          /\ UNCHANGED verdict
       \/ /\ process[w] = "up"
          /\ ~ Unlocked(b)
          /\ Conclude(w, "busy")
          /\ UNCHANGED <<batchLock, runs>>
    /\ UNCHANGED <<jobVars, jobLock, list, current, connected, guarded, processVars, request>>

(* The action ends, or its next report of progress finds the process       *)
(* stopping; one on a broken connection ends it with an error.  Giving a   *)
(* lost lock back raises, over whatever the action came to.                *)
EndAction(w) ==
    /\ pc[w] = "working"
    /\ \/ guarded[w] /\ Conclude(w, "succeeded")
       \/ guarded[w] /\ process[w] = "stopping" /\ Conclude(w, "interrupted")
       \/ Conclude(w, "failed")
    /\ batchLock' = [batchLock EXCEPT ![batch[current[w]]] = IF @ = w THEN NoWorker ELSE @]
    /\ guarded' = [guarded EXCEPT ![w] = TRUE]
    /\ UNCHANGED <<jobVars, jobLock, list, current, connected, processVars, request, runs>>

(* The connection that holds the lock writes the outcome, or nobody does.  *)
Slip_AnyConnection(w) == TRUE
CanWrite(w) == connected[w]

Save(w) ==
    /\ pc[w] = "saving"
    /\ IF CanWrite(w)
          THEN state' = [state EXCEPT ![current[w]] = verdict[w]]
          ELSE UNCHANGED state
    /\ jobLock' = [j \in Jobs |-> IF jobLock[j] = w THEN NoWorker ELSE jobLock[j]]
    /\ current' = [current EXCEPT ![w] = NoJob]
    /\ connected' = [connected EXCEPT ![w] = TRUE]
    /\ verdict' = [verdict EXCEPT ![w] = "none"]
    /\ Goto(w, "idle")
    /\ UNCHANGED <<batch, action, batchLock, list, guarded, processVars, request, runs>>

-----------------------------------------------------------------------------
(* Failures                                                                *)

Fail ==
    /\ failures < MaxFailures
    /\ failures' = failures + 1

(* PostgreSQL frees the locks of a dead process.                           *)
Crash(w) ==
    /\ Fail
    /\ process[w] # "down"
    /\ process' = [process EXCEPT ![w] = "down"]
    /\ jobLock' = [j \in Jobs |-> IF jobLock[j] = w THEN NoWorker ELSE jobLock[j]]
    /\ batchLock' = [b \in Batches |-> IF batchLock[b] = w THEN NoWorker ELSE batchLock[b]]
    /\ list' = [list EXCEPT ![w] = {}]
    /\ current' = [current EXCEPT ![w] = NoJob]
    /\ verdict' = [verdict EXCEPT ![w] = "none"]
    /\ Goto(w, "idle")
    /\ connected' = [connected EXCEPT ![w] = TRUE]
    /\ guarded' = [guarded EXCEPT ![w] = TRUE]
    /\ UNCHANGED <<jobVars, enabled, request, runs>>

Disconnect(w) ==
    /\ Fail
    /\ pc[w] \in {"taken", "working", "saving"}
    /\ connected[w]
    /\ connected' = [connected EXCEPT ![w] = FALSE]
    /\ jobLock' = [j \in Jobs |-> IF jobLock[j] = w THEN NoWorker ELSE jobLock[j]]
    /\ UNCHANGED <<jobVars, batchLock, pc, list, current, guarded, verdict, process, enabled, request, runs>>

(* The connection of the batch's lock breaks; the worker, or the request,  *)
(* does not use it before it gives the lock back.                          *)
LoseBatch(w) ==
    /\ Fail
    /\ pc[w] = "working"
    /\ guarded[w]
    /\ guarded' = [guarded EXCEPT ![w] = FALSE]
    /\ batchLock' = [batchLock EXCEPT ![batch[current[w]]] = IF @ = w THEN NoWorker ELSE @]
    /\ UNCHANGED <<jobVars, jobLock, pc, list, current, connected, verdict, process, enabled, request, runs>>

RequestLosesBatch ==
    /\ Fail
    /\ request # NoRequest
    /\ batchLock[request.batch] = Http
    /\ batchLock' = [batchLock EXCEPT ![request.batch] = NoWorker]
    /\ UNCHANGED <<jobVars, jobLock, workerVars, process, enabled, request, runs>>

Stop(w) ==
    /\ Fail
    /\ process[w] = "up"
    /\ process' = [process EXCEPT ![w] = "stopping"]
    /\ UNCHANGED <<jobVars, jobLock, batchLock, workerVars, enabled, request, runs>>

(* The thread's loop ends; a new process reads its configuration.          *)
Start(w) ==
    /\ process[w] = "down" \/ (process[w] = "stopping" /\ pc[w] = "idle")
    /\ process' = [process EXCEPT ![w] = "up"]
    /\ \E e \in BOOLEAN : enabled' = [enabled EXCEPT ![w] = e]
    /\ UNCHANGED <<jobVars, jobLock, batchLock, workerVars, failures, request, runs>>

-----------------------------------------------------------------------------
WorkerStep(w) ==
    Scan(w) \/ Skip(w) \/ CloseInterrupted(w) \/ Take(w)
        \/ Begin(w) \/ EndAction(w) \/ Save(w)

Next ==
    \/ \E b \in Batches, a \in Actions : Submit(b, a)
    \/ Enqueue \/ Reject \/ RequestLosesBatch
    \/ \E j \in Jobs : Cancel(j)
    \/ \E w \in Workers : WorkerStep(w) \/ Crash(w) \/ Disconnect(w) \/ LoseBatch(w) \/ Stop(w) \/ Start(w)

Spec == Init /\ [][Next]_vars

(* Threads go on and processes are restarted.                              *)
FairSpec == Spec /\ \A w \in Workers : WF_vars(WorkerStep(w)) /\ WF_vars(Start(w))
=============================================================================
