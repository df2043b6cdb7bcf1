------------------------ MODULE AirpayJobsProperties -------------------------
(***************************************************************************)
(* What must hold of AirpayJobs.                                           *)
(***************************************************************************)
EXTENDS AirpayJobs

(* airpay_jobs.py:129, "a free lock does not prove that nothing was paid": *)
(* a job that moves money or fetches codes is begun once, whatever crashes,*)
(* breaks or is scanned again.                                             *)
SensitiveRunsOnce == \A j \in Jobs : action[j] \in Sensitive => runs[j] <= 1

(* airpay_jobs.py:66, "only a run that has not begun is cancelled": the    *)
(* owner who was told so finds that the action never began and never will. *)
CancelledNeverRuns == \A j \in Jobs : state[j] = "cancelled" => runs[j] = 0

(* An outcome that was shown stands, though workers that have lost their   *)
(* lock and been replaced may still come back with another.                *)
EndedIsFinal == [][\A j \in Jobs : state[j] \in Ended => state'[j] = state[j]]_vars

(* airpay_batch.py:109, "the lock of the batch lets no two buy at once":   *)
(* two locks stand between two workers and one batch, and neither alone is *)
(* enough to lose.  A worker without its job is kept from the batch, or    *)
(* keeps its successor from it, and while a job is held nothing else is    *)
(* enqueued for a batch whose lock is gone.  When both are lost two do work*)
(* at once, and only the locks of the operations are left (AirpayBatch).   *)
WorkedAlone ==
    \A v, w \in Workers :
        v # w /\ pc[v] = "working" /\ pc[w] = "working" /\ batch[current[v]] = batch[current[w]]
            => /\ ~ (connected[v] /\ connected[w])
               /\ ~ (guarded[v] /\ guarded[w])

(* airpay_jobs.py:117, 106: the lock of a job outlives its commits but not *)
(* its worker, so what is running ends, even payments that were interrupted*)
(* and that nobody is allowed to continue.  docs/AIRPAY.md:119: nor is a   *)
(* confirmed job forgotten, once payments are allowed for good.            *)
JobsEnd ==
    \A j \in Jobs :
        /\ state[j] = "running" ~> state[j] \in Ended
        /\ (state[j] = "queued" /\ [](\A w \in Workers : enabled[w])) ~> state[j] \in Ended

(* docs/AIRPAY.md:119, "confirmed queued jobs are executed when payment is *)
(* allowed": none fails only because someone else held the batch's lock at *)
(* that moment.                                                            *)
ConfirmedRun == \A j \in Jobs : state[j] # "busy"
=============================================================================
