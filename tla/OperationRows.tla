---------------------------- MODULE OperationRows ----------------------------
(***************************************************************************)
(* What becomes of Airpay operations, as their rows in the journal tell it,*)
(* with no lock, handler, request or batch in it: an operation is checked, *)
(* committed for payment while its price is fresh, and gets one outcome.   *)
(*                                                                         *)
(* AirpayPurchase has one operation's requests to Airpay, its recovery and *)
(* its owner in detail; AirpayBatch has the batches that operations are    *)
(* bought in, and takes the outcome of each in one step.  Both implement   *)
(* this specification: each does to the rows what the other expects of it. *)
(***************************************************************************)
CONSTANT Operations

VARIABLES stage,    \* what the row says of an operation
          expired   \* its price is out of date

journalVars == <<stage, expired>>

JournalInit ==
    /\ stage = [o \in Operations |-> "absent"]
    /\ expired = [o \in Operations |-> FALSE]

Becomes(o, s) ==
    /\ stage' = [stage EXCEPT ![o] = s]
    /\ UNCHANGED expired

Insert(o) == stage[o] = "absent" /\ Becomes(o, "prepared")

CheckEnds(o, verdict) == stage[o] = "prepared" /\ Becomes(o, verdict)

Commit(o) == stage[o] = "checked" /\ ~ expired[o] /\ Becomes(o, "processing")

PaymentEnds(o, outcome) == stage[o] = "processing" /\ Becomes(o, outcome)

Expire(S) ==
    /\ expired' = [o \in Operations |-> expired[o] \/ o \in S]
    /\ UNCHANGED stage

JournalNext ==
    \/ \E o \in Operations :
          \/ Insert(o)
          \/ \E verdict \in {"checked", "refused"} : CheckEnds(o, verdict)
          \/ Commit(o)
          \/ \E outcome \in {"paid", "failed"} : PaymentEnds(o, outcome)
    \/ \E S \in SUBSET Operations : Expire(S)

JournalSpec == JournalInit /\ [][JournalNext]_journalVars
=============================================================================
