-------------------------- MODULE AirpayDiagnostics --------------------------
(***************************************************************************)
(* The diagnostic survey of the Airpay catalogue: a run lists the services *)
(* at its start, and each request of the owner asks Airpay about the next  *)
(* one.  There is one session lock for all of it, and the connection that  *)
(* holds the lock also carries every statement; between two statements the *)
(* handler may die, or lose its connection while it waits for Airpay.      *)
(*                                                                         *)
(* Runs belong to one owner here: what another owner sees of them is a 404 *)
(* or a 409, which changes nothing.  Requests that are answered without a  *)
(* change (a repeated start, a run that has ended, a lock that is held)    *)
(* are left out.                                                           *)
(*                                                                         *)
(* A definition named Slip_... is a plausible programming slip; it stands  *)
(* before the definition it would replace and no action uses it.           *)
(*                                                                         *)
(* Source: api/airpay_runtime/airpay_diagnostics.py and the migration      *)
(* 20260926_01_airpay_diagnostics.sql.                                     *)
(***************************************************************************)
EXTENDS Naturals

CONSTANTS
    Runs,          \* UUIDs that the owner's page draws for a survey
    Handlers,      \* API threads
    MaxServices,   \* bound on the catalogue, 2000 in the code
    MaxFailures,   \* bound on dying handlers and lost connections
    NoRun, NoHandler

ASSUME NoRunAssumption == NoRun \notin Runs
ASSUME NoHandlerAssumption == NoHandler \notin Handlers
ASSUME BoundsAssumption == MaxServices \in Nat \ {0} /\ MaxFailures \in Nat

VARIABLES
    run,        \* state of the rows of airpay_diagnostic_runs
    item,       \* state of the rows of airpay_diagnostic_items, by position
    recent,     \* an item of the run has finished_at within the last second
    lock,       \* the handler whose session holds DIAGNOSTIC_LOCK
    pc,
    work,       \* the run that the handler serves
    asked,      \* the position the handler has taken
    checks,     \* check requests sent about a position
    failures

runVars == <<run, item, recent>>
handlerVars == <<pc, work, asked>>
vars == <<runVars, lock, handlerVars, checks, failures>>

Positions == 1 .. MaxServices
Ended == {"reported", "interrupted"}

TypeOK ==
    /\ run \in [Runs -> {"absent", "active", "completed", "cancelled"}]
    /\ item \in [Runs -> [Positions -> {"absent", "pending", "running"} \cup Ended]]
    /\ recent \in [Runs -> BOOLEAN]
    /\ lock \in Handlers \cup {NoHandler}
    /\ pc \in [Handlers -> {"idle", "listing", "sweeping", "picking", "asking",
                            "checking", "saving", "closing"}]
    /\ work \in [Handlers -> Runs \cup {NoRun}]
    /\ asked \in [Handlers -> {0} \cup Positions]
    /\ checks \in [Runs -> [Positions -> Nat]]
    /\ failures \in 0 .. MaxFailures

Init ==
    /\ run = [r \in Runs |-> "absent"]
    /\ item = [r \in Runs |-> [i \in Positions |-> "absent"]]
    /\ recent = [r \in Runs |-> FALSE]
    /\ lock = NoHandler
    /\ pc = [h \in Handlers |-> "idle"]
    /\ work = [h \in Handlers |-> NoRun]
    /\ asked = [h \in Handlers |-> 0]
    /\ checks = [r \in Runs |-> [i \in Positions |-> 0]]
    /\ failures = 0

-----------------------------------------------------------------------------
Goto(h, step) == pc' = [pc EXCEPT ![h] = step]

Acquire(h, r, step) ==
    /\ pc[h] = "idle"
    /\ lock = NoHandler
    /\ lock' = h
    /\ Goto(h, step)
    /\ work' = [work EXCEPT ![h] = r]

(* The request ends, and with its connection the lock.                     *)
Release(h) ==
    /\ lock' = IF lock = h THEN NoHandler ELSE lock
    /\ Goto(h, "idle")
    /\ work' = [work EXCEPT ![h] = NoRun]
    /\ asked' = [asked EXCEPT ![h] = 0]

(* Statements go through the connection that holds the lock.               *)
Slip_AnyConnection(h) == TRUE
Connected(h) == lock = h

-----------------------------------------------------------------------------
(* start                                                                   *)

BeginStart(h, r) ==
    /\ run[r] = "absent"
    /\ \A q \in Runs : run[q] # "active"
    /\ Acquire(h, r, "listing")
    /\ UNCHANGED <<runVars, asked, checks, failures>>

(* The catalogue has arrived; the run and its items are one transaction.   *)
Create(h) ==
    LET r == work[h] IN
    /\ pc[h] = "listing"
    /\ Connected(h)
    /\ \A q \in Runs : run[q] # "active"      \* airpay_diagnostic_one_active
    /\ run' = [run EXCEPT ![r] = "active"]
    /\ \E n \in Positions :
           item' = [item EXCEPT ![r] = [i \in Positions |-> IF i <= n THEN "pending" ELSE "absent"]]
    /\ Release(h)
    /\ UNCHANGED <<recent, checks, failures>>

(* No catalogue, an empty one or one that is too large.                    *)
RefuseCatalogue(h) ==
    /\ pc[h] = "listing"
    /\ Release(h)
    /\ UNCHANGED <<runVars, checks, failures>>

-----------------------------------------------------------------------------
(* cancel, which calls nobody.                                             *)
Cancel(r) ==
    /\ lock = NoHandler
    /\ run[r] = "active"
    /\ run' = [run EXCEPT ![r] = "cancelled"]
    /\ UNCHANGED <<item, recent, lock, handlerVars, checks, failures>>

-----------------------------------------------------------------------------
(* step                                                                    *)

BeginStep(h, r) ==
    /\ run[r] = "active"
    /\ Acquire(h, r, "sweeping")
    /\ UNCHANGED <<runVars, asked, checks, failures>>

(* What a lost step left running is not repeated.                          *)
Slip_AskAgain(s) == IF s = "running" THEN "pending" ELSE s
Swept(s) == IF s = "running" THEN "interrupted" ELSE s

Sweep(h) ==
    LET r == work[h] IN
    /\ pc[h] = "sweeping"
    /\ Connected(h)
    /\ item' = [item EXCEPT ![r] = [i \in Positions |-> Swept(@[i])]]
    /\ recent' = [recent EXCEPT ![r] = @ \/ \E i \in Positions : item[r][i] = "running"]
    /\ Goto(h, "picking")
    /\ UNCHANGED <<run, lock, work, asked, checks, failures>>

(* Airpay is given a second between two checks.                            *)
Pause(h) ==
    /\ pc[h] = "picking"
    /\ Connected(h)
    /\ recent[work[h]]
    /\ Release(h)
    /\ UNCHANGED <<runVars, checks, failures>>

Pending(r) == {i \in Positions : item[r][i] = "pending"}

Pick(h) ==
    LET r == work[h] IN
    /\ pc[h] = "picking"
    /\ Connected(h)
    /\ ~ recent[r]
    /\ \/ /\ Pending(r) = {}
          /\ Goto(h, "closing")
          /\ UNCHANGED <<item, asked>>
       \/ \E i \in Pending(r) :
             /\ \A j \in Pending(r) : i <= j
             /\ item' = [item EXCEPT ![r][i] = "running"]
             /\ asked' = [asked EXCEPT ![h] = i]
             /\ Goto(h, "asking")
    /\ UNCHANGED <<run, recent, lock, work, checks, failures>>

(* Of a service whose fields do not fit nothing is asked; its description, *)
(* the check and their errors need no connection to the database.          *)
Ask(h) ==
    /\ pc[h] = "asking"
    /\ \/ /\ checks' = [checks EXCEPT ![work[h]][asked[h]] = @ + 1]
          /\ Goto(h, "checking")
       \/ /\ Goto(h, "saving")
          /\ UNCHANGED checks
    /\ UNCHANGED <<runVars, lock, work, asked, failures>>

Answered(h) ==
    /\ pc[h] = "checking"
    /\ Goto(h, "saving")
    /\ UNCHANGED <<runVars, lock, work, asked, checks, failures>>

Save(h) ==
    LET r == work[h] IN
    /\ pc[h] = "saving"
    /\ Connected(h)
    /\ item' = [item EXCEPT ![r][asked[h]] = "reported"]
    /\ recent' = [recent EXCEPT ![r] = TRUE]
    /\ Goto(h, "closing")
    /\ UNCHANGED <<run, lock, work, asked, checks, failures>>

Slip_AllReported(r) ==
    IF \A i \in Positions : item[r][i] \in {"absent", "reported"} THEN "completed" ELSE "active"
Progress(r) == IF Pending(r) = {} THEN "completed" ELSE "active"

(* The state is written whatever it was when the step began.               *)
Close(h) ==
    /\ pc[h] = "closing"
    /\ Connected(h)
    /\ run' = [run EXCEPT ![work[h]] = Progress(work[h])]
    /\ Release(h)
    /\ UNCHANGED <<item, recent, checks, failures>>

-----------------------------------------------------------------------------
(* A statement on a broken connection raises.                              *)
Fail(h) ==
    /\ pc[h] \in {"listing", "sweeping", "picking", "saving", "closing"}
    /\ ~ Connected(h)
    /\ Release(h)
    /\ UNCHANGED <<runVars, checks, failures>>

(* The process dies; a request it has sent is answered to nobody.          *)
Dies(h) ==
    /\ pc[h] # "idle"
    /\ failures < MaxFailures
    /\ failures' = failures + 1
    /\ Release(h)
    /\ UNCHANGED <<runVars, checks>>

Disconnect(h) ==
    /\ lock = h
    /\ failures < MaxFailures
    /\ failures' = failures + 1
    /\ lock' = NoHandler
    /\ UNCHANGED <<runVars, handlerVars, checks>>

SecondPasses(r) ==
    /\ recent[r]
    /\ recent' = [recent EXCEPT ![r] = FALSE]
    /\ UNCHANGED <<run, item, lock, handlerVars, checks, failures>>

-----------------------------------------------------------------------------
HandlerStep(h) ==
    \/ Create(h) \/ RefuseCatalogue(h)
    \/ Sweep(h) \/ Pause(h) \/ Pick(h) \/ Ask(h) \/ Answered(h) \/ Save(h) \/ Close(h)
    \/ Fail(h)

Next ==
    \/ \E h \in Handlers :
          \/ \E r \in Runs : BeginStart(h, r) \/ BeginStep(h, r)
          \/ HandlerStep(h) \/ Dies(h) \/ Disconnect(h)
    \/ \E r \in Runs : Cancel(r) \/ SecondPasses(r)

Spec == Init /\ [][Next]_vars

(* Requests end (Airpay's answer has a timeout), time passes, and the page *)
(* asks for the next step of a run as long as it is active.                *)
Fairness ==
    /\ \A h \in Handlers : WF_vars(HandlerStep(h))
    /\ \A r \in Runs : WF_vars(SecondPasses(r)) /\ WF_vars(\E h \in Handlers : BeginStep(h, r))

FairSpec == Spec /\ Fairness
=============================================================================
