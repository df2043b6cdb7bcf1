---------------------------- MODULE OperatorDesk -----------------------------
(***************************************************************************)
(* Operators at work on the purchases of Supplier Hub: requests that close *)
(* a purchase which requires attention, and requests that read the code of *)
(* one that succeeded.  HubPurchases takes such a decision in one step;    *)
(* here every statement of the transaction is one, with the row locks and  *)
(* the unique indexes of PostgreSQL (read committed) on which it relies.   *)
(*                                                                         *)
(* A request is served once; its repetition is another request with the    *)
(* same call.  Requests that fail validation, or name no purchase, change  *)
(* nothing and are left out.  Reasons are left out of the fingerprint.     *)
(*                                                                         *)
(* A definition named Slip_... is a plausible programming slip; it stands  *)
(* before the definition it would replace and no action uses it.           *)
(*                                                                         *)
(* Sources: api/hub/repository.py, api/hub/operator_service.py.            *)
(***************************************************************************)
EXTENDS Naturals, FiniteSets

CONSTANTS
    Requests,           \* HTTP requests that are served
    Keys,               \* pairs of operator_id and X-Request-ID
    Purchases,
    Topups,             \* those without a code
    Codes,
    Calls,              \* what operators ask for
    NoCode, NoPurchase

ASSUME TopupsAssumption == Topups \subseteq Purchases
ASSUME NoCodeAssumption == NoCode \notin Codes
ASSUME NoPurchaseAssumption == NoPurchase \notin Purchases

VARIABLES
    state, result_hash,     \* columns of purchases
    holders,                \* requests with a lock on the row
    actions,                \* committed rows of operator_actions
    accesses,               \* committed rows of result_access_events, by key
    pc, call, answer        \* the requests

rowVars == <<state, result_hash>>
logVars == <<actions, accesses>>
vars == <<rowVars, holders, logVars, pc, call, answer>>

(* A recovered code comes with every success but that of a topup.          *)
Resolution ==
    {c \in [key : Keys, purchase : Purchases,
            decision : {"failed", "succeeded"}, code : Codes \cup {NoCode}] :
        c.code # NoCode <=> c.decision = "succeeded" /\ c.purchase \notin Topups}
Reading == [key : Keys, purchase : Purchases, decision : {"read"}, code : {NoCode}]
ASSUME CallsAssumption == Calls \subseteq Resolution \cup Reading

NoCall == [key |-> "none", purchase |-> NoPurchase, decision |-> "none", code |-> NoCode]

TypeOK ==
    /\ state \in [Purchases -> {"processing", "requires_attention", "succeeded", "failed"}]
    /\ result_hash \in [Purchases -> Codes \cup {NoCode}]
    /\ holders \in [Purchases -> SUBSET Requests]
    /\ actions \in SUBSET Resolution
    /\ accesses \in [Keys -> Purchases \cup {NoPurchase}]
    /\ pc \in [Requests -> {"new", "locking", "locked", "updated", "inserted",
                            "reading", "audited", "answered"}]
    /\ call \in [Requests -> Calls \cup {NoCall}]
    /\ answer \in [Requests -> {"none", "resolved", "repeated", "conflict", "not_awaiting",
                                "duplicate", "unavailable", "shown", "lost"}]

Init ==
    /\ state \in [Purchases -> {"processing", "requires_attention"}]
    /\ result_hash = [p \in Purchases |-> NoCode]
    /\ holders = [p \in Purchases |-> {}]
    /\ actions = {}
    /\ accesses = [k \in Keys |-> NoPurchase]
    /\ pc = [r \in Requests |-> "new"]
    /\ call = [r \in Requests |-> NoCall]
    /\ answer = [r \in Requests |-> "none"]

-----------------------------------------------------------------------------
(* The action recorded under the key of a call, and whether it is the same *)
(* decision (action_fingerprint).                                          *)
Recorded(c) == {a \in actions : a.key = c.key}
Verdict(c) == IF c \in actions THEN "repeated" ELSE "conflict"

(* Open transactions that have written to a unique index and whose outcome *)
(* another writer of the same value must wait for.                         *)
Writing(steps) == {call[r] : r \in {q \in Requests : pc[q] \in steps}}
CodeIsPending(p, code) ==
    \E c \in Writing({"updated", "inserted"}) : c.code = code /\ c.purchase # p
CodeIsTaken(p, code) == code # NoCode /\ \E q \in Purchases \ {p} : result_hash[q] = code

Goto(r, step) == pc' = [pc EXCEPT ![r] = step]
Lock(r) == holders' = [holders EXCEPT ![call[r].purchase] = @ \cup {r}]

(* Commit or rollback: leaving "with self._connect()" closes the connection.*)
Slip_StillOpen(r, a) ==
    /\ Goto(r, "answered")
    /\ answer' = [answer EXCEPT ![r] = a]
    /\ holders' = IF a = "not_awaiting" THEN holders
                  ELSE [p \in Purchases |-> holders[p] \ {r}]
Answer(r, a) ==
    /\ Goto(r, "answered")
    /\ answer' = [answer EXCEPT ![r] = a]
    /\ holders' = [p \in Purchases |-> holders[p] \ {r}]

-----------------------------------------------------------------------------
(* POST /v1/operator/purchases/{id}/resolve.                               *)

(* The unlocked look for an earlier action answers most repetitions.       *)
Receive(r, c) ==
    /\ pc[r] = "new"
    /\ c.decision # "read"
    /\ call' = [call EXCEPT ![r] = c]
    /\ IF Recorded(c) # {}
       THEN Answer(r, Verdict(c))
       ELSE Goto(r, "locking") /\ UNCHANGED <<holders, answer>>
    /\ UNCHANGED <<rowVars, logVars>>

(* SELECT ... FOR UPDATE.                                                  *)
LockRow(r) ==
    /\ pc[r] = "locking"
    /\ holders[call[r].purchase] = {}
    /\ Lock(r)
    /\ Goto(r, "locked")
    /\ UNCHANGED <<rowVars, logVars, call, answer>>

Awaits(p) == state[p] = "requires_attention"

(* What the locked request is told without having written anything: what   *)
(* was recorded while it waited, or that there is nothing to decide.       *)
Slip_NoReread(c) == IF Awaits(c.purchase) THEN "none" ELSE "not_awaiting"
Slip_RereadOnly(c) == IF Recorded(c) # {} THEN Verdict(c) ELSE "none"
Settled(c) ==
    IF Recorded(c) # {} THEN Verdict(c)
    ELSE IF Awaits(c.purchase) THEN "none" ELSE "not_awaiting"

Refuse(r) ==
    /\ pc[r] = "locked"
    /\ Settled(call[r]) # "none"
    /\ Answer(r, Settled(call[r]))
    /\ UNCHANGED <<rowVars, logVars, call>>

(* UPDATE purchases; a code in two rows breaks the unique index.           *)
Update(r) ==
    LET c == call[r] IN
    /\ pc[r] = "locked"
    /\ Settled(c) = "none"
    /\ c.code # NoCode => ~ CodeIsPending(c.purchase, c.code)
    /\ IF CodeIsTaken(c.purchase, c.code)
       THEN Answer(r, "duplicate")
       ELSE Goto(r, "updated") /\ UNCHANGED <<holders, answer>>
    /\ UNCHANGED <<rowVars, logVars, call>>

(* INSERT INTO operator_actions; a key in two rows breaks the unique index *)
(* too, and is answered as a duplicate code is.                            *)
InsertAction(r) ==
    LET c == call[r] IN
    /\ pc[r] = "updated"
    /\ \A d \in Writing({"inserted"}) : d.key # c.key
    /\ IF Recorded(c) # {}
       THEN Answer(r, "duplicate")
       ELSE Goto(r, "inserted") /\ UNCHANGED <<holders, answer>>
    /\ UNCHANGED <<rowVars, logVars, call>>

CommitDecision(r) ==
    LET c == call[r] IN
    /\ pc[r] = "inserted"
    /\ state' = [state EXCEPT ![c.purchase] = c.decision]
    /\ result_hash' = [result_hash EXCEPT ![c.purchase] = c.code]
    /\ actions' = actions \cup {c}
    /\ Answer(r, "resolved")
    /\ UNCHANGED <<accesses, call>>

-----------------------------------------------------------------------------
(* POST /v1/operator/purchases/{id}/result.                                *)

HasCode(p) == state[p] = "succeeded" /\ result_hash[p] # NoCode

(* SELECT ... FOR SHARE of a row that has a code: readers share the lock.  *)
ReadResult(r, c) ==
    /\ pc[r] = "new"
    /\ c.decision = "read"
    /\ call' = [call EXCEPT ![r] = c]
    /\ IF HasCode(c.purchase)
       THEN /\ \A q \in holders[c.purchase] : call[q].decision = "read"
            /\ holders' = [holders EXCEPT ![c.purchase] = @ \cup {r}]
            /\ Goto(r, "reading")
            /\ UNCHANGED answer
       ELSE Answer(r, "unavailable")
    /\ UNCHANGED <<rowVars, logVars>>

(* What INSERT INTO result_access_events ON CONFLICT DO NOTHING leads to.  *)
Slip_AnyAccess(c) == IF accesses[c.key] = NoPurchase THEN "none" ELSE "shown"
AccessVerdict(c) ==
    CASE accesses[c.key] = NoPurchase -> "none"
      [] accesses[c.key] = c.purchase -> "shown"
      [] OTHER -> "conflict"

AuditAccess(r) ==
    LET c == call[r] IN
    /\ pc[r] = "reading"
    /\ \A d \in Writing({"audited"}) : d.key # c.key
    /\ IF AccessVerdict(c) = "none"
       THEN Goto(r, "audited") /\ UNCHANGED <<holders, answer>>
       ELSE Answer(r, AccessVerdict(c))
    /\ UNCHANGED <<rowVars, logVars, call>>

LogAccess(c) == accesses' = [accesses EXCEPT ![c.key] = c.purchase]

ShowResult(r) ==
    /\ pc[r] = "audited"
    /\ LogAccess(call[r])
    /\ Answer(r, "shown")
    /\ UNCHANGED <<rowVars, actions, call>>

-----------------------------------------------------------------------------
(* The API process dies, or loses its connection, before the commit: the   *)
(* database rolls the transaction back.                                    *)
Crash(r) ==
    /\ pc[r] \notin {"new", "answered"}
    /\ Answer(r, "lost")
    /\ UNCHANGED <<rowVars, logVars, call>>

(* A worker ends with a purchase (HubPurchases): with a success, or with a *)
(* failure or, on a code that another row holds or on its last status      *)
(* check, by leaving it to operators.                                      *)
WorkerSaves(p, code) ==
    /\ state[p] = "processing"
    /\ holders[p] = {}
    /\ code = NoCode <=> p \in Topups
    /\ code # NoCode => ~ CodeIsPending(p, code) /\ ~ CodeIsTaken(p, code)
    /\ state' = [state EXCEPT ![p] = "succeeded"]
    /\ result_hash' = [result_hash EXCEPT ![p] = code]
    /\ UNCHANGED <<holders, logVars, pc, call, answer>>

WorkerLeaves(p) ==
    /\ state[p] = "processing"
    /\ holders[p] = {}
    /\ \E s \in {"requires_attention", "failed"} : state' = [state EXCEPT ![p] = s]
    /\ UNCHANGED <<result_hash, holders, logVars, pc, call, answer>>

-----------------------------------------------------------------------------
Serve(r) ==
    \/ LockRow(r) \/ Refuse(r) \/ Update(r) \/ InsertAction(r) \/ CommitDecision(r)
    \/ AuditAccess(r) \/ ShowResult(r)

Next ==
    \/ \E r \in Requests : \/ \E c \in Calls : Receive(r, c) \/ ReadResult(r, c)
                           \/ Serve(r)
                           \/ Crash(r)
    \/ \E p \in Purchases : \/ \E code \in Codes \cup {NoCode} : WorkerSaves(p, code)
                            \/ WorkerLeaves(p)

Spec == Init /\ [][Next]_vars

(* Threads of the API run, and PostgreSQL wakes those that wait.           *)
FairSpec == Spec /\ \A r \in Requests : WF_vars(Serve(r))
=============================================================================
