--------------------------- MODULE PurchaseIntake ---------------------------
(***************************************************************************)
(* Orders that consumers place with Supplier Hub: POST /v1/purchases.      *)
(* HubPurchases places an order in one step; here every statement is one,  *)
(* with the unique index on consumer and idempotency key that the insert   *)
(* relies on, and requests are repeated while earlier ones still run.      *)
(*                                                                         *)
(* A request is served once; its repetition is another request with the    *)
(* same call.  Requests that fail authentication or the validation of      *)
(* their fields change nothing and are left out, and so are the columns    *)
(* that no request compares.                                               *)
(*                                                                         *)
(* A definition named Slip_... is a plausible programming slip; it stands  *)
(* before the definition it would replace and no action uses it.           *)
(*                                                                         *)
(* Sources: api/hub/app.py, api/hub/service.py, api/hub/repository.py.     *)
(***************************************************************************)

CONSTANTS
    Requests,       \* HTTP requests that are served; each one draws a purchase id
    Keys,           \* pairs of consumer_id and idempotency_key
    Orders,         \* what request_fingerprint tells apart
    Topups,         \* orders of kind steam_topup
    Calls,          \* what consumers ask for
    NoRequest

ASSUME TopupsAssumption == Topups \subseteq Orders
ASSUME CallsAssumption == Calls \subseteq [key : Keys, order : Orders]
ASSUME NoRequestAssumption == NoRequest \notin Requests

VARIABLES
    purchase,       \* committed rows of purchases, by key
    pending,        \* the request whose inserted row is not committed
    topup_allowed,  \* the switch and the permission of a topup's workspace
    pc, call,       \* the requests
    answer, found   \* what they are told, and about which purchase

vars == <<purchase, pending, topup_allowed, pc, call, answer, found>>

NoCall == [key |-> "none", order |-> "none"]
NoRow == [id |-> NoRequest, order |-> "none"]
Row == [id : Requests, order : Orders]

TypeOK ==
    /\ purchase \in [Keys -> Row \cup {NoRow}]
    /\ pending \in [Keys -> Requests \cup {NoRequest}]
    /\ topup_allowed \in [Topups -> BOOLEAN]
    /\ pc \in [Requests -> {"new", "permitted", "inserted", "committed", "existing", "answered"}]
    /\ call \in [Requests -> Calls \cup {NoCall}]
    /\ answer \in [Requests -> {"none", "not_allowed", "accepted", "conflict", "error", "lost"}]
    /\ found \in [Requests -> Requests \cup {NoRequest}]

Init ==
    /\ purchase = [k \in Keys |-> NoRow]
    /\ pending = [k \in Keys |-> NoRequest]
    /\ topup_allowed \in [Topups -> BOOLEAN]
    /\ pc = [r \in Requests |-> "new"]
    /\ call = [r \in Requests |-> NoCall]
    /\ answer = [r \in Requests |-> "none"]
    /\ found = [r \in Requests |-> NoRequest]

-----------------------------------------------------------------------------
Goto(r, step) == pc' = [pc EXCEPT ![r] = step]

(* The answer, and the id of the purchase it describes.                    *)
Answer(r, a, id) ==
    /\ Goto(r, "answered")
    /\ answer' = [answer EXCEPT ![r] = a]
    /\ found' = [found EXCEPT ![r] = id]

(* A topup is permitted, or not, before anything is looked up: also when   *)
(* the request repeats one that was accepted.                              *)
Receive(r, c) ==
    /\ pc[r] = "new"
    /\ call' = [call EXCEPT ![r] = c]
    /\ IF c.order \in Topups /\ ~ topup_allowed[c.order]
       THEN Answer(r, "not_allowed", NoRequest)
       ELSE Goto(r, "permitted") /\ UNCHANGED <<answer, found>>
    /\ UNCHANGED <<purchase, pending, topup_allowed>>

(* INSERT ... ON CONFLICT DO NOTHING waits for another transaction that    *)
(* has inserted the key; it inserts when that rolls back, else it skips.   *)
Insert(r) ==
    LET k == call[r].key IN
    /\ pc[r] = "permitted"
    /\ pending[k] = NoRequest
    /\ IF purchase[k] = NoRow
       THEN Goto(r, "inserted") /\ pending' = [pending EXCEPT ![k] = r]
       ELSE Goto(r, "existing") /\ UNCHANGED pending
    /\ UNCHANGED <<purchase, topup_allowed, call, answer, found>>

(* The transaction that inserted a row ends.                               *)
Slip_LeftOpen(r) == UNCHANGED pending
EndInsert(r) == pending' = [k \in Keys |-> IF pending[k] = r THEN NoRequest ELSE pending[k]]

(* The row and its event become visible in one commit.                     *)
NewRow(r) == [id |-> r, order |-> call[r].order]
Commit(r) ==
    /\ pc[r] = "inserted"
    /\ purchase' = [purchase EXCEPT ![call[r].key] = NewRow(r)]
    /\ EndInsert(r)
    /\ Goto(r, "committed")
    /\ UNCHANGED <<topup_allowed, call, answer, found>>

Respond(r) ==
    /\ pc[r] = "committed"
    /\ Answer(r, "accepted", r)
    /\ UNCHANGED <<purchase, pending, topup_allowed, call>>

(* What a row that was there before is answered with: the same order is a  *)
(* repetition, another one misuses the key.                                *)
Slip_KeyIsEnough(row, order) == IF row = NoRow THEN "error" ELSE "accepted"
Verdict(row, order) ==
    CASE row = NoRow -> "error"
      [] row # NoRow /\ row.order = order -> "accepted"
      [] OTHER -> "conflict"

LoadExisting(r) ==
    LET row == purchase[call[r].key]
        a == Verdict(row, call[r].order)
    IN
    /\ pc[r] = "existing"
    /\ Answer(r, a, IF a = "accepted" THEN row.id ELSE NoRequest)
    /\ UNCHANGED <<purchase, pending, topup_allowed, call>>

-----------------------------------------------------------------------------
(* The API process dies, or the answer is lost on its way; a transaction   *)
(* that is open rolls back.                                                *)
Crash(r) ==
    /\ pc[r] \notin {"new", "answered"}
    /\ EndInsert(r)
    /\ Answer(r, "lost", NoRequest)
    /\ UNCHANGED <<purchase, topup_allowed, call>>

(* An administrator edits topup_permissions.                               *)
ChangePermission(o) ==
    /\ topup_allowed' = [topup_allowed EXCEPT ![o] = ~ @]
    /\ UNCHANGED <<purchase, pending, pc, call, answer, found>>

-----------------------------------------------------------------------------
Serve(r) == Insert(r) \/ Commit(r) \/ Respond(r) \/ LoadExisting(r)

Next ==
    \/ \E r \in Requests : \/ \E c \in Calls : Receive(r, c)
                           \/ Serve(r)
                           \/ Crash(r)
    \/ \E o \in Topups : ChangePermission(o)

Spec == Init /\ [][Next]_vars

(* Threads of the API run, and PostgreSQL wakes those that wait.           *)
FairSpec == Spec /\ \A r \in Requests : WF_vars(Serve(r))
=============================================================================
