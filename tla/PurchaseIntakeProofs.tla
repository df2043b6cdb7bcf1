------------------------ MODULE PurchaseIntakeProofs -------------------------
(***************************************************************************)
(* Theorems about PurchaseIntake, for any requests, keys, orders and calls.*)
(***************************************************************************)
EXTENDS PurchaseIntakeProperties, TLAPS

(* A request that is being served has a call, and no answer yet.           *)
CallInv ==
    \A r \in Requests :
        /\ pc[r] # "new" => call[r] \in Calls
        /\ answer[r] # "none" <=> pc[r] = "answered"

(* A row is pending for the one request that has inserted it, and only     *)
(* while there is no other row.                                            *)
PendingInv ==
    /\ \A r \in Requests, k \in Keys :
           pending[k] = r => pc[r] = "inserted" /\ call[r].key = k
    /\ \A r \in Requests :
           pc[r] = "inserted" => pending[call[r].key] = r /\ purchase[call[r].key] = NoRow

(* What a request found or committed is still there when it answers, and a *)
(* committed row is that of a request which is past its commit.            *)
RowInv ==
    /\ \A r \in Requests : pc[r] = "existing" => purchase[call[r].key] # NoRow
    /\ \A r \in Requests : pc[r] = "committed" => purchase[call[r].key] = NewRow(r)
    /\ \A k \in Keys : purchase[k] # NoRow => pc[purchase[k].id] \in {"committed", "answered"}

(* Whoever was accepted under a key was accepted for the purchase the key  *)
(* stands for, and ordered what that purchase orders.                      *)
AcceptedInv ==
    \A r \in Requests :
        answer[r] = "accepted" =>
            /\ found[r] \in Requests
            /\ purchase[call[r].key] = [id |-> found[r], order |-> call[r].order]

NoErrors == \A r \in Requests : answer[r] # "error"

IInv == TypeOK /\ CallInv /\ PendingInv /\ RowInv /\ AcceptedInv /\ NoErrors

(* What a call is made of.                                                 *)
LEMMA CallType ==
  ASSUME NEW c \in Calls
  PROVE  c.key \in Keys /\ c.order \in Orders
  BY CallsAssumption

(* No row of a request is mistaken for none.                               *)
LEMMA NoRowIsNone == NoRow \notin Row
  BY NoRequestAssumption DEF NoRow, Row

(* Before the first request nothing is ordered, pending or answered.       *)
LEMMA InitIInv == Init => IInv
  BY NoRequestAssumption DEF Init, IInv, TypeOK, CallInv, PendingInv, RowInv,
     AcceptedInv, NoErrors

(* A request arrives: it is refused before any row is touched, or goes on. *)
LEMMA ReceiveStep ==
  ASSUME IInv, NEW r \in Requests, NEW c \in Calls, Receive(r, c)
  PROVE  IInv'
<1>1. TypeOK'
  BY DEF IInv, TypeOK, Receive, Goto, Answer
<1>2. CallInv'
  BY DEF IInv, TypeOK, CallInv, Receive, Goto, Answer
<1>3. PendingInv'
  BY DEF IInv, TypeOK, PendingInv, Receive, Goto, Answer
<1>4. RowInv'
  BY DEF IInv, TypeOK, RowInv, Receive, Goto, Answer, NewRow, Row
<1>5. AcceptedInv'
  BY DEF IInv, TypeOK, CallInv, AcceptedInv, Receive, Answer
<1>6. NoErrors'
  BY DEF IInv, TypeOK, NoErrors, Receive, Answer
<1> QED  BY <1>1, <1>2, <1>3, <1>4, <1>5, <1>6 DEF IInv

(* The insert takes the key while no other transaction has it, or finds    *)
(* the row that is there.                                                  *)
LEMMA InsertStep ==
  ASSUME IInv, NEW r \in Requests, Insert(r)
  PROVE  IInv'
<1>1. TypeOK'
  BY DEF IInv, TypeOK, Insert, Goto
<1>2. CallInv'
  BY DEF IInv, TypeOK, CallInv, Insert, Goto
<1>3. PendingInv'
  BY CallType, NoRequestAssumption DEF IInv, TypeOK, CallInv,
     PendingInv, Insert, Goto
<1>4. RowInv'
  BY DEF IInv, TypeOK, RowInv, Insert, Goto, NewRow, Row
<1>5. AcceptedInv'
  BY DEF IInv, AcceptedInv, Insert
<1>6. NoErrors'
  BY DEF IInv, NoErrors, Insert
<1> QED  BY <1>1, <1>2, <1>3, <1>4, <1>5, <1>6 DEF IInv

(* The commit turns the pending row of a key without a row into its row,   *)
(* so that no accepted answer loses the purchase it names.                 *)
LEMMA CommitStep ==
  ASSUME IInv, NEW r \in Requests, Commit(r)
  PROVE  IInv'
<1>1. TypeOK'
  BY CallType DEF IInv, TypeOK, CallInv, Commit, Goto, EndInsert,
     NewRow, Row
<1>2. CallInv'
  BY DEF IInv, CallInv, Commit, Goto
<1>3. PendingInv'
  BY CallType, NoRequestAssumption DEF IInv, TypeOK, CallInv,
     PendingInv, Commit, Goto, EndInsert
<1>4. RowInv'
  BY CallType, NoRowIsNone DEF IInv, TypeOK, CallInv, PendingInv, RowInv, Commit,
     Goto, NewRow, Row
<1>5. AcceptedInv'
  BY CallType, NoRowIsNone DEF IInv, TypeOK, CallInv, PendingInv, AcceptedInv,
     Commit, Row
<1>6. NoErrors'
  BY DEF IInv, NoErrors, Commit
<1> QED  BY <1>1, <1>2, <1>3, <1>4, <1>5, <1>6 DEF IInv

(* The request that made a purchase is told of the row it committed.       *)
LEMMA RespondStep ==
  ASSUME IInv, NEW r \in Requests, Respond(r)
  PROVE  IInv'
<1>1. TypeOK'
  BY DEF IInv, TypeOK, Respond, Goto, Answer
<1>2. CallInv'
  BY DEF IInv, TypeOK, CallInv, Respond, Goto, Answer
<1>3. PendingInv'
  BY DEF IInv, PendingInv, Respond, Goto, Answer
<1>4. RowInv'
  BY DEF IInv, RowInv, Respond, Goto, Answer, NewRow
<1>5. AcceptedInv'
  BY DEF IInv, TypeOK, RowInv, AcceptedInv, Respond, Answer, NewRow
<1>6. NoErrors'
  BY DEF IInv, NoErrors, Respond, Answer
<1> QED  BY <1>1, <1>2, <1>3, <1>4, <1>5, <1>6 DEF IInv

(* A later request under the key is told of the row that is there, if it   *)
(* orders the same.                                                        *)
LEMMA LoadExistingStep ==
  ASSUME IInv, NEW r \in Requests, LoadExisting(r)
  PROVE  IInv'
<1>1. TypeOK'
  BY CallType DEF IInv, TypeOK, CallInv, LoadExisting, Goto, Answer,
     Verdict, Row
<1>2. CallInv'
  BY DEF IInv, TypeOK, CallInv, LoadExisting, Goto, Answer, Verdict
<1>3. PendingInv'
  BY DEF IInv, PendingInv, LoadExisting, Goto, Answer
<1>4. RowInv'
  BY DEF IInv, RowInv, LoadExisting, Goto, Answer, NewRow
<1>5. AcceptedInv'
  BY CallType DEF IInv, TypeOK, CallInv, AcceptedInv, LoadExisting,
     Answer, Verdict, Row
<1>6. NoErrors'
  BY DEF IInv, RowInv, NoErrors, LoadExisting, Answer, Verdict
<1> QED  BY <1>1, <1>2, <1>3, <1>4, <1>5, <1>6 DEF IInv

(* A request dies: the row it had pending goes with it, a committed one    *)
(* stays.                                                                  *)
LEMMA CrashStep ==
  ASSUME IInv, NEW r \in Requests, Crash(r)
  PROVE  IInv'
<1>1. TypeOK'
  BY DEF IInv, TypeOK, Crash, Goto, Answer, EndInsert
<1>2. CallInv'
  BY DEF IInv, TypeOK, CallInv, Crash, Goto, Answer
<1>3. PendingInv'
  BY CallType, NoRequestAssumption DEF IInv, TypeOK, CallInv,
     PendingInv, Crash, Goto, Answer, EndInsert
<1>4. RowInv'
  BY DEF IInv, RowInv, Crash, Goto, Answer, NewRow
<1>5. AcceptedInv'
  BY DEF IInv, TypeOK, AcceptedInv, Crash, Answer
<1>6. NoErrors'
  BY DEF IInv, NoErrors, Crash, Answer
<1> QED  BY <1>1, <1>2, <1>3, <1>4, <1>5, <1>6 DEF IInv

(* The permission to top up is read once per request and no row depends on *)
(* it.                                                                     *)
LEMMA ChangePermissionStep ==
  ASSUME IInv, NEW o \in Topups, ChangePermission(o)
  PROVE  IInv'
<1>1. TypeOK'
  BY DEF IInv, TypeOK, ChangePermission
<1>2. CallInv'
  BY DEF IInv, CallInv, ChangePermission
<1>3. PendingInv'
  BY DEF IInv, PendingInv, ChangePermission
<1>4. RowInv'
  BY DEF IInv, RowInv, ChangePermission, NewRow
<1>5. AcceptedInv'
  BY DEF IInv, AcceptedInv, ChangePermission
<1>6. NoErrors'
  BY DEF IInv, NoErrors, ChangePermission
<1> QED  BY <1>1, <1>2, <1>3, <1>4, <1>5, <1>6 DEF IInv

(* The invariant is inductive.                                             *)
LEMMA NextIInv == IInv /\ [Next]_vars => IInv'
<1> SUFFICES ASSUME IInv, [Next]_vars  PROVE IInv'
  OBVIOUS
<1>1. ASSUME NEW r \in Requests, NEW c \in Calls, Receive(r, c)  PROVE IInv'
  BY <1>1, ReceiveStep
<1>2. ASSUME NEW r \in Requests, Serve(r)  PROVE IInv'
  BY <1>2, InsertStep, CommitStep, RespondStep, LoadExistingStep DEF Serve
<1>3. ASSUME NEW r \in Requests, Crash(r)  PROVE IInv'
  BY <1>3, CrashStep
<1>4. ASSUME NEW o \in Topups, ChangePermission(o)  PROVE IInv'
  BY <1>4, ChangePermissionStep
<1>5. CASE UNCHANGED vars
  BY <1>5 DEF vars, IInv, TypeOK, CallInv, PendingInv, RowInv, AcceptedInv,
     NoErrors, NewRow
<1> QED  BY <1>1, <1>2, <1>3, <1>4, <1>5 DEF Next

(* Every behaviour of the intake has the invariant.                        *)
THEOREM Invariance == Spec => []IInv
  BY InitIInv, NextIInv, PTL DEF Spec

(* Keys, rows, requests and answers are well typed in every behaviour.     *)
THEOREM TypeCorrect == Spec => []TypeOK
<1>1. IInv => TypeOK
  BY DEF IInv
<1> QED  BY <1>1, Invariance, PTL

(* Two accepted requests with one key were told of one purchase, and asked *)
(* for the same order.                                                     *)
KeyMeansOnePurchase ==
    \A q, r \in Requests :
        answer[q] = "accepted" /\ answer[r] = "accepted" /\ call[q].key = call[r].key
        => found[q] = found[r] /\ call[q].order = call[r].order

(* ARCHITECTURE.md:20-21: two requests that are accepted under one key are *)
(* told of the same purchase, and asked for the same.                      *)
THEOREM OnePurchasePerKey == Spec => []KeyMeansOnePurchase
<1>1. IInv => KeyMeansOnePurchase
  <2> SUFFICES ASSUME IInv, NEW q \in Requests, NEW r \in Requests,
                      answer[q] = "accepted", answer[r] = "accepted",
                      call[q].key = call[r].key
               PROVE  found[q] = found[r] /\ call[q].order = call[r].order
    BY DEF KeyMeansOnePurchase
  <2>1. [id |-> found[q], order |-> call[q].order] = [id |-> found[r], order |-> call[r].order]
    BY DEF IInv, AcceptedInv
  <2> QED  BY <2>1
<1> QED  BY <1>1, Invariance, PTL

-----------------------------------------------------------------------------
(* A step of a request that changes no row shows the consumer what its     *)
(* answer says, or nothing.                                                *)
LEMMA SilentStep ==
  ASSUME IInv, purchase' = purchase, Replies' = Replies
  PROVE  UNCHANGED Book!bookVars
  BY DEF Book!bookVars

(* An answer changes what one request was told, and nothing else.          *)
LEMMA AnswerReplies ==
  ASSUME TypeOK, NEW r \in Requests, NEW a \in {"not_allowed", "accepted", "conflict"},
         NEW id, answer[r] = "none", Answer(r, a, id),
         \A q \in Requests \ {r} : call'[q] = call[q]
  PROVE  /\ Replies[r] = NoReply
         /\ Replies' = [Replies EXCEPT ![r] = [key |-> call'[r].key, order |-> call'[r].order,
                                              says |-> a, purchase |-> id]]
  BY DEF TypeOK, Replies, Answer

(* A request that is told nothing is silent.                               *)
LEMMA NoAnswer ==
  ASSUME TypeOK, NEW r \in Requests, answer[r] = "none",
         UNCHANGED <<answer, found>>, \A q \in Requests \ {r} : call'[q] = call[q]
  PROVE  Replies' = Replies
  BY DEF TypeOK, Replies

(* The consumer sees a refused topup, or nothing.                          *)
LEMMA ReceiveShows ==
  ASSUME IInv, NEW r \in Requests, NEW c \in Calls, Receive(r, c)
  PROVE  [Book!BookNext]_Book!bookVars
<1>1. answer[r] = "none" /\ TypeOK /\ call'[r] = c /\ \A q \in Requests \ {r} : call'[q] = call[q]
  BY DEF IInv, TypeOK, CallInv, Receive
<1>2. CASE c.order \in Topups /\ ~ topup_allowed[c.order]
  <2>1. Answer(r, "not_allowed", NoRequest) /\ purchase' = purchase
    BY <1>2 DEF Receive
  <2>2. Book!Refuse(r, c.key, c.order)
    BY <1>1, <1>2, <2>1, AnswerReplies DEF Book!Refuse, Book!Reply
  <2> QED  BY <2>2, CallType DEF Book!BookNext
<1>3. CASE ~ (c.order \in Topups /\ ~ topup_allowed[c.order])
  <2>1. UNCHANGED <<answer, found>> /\ purchase' = purchase
    BY <1>3 DEF Receive
  <2> QED  BY <1>1, <2>1, NoAnswer, SilentStep
<1> QED  BY <1>2, <1>3

(* The commit enters the key's first and only entry.                       *)
LEMMA CommitShows ==
  ASSUME IInv, NEW r \in Requests, Commit(r)
  PROVE  [Book!BookNext]_Book!bookVars
<1>1. answer[r] = "none" /\ TypeOK /\ call[r] \in Calls /\ purchase[call[r].key] = NoRow
  BY DEF IInv, CallInv, PendingInv, Commit
<1>2. Replies' = Replies
  BY <1>1, NoAnswer DEF Commit
<1>3. \A j \in Keys : purchase[j] # NoRow => purchase[j].id # r
  BY DEF IInv, RowInv, Commit
<1>4. Book!Enter(r, call[r].key, call[r].order)
  BY <1>1, <1>2, <1>3 DEF Book!Enter, Commit, NewRow
<1> QED  BY <1>1, <1>4, CallType DEF Book!BookNext

(* The maker of a purchase is told of its own entry.                       *)
LEMMA RespondShows ==
  ASSUME IInv, NEW r \in Requests, Respond(r)
  PROVE  [Book!BookNext]_Book!bookVars
<1>1. /\ answer[r] = "none" /\ TypeOK /\ call[r] \in Calls
      /\ purchase[call[r].key] = NewRow(r) /\ NewRow(r) # NoRow
  BY NoRequestAssumption DEF IInv, CallInv, RowInv, Respond, NewRow, NoRow
<1>2. Answer(r, "accepted", r) /\ UNCHANGED <<purchase, call>>
  BY DEF Respond
<1>3. Book!Accept(r, call[r].key, call[r].order)
  BY <1>1, <1>2, AnswerReplies DEF Book!Accept, Book!Reply, NewRow
<1> QED  BY <1>1, <1>3, CallType DEF Book!BookNext

(* A repetition is told of the entry, another order is a conflict, and     *)
(* nothing else can be answered.                                           *)
LEMMA LoadExistingShows ==
  ASSUME IInv, NEW r \in Requests, LoadExisting(r)
  PROVE  [Book!BookNext]_Book!bookVars
<1> DEFINE row == purchase[call[r].key]
<1>1. answer[r] = "none" /\ TypeOK /\ call[r] \in Calls /\ row # NoRow
  BY DEF IInv, CallInv, RowInv, LoadExisting
<1>2. UNCHANGED <<purchase, call>>
  BY DEF LoadExisting
<1>3. CASE row.order = call[r].order
  <2>1. Answer(r, "accepted", row.id)
    BY <1>1, <1>3 DEF LoadExisting, Verdict
  <2>2. Book!Accept(r, call[r].key, call[r].order)
    BY <1>1, <1>2, <1>3, <2>1, AnswerReplies DEF Book!Accept, Book!Reply
  <2> QED  BY <1>1, <2>2, CallType DEF Book!BookNext
<1>4. CASE row.order # call[r].order
  <2>1. Answer(r, "conflict", NoRequest)
    BY <1>1, <1>4 DEF LoadExisting, Verdict
  <2>2. Book!Conflict(r, call[r].key, call[r].order)
    BY <1>1, <1>2, <1>4, <2>1, AnswerReplies DEF Book!Conflict, Book!Reply
  <2> QED  BY <1>1, <2>2, CallType DEF Book!BookNext
<1> QED  BY <1>3, <1>4

(* A lost answer is none.                                                  *)
LEMMA CrashShows ==
  ASSUME IInv, NEW r \in Requests, Crash(r)
  PROVE  [Book!BookNext]_Book!bookVars
<1>1. answer[r] = "none" /\ UNCHANGED <<purchase, call>>
  BY DEF IInv, CallInv, Crash
<1>2. Replies' = Replies
  BY <1>1 DEF Replies, Crash, Answer
<1> QED  BY <1>1, <1>2, SilentStep

(* ARCHITECTURE.md:20-21: the transactions, retries and crashes of intake  *)
(* amount to a book in which each key is entered once.                     *)
THEOREM IntakeImplementsOrderBook == Spec => ImplementsOrderBook
<1>1. Init => Book!BookInit
  BY DEF Init, Book!BookInit, Replies
<1>2. IInv /\ [Next]_vars => [Book!BookNext]_Book!bookVars
  <2> SUFFICES ASSUME IInv, [Next]_vars  PROVE [Book!BookNext]_Book!bookVars
    OBVIOUS
  <2>1. ASSUME NEW r \in Requests, Insert(r)  PROVE [Book!BookNext]_Book!bookVars
    <3>1. UNCHANGED <<purchase, answer, found, call>>
      BY <2>1 DEF Insert
    <3> QED  BY <3>1, SilentStep DEF Replies
  <2>2. ASSUME NEW o \in Topups, ChangePermission(o)  PROVE [Book!BookNext]_Book!bookVars
    <3>1. UNCHANGED <<purchase, answer, found, call>>
      BY <2>2 DEF ChangePermission
    <3> QED  BY <3>1, SilentStep DEF Replies
  <2>3. CASE UNCHANGED vars
    BY <2>3, SilentStep DEF vars, Replies
  <2> QED  BY <2>1, <2>2, <2>3, ReceiveShows, CommitShows, RespondShows, LoadExistingShows,
              CrashShows DEF Next, Serve
<1> QED  BY <1>1, <1>2, Invariance, PTL DEF Spec, ImplementsOrderBook, Book!BookSpec

=============================================================================
