------------------------- MODULE OperatorDeskProofs --------------------------
(***************************************************************************)
(* Theorems about OperatorDesk, for any requests, keys, purchases, codes   *)
(* and calls.                                                              *)
(***************************************************************************)
EXTENDS OperatorDeskProperties, TLAPS

Deciding == {"locked", "updated", "inserted"}
Showing == {"reading", "audited"}

(* A request that is being served has a call, and of the right kind.       *)
CallInv ==
    \A r \in Requests :
        /\ pc[r] # "new" => call[r] \in Calls
        /\ pc[r] \in Deciding \cup {"locking"} => call[r].decision # "read"
        /\ pc[r] \in Showing => call[r].decision = "read"
        /\ answer[r] # "none" => pc[r] = "answered"

(* Only requests at work hold their row; one that decides holds it alone.  *)
LockInv ==
    \A r \in Requests :
        /\ \A p \in Purchases : r \in holders[p] =>
               pc[r] \in Deciding \cup Showing /\ call[r].purchase = p
        /\ pc[r] \in Deciding => holders[call[r].purchase] = {r}

(* What a decision has found holds until it commits.                       *)
DecisionInv ==
    /\ \A r \in Requests :
          pc[r] \in {"updated", "inserted"} => Awaits(call[r].purchase)
    /\ \A r \in Requests : pc[r] = "inserted" => \A a \in actions : a.key # call[r].key
    /\ \A q, r \in Requests :
          pc[q] = "inserted" /\ pc[r] = "inserted" /\ call[q].key = call[r].key => q = r

(* What a reader has found holds until it commits.                         *)
ReaderInv ==
    /\ \A r \in Requests : pc[r] \in Showing => HasCode(call[r].purchase)
    /\ \A r \in Requests : pc[r] = "audited" => accesses[call[r].key] = NoPurchase
    /\ \A q, r \in Requests :
          pc[q] = "audited" /\ pc[r] = "audited" /\ call[q].key = call[r].key => q = r

IInv ==
    /\ TypeOK
    /\ CallInv
    /\ LockInv
    /\ DecisionInv
    /\ ReaderInv
    /\ ActionsMatchRows
    /\ ShownIsAudited

(* What a call is made of.                                                 *)
LEMMA CallType ==
  ASSUME NEW x \in Calls
  PROVE  /\ x.key \in Keys /\ x.purchase \in Purchases /\ x.code \in Codes \cup {NoCode}
         /\ x.decision \in {"failed", "succeeded", "read"}
         /\ x.decision # "read" => x \in Resolution
  BY CallsAssumption DEF Resolution, Reading

(* What a recorded action is made of.                                      *)
LEMMA ActionType ==
  ASSUME NEW x \in Resolution
  PROVE  /\ x.key \in Keys /\ x.purchase \in Purchases /\ x.code \in Codes \cup {NoCode}
         /\ x.decision \in {"failed", "succeeded"}
  BY DEF Resolution

(* Nobody holds, has decided or has read anything yet.                     *)
LEMMA InitIInv == Init => IInv
  BY DEF Init, IInv, TypeOK, CallInv, LockInv, DecisionInv, ReaderInv,
     ActionsMatchRows, ShownIsAudited, Deciding, Showing

(* A repetition that is answered at once has taken no lock.                *)
LEMMA ReceiveStep ==
  ASSUME IInv, NEW r \in Requests, NEW c \in Calls, Receive(r, c)
  PROVE  IInv'
<1>1. TypeOK'
  BY DEF IInv, TypeOK, Receive, Answer, Goto, Verdict, rowVars, logVars
<1>2. CallInv'
  BY DEF IInv, CallInv, TypeOK, Showing, Receive, Answer, Goto
<1>3. LockInv'
  BY CallType DEF IInv, LockInv, CallInv, TypeOK, Deciding, Showing, Receive,
     Answer, Goto
<1>4. DecisionInv'
  BY DEF IInv, DecisionInv, TypeOK, Awaits, Receive, Answer, Goto, rowVars,
     logVars
<1>5. ReaderInv'
  BY DEF IInv, ReaderInv, TypeOK, Showing, HasCode, Receive, Answer, Goto,
     rowVars, logVars
<1>6. ActionsMatchRows'
  BY DEF IInv, ActionsMatchRows, Receive, rowVars, logVars
<1>7. ShownIsAudited'
  BY DEF IInv, ShownIsAudited, CallInv, TypeOK, HasCode, Receive, Answer,
     Verdict, rowVars, logVars
<1> QED  BY <1>1, <1>2, <1>3, <1>4, <1>5, <1>6, <1>7 DEF IInv

(* The lock of a row is granted when nobody holds it.                      *)
LEMMA LockRowStep ==
  ASSUME IInv, NEW r \in Requests, LockRow(r)
  PROVE  IInv'
<1>1. TypeOK'
  BY DEF IInv, TypeOK, LockRow, Lock, Goto, rowVars, logVars
<1>2. CallInv'
  BY DEF IInv, CallInv, Showing, LockRow, Goto
<1>3. LockInv'
  BY CallType DEF IInv, LockInv, CallInv, TypeOK, Deciding, LockRow, Lock, Goto,
     logVars
<1>4. DecisionInv'
  BY DEF IInv, DecisionInv, Awaits, LockRow, Goto, rowVars, logVars
<1>5. ReaderInv'
  BY DEF IInv, ReaderInv, Showing, HasCode, LockRow, Goto, rowVars, logVars
<1>6. ActionsMatchRows'
  BY DEF IInv, ActionsMatchRows, LockRow, rowVars, logVars
<1>7. ShownIsAudited'
  BY DEF IInv, ShownIsAudited, HasCode, LockRow, rowVars, logVars
<1> QED  BY <1>1, <1>2, <1>3, <1>4, <1>5, <1>6, <1>7 DEF IInv

(* A refused request releases its row and has written nothing.             *)
LEMMA RefuseStep ==
  ASSUME IInv, NEW r \in Requests, Refuse(r)
  PROVE  IInv'
<1>1. TypeOK'
  BY DEF IInv, TypeOK, Refuse, Answer, Goto, Settled, Verdict, rowVars, logVars
<1>2. CallInv'
  BY DEF IInv, CallInv, TypeOK, Deciding, Showing, Refuse, Answer, Goto
<1>3. LockInv'
  BY CallType DEF IInv, LockInv, CallInv, TypeOK, Deciding, Refuse, Answer, Goto
<1>4. DecisionInv'
  BY DEF IInv, DecisionInv, Awaits, Refuse, Answer, Goto, rowVars, logVars
<1>5. ReaderInv'
  BY DEF IInv, ReaderInv, Showing, HasCode, Refuse, Answer, Goto, rowVars,
     logVars
<1>6. ActionsMatchRows'
  BY DEF IInv, ActionsMatchRows, Refuse, rowVars, logVars
<1>7. ShownIsAudited'
  BY DEF IInv, ShownIsAudited, HasCode, Refuse, Answer, Settled, Verdict,
     rowVars, logVars
<1> QED  BY <1>1, <1>2, <1>3, <1>4, <1>5, <1>6, <1>7 DEF IInv

(* A decision goes on because its row still awaits one.                    *)
LEMMA UpdateStep ==
  ASSUME IInv, NEW r \in Requests, Update(r)
  PROVE  IInv'
<1>1. TypeOK'
  BY DEF IInv, TypeOK, Update, Answer, Goto, rowVars, logVars
<1>2. CallInv'
  BY DEF IInv, CallInv, TypeOK, Deciding, Showing, Update, Answer, Goto
<1>3. LockInv'
  BY CallType DEF IInv, LockInv, CallInv, TypeOK, Deciding, Update, Answer, Goto
<1>4. DecisionInv'
  BY DEF IInv, DecisionInv, TypeOK, Awaits, Update, Settled, Verdict, Answer,
     Goto, rowVars, logVars
<1>5. ReaderInv'
  BY DEF IInv, ReaderInv, TypeOK, Showing, HasCode, Update, Answer, Goto,
     rowVars, logVars
<1>6. ActionsMatchRows'
  BY DEF IInv, ActionsMatchRows, Update, rowVars, logVars
<1>7. ShownIsAudited'
  BY DEF IInv, ShownIsAudited, TypeOK, HasCode, Update, Answer, rowVars, logVars
<1> QED  BY <1>1, <1>2, <1>3, <1>4, <1>5, <1>6, <1>7 DEF IInv

(* A key is written when nobody else has written it or is about to.        *)
LEMMA InsertActionStep ==
  ASSUME IInv, NEW r \in Requests, InsertAction(r)
  PROVE  IInv'
<1>1. TypeOK'
  BY DEF IInv, TypeOK, InsertAction, Answer, Goto, rowVars, logVars
<1>2. CallInv'
  BY DEF IInv, CallInv, TypeOK, Deciding, Showing, InsertAction, Answer, Goto
<1>3. LockInv'
  BY CallType DEF IInv, LockInv, CallInv, TypeOK, Deciding, InsertAction,
     Answer, Goto
<1>4. DecisionInv'
  BY DEF IInv, DecisionInv, TypeOK, Awaits, InsertAction, Recorded, Writing,
     Answer, Goto, rowVars, logVars
<1>5. ReaderInv'
  BY DEF IInv, ReaderInv, TypeOK, Showing, HasCode, InsertAction, Answer, Goto,
     rowVars, logVars
<1>6. ActionsMatchRows'
  BY DEF IInv, ActionsMatchRows, InsertAction, rowVars, logVars
<1>7. ShownIsAudited'
  BY DEF IInv, ShownIsAudited, TypeOK, HasCode, InsertAction, Answer, rowVars,
     logVars
<1> QED  BY <1>1, <1>2, <1>3, <1>4, <1>5, <1>6, <1>7 DEF IInv

(* No action was recorded for a row that awaited a decision.               *)
LEMMA CommitDecisionStep ==
  ASSUME IInv, NEW r \in Requests, CommitDecision(r)
  PROVE  IInv'
<1>1. TypeOK'
  BY CallType DEF IInv, TypeOK, CallInv, Deciding, CommitDecision, Answer, Goto
<1>2. CallInv'
  BY DEF IInv, CallInv, TypeOK, Deciding, Showing, CommitDecision, Answer, Goto
<1>3. LockInv'
  BY CallType DEF IInv, LockInv, CallInv, TypeOK, Deciding, CommitDecision,
     Answer, Goto
<1>4. DecisionInv'
  BY CallType DEF IInv, DecisionInv, LockInv, TypeOK, Deciding, Awaits,
     CommitDecision, Answer, Goto
<1>5. ReaderInv'
  BY DEF IInv, ReaderInv, DecisionInv, Showing, HasCode, Awaits, CommitDecision,
     Answer, Goto
<1>6. ActionsMatchRows'
  <2>1. /\ call[r] \in Resolution /\ Awaits(call[r].purchase)
        /\ \A a \in actions : a.key # call[r].key
    BY CallType DEF IInv, CallInv, DecisionInv, Deciding, CommitDecision
  <2>2. \A a \in actions : a \in Resolution /\ a.purchase # call[r].purchase
    BY <2>1, ActionType DEF IInv, TypeOK, ActionsMatchRows, Awaits
  <2>3. /\ state[call[r].purchase]' = call[r].decision
        /\ result_hash[call[r].purchase]' = call[r].code
        /\ \A p \in Purchases \ {call[r].purchase} :
               state'[p] = state[p] /\ result_hash'[p] = result_hash[p]
    BY <2>1, ActionType DEF IInv, TypeOK, CommitDecision
  <2>4. actions' = actions \cup {call[r]} /\ call' = call
    BY DEF CommitDecision
  <2> QED
    BY <2>1, <2>2, <2>3, <2>4, ActionType DEF IInv, ActionsMatchRows
<1>7. ShownIsAudited'
  BY DEF IInv, ShownIsAudited, DecisionInv, HasCode, Awaits, CommitDecision,
     Answer
<1> QED  BY <1>1, <1>2, <1>3, <1>4, <1>5, <1>6, <1>7 DEF IInv

(* Readers share the lock of a row that has a code.                        *)
LEMMA ReadResultStep ==
  ASSUME IInv, NEW r \in Requests, NEW c \in Calls, ReadResult(r, c)
  PROVE  IInv'
<1>1. TypeOK'
  BY DEF IInv, TypeOK, ReadResult, Answer, Goto, rowVars, logVars
<1>2. CallInv'
  BY DEF IInv, CallInv, TypeOK, Deciding, ReadResult, Answer, Goto
<1>3. LockInv'
  BY CallType DEF IInv, LockInv, CallInv, TypeOK, Deciding, Showing, ReadResult,
     Answer, Goto
<1>4. DecisionInv'
  BY DEF IInv, DecisionInv, TypeOK, Awaits, ReadResult, Answer, Goto, rowVars,
     logVars
<1>5. ReaderInv'
  BY DEF IInv, ReaderInv, TypeOK, Showing, HasCode, ReadResult, Answer, Goto,
     rowVars, logVars
<1>6. ActionsMatchRows'
  BY DEF IInv, ActionsMatchRows, ReadResult, rowVars, logVars
<1>7. ShownIsAudited'
  BY DEF IInv, ShownIsAudited, CallInv, TypeOK, HasCode, ReadResult, Answer,
     rowVars, logVars
<1> QED  BY <1>1, <1>2, <1>3, <1>4, <1>5, <1>6, <1>7 DEF IInv

(* What is shown without a new entry has one of the same purchase.         *)
LEMMA AuditAccessStep ==
  ASSUME IInv, NEW r \in Requests, AuditAccess(r)
  PROVE  IInv'
<1>1. TypeOK'
  BY DEF IInv, TypeOK, AuditAccess, AccessVerdict, Answer, Goto, rowVars,
     logVars
<1>2. CallInv'
  BY DEF IInv, CallInv, TypeOK, Deciding, Showing, AuditAccess, Answer, Goto
<1>3. LockInv'
  BY CallType DEF IInv, LockInv, CallInv, TypeOK, Deciding, Showing,
     AuditAccess, Answer, Goto
<1>4. DecisionInv'
  BY DEF IInv, DecisionInv, TypeOK, Awaits, AuditAccess, Answer, Goto, rowVars,
     logVars
<1>5. ReaderInv'
  BY DEF IInv, ReaderInv, TypeOK, Showing, HasCode, AuditAccess, AccessVerdict,
     Writing, Answer, Goto, rowVars, logVars
<1>6. ActionsMatchRows'
  BY DEF IInv, ActionsMatchRows, AuditAccess, rowVars, logVars
<1>7. ShownIsAudited'
  BY DEF IInv, ShownIsAudited, ReaderInv, TypeOK, Showing, HasCode, AuditAccess,
     AccessVerdict, Answer, rowVars, logVars
<1> QED  BY <1>1, <1>2, <1>3, <1>4, <1>5, <1>6, <1>7 DEF IInv

(* The entry is of the purchase whose code is shown.                       *)
LEMMA ShowResultStep ==
  ASSUME IInv, NEW r \in Requests, ShowResult(r)
  PROVE  IInv'
<1>1. TypeOK'
  BY CallType DEF IInv, TypeOK, CallInv, ShowResult, LogAccess, Answer, Goto,
     rowVars
<1>2. CallInv'
  BY DEF IInv, CallInv, TypeOK, Deciding, Showing, ShowResult, Answer, Goto
<1>3. LockInv'
  BY CallType DEF IInv, LockInv, CallInv, Deciding, ShowResult, Answer, Goto
<1>4. DecisionInv'
  BY DEF IInv, DecisionInv, Awaits, ShowResult, Answer, Goto, rowVars
<1>5. ReaderInv'
  BY DEF IInv, ReaderInv, TypeOK, Showing, HasCode, ShowResult, LogAccess,
     Answer, Goto, rowVars
<1>6. ActionsMatchRows'
  BY DEF IInv, ActionsMatchRows, ShowResult, rowVars
<1>7. ShownIsAudited'
  BY CallType, NoPurchaseAssumption DEF IInv, ShownIsAudited, ReaderInv,
     CallInv, TypeOK, Showing, HasCode, ShowResult, LogAccess, Answer, rowVars
<1> QED  BY <1>1, <1>2, <1>3, <1>4, <1>5, <1>6, <1>7 DEF IInv

(* A rollback leaves the tables as they were.                              *)
LEMMA CrashStep ==
  ASSUME IInv, NEW r \in Requests, Crash(r)
  PROVE  IInv'
<1>1. TypeOK'
  BY DEF IInv, TypeOK, Crash, Answer, Goto, rowVars, logVars
<1>2. CallInv'
  BY DEF IInv, CallInv, TypeOK, Deciding, Showing, Crash, Answer, Goto
<1>3. LockInv'
  BY CallType DEF IInv, LockInv, CallInv, TypeOK, Deciding, Crash, Answer, Goto
<1>4. DecisionInv'
  BY DEF IInv, DecisionInv, Awaits, Crash, Answer, Goto, rowVars, logVars
<1>5. ReaderInv'
  BY DEF IInv, ReaderInv, Showing, HasCode, Crash, Answer, Goto, rowVars,
     logVars
<1>6. ActionsMatchRows'
  BY DEF IInv, ActionsMatchRows, Crash, rowVars, logVars
<1>7. ShownIsAudited'
  BY DEF IInv, ShownIsAudited, HasCode, Crash, Answer, rowVars, logVars
<1> QED  BY <1>1, <1>2, <1>3, <1>4, <1>5, <1>6, <1>7 DEF IInv

(* A worker writes a row that no decision or reader depends on.            *)
LEMMA WorkerSavesStep ==
  ASSUME IInv, NEW p \in Purchases, NEW code \in Codes \cup {NoCode}, WorkerSaves(p, code)
  PROVE  IInv'
<1>1. TypeOK'
  BY DEF IInv, TypeOK, WorkerSaves, logVars
<1>2. CallInv'
  BY DEF IInv, CallInv, WorkerSaves
<1>3. LockInv'
  BY DEF IInv, LockInv, WorkerSaves
<1>4. DecisionInv'
  BY DEF IInv, DecisionInv, Awaits, WorkerSaves, logVars
<1>5. ReaderInv'
  BY DEF IInv, ReaderInv, HasCode, WorkerSaves, logVars
<1>6. ActionsMatchRows'
  BY ActionType DEF IInv, ActionsMatchRows, TypeOK, WorkerSaves, logVars
<1>7. ShownIsAudited'
  BY DEF IInv, ShownIsAudited, HasCode, WorkerSaves, logVars
<1> QED  BY <1>1, <1>2, <1>3, <1>4, <1>5, <1>6, <1>7 DEF IInv

(* The same, when it gives up.                                             *)
LEMMA WorkerLeavesStep ==
  ASSUME IInv, NEW p \in Purchases, WorkerLeaves(p)
  PROVE  IInv'
<1>1. TypeOK'
  BY DEF IInv, TypeOK, WorkerLeaves, logVars
<1>2. CallInv'
  BY DEF IInv, CallInv, WorkerLeaves
<1>3. LockInv'
  BY DEF IInv, LockInv, WorkerLeaves
<1>4. DecisionInv'
  BY DEF IInv, DecisionInv, Awaits, WorkerLeaves, logVars
<1>5. ReaderInv'
  BY DEF IInv, ReaderInv, HasCode, WorkerLeaves, logVars
<1>6. ActionsMatchRows'
  BY ActionType DEF IInv, ActionsMatchRows, TypeOK, WorkerLeaves, logVars
<1>7. ShownIsAudited'
  BY DEF IInv, ShownIsAudited, HasCode, WorkerLeaves, logVars
<1> QED  BY <1>1, <1>2, <1>3, <1>4, <1>5, <1>6, <1>7 DEF IInv

(* The invariant is inductive.                                             *)
LEMMA NextIInv == IInv /\ [Next]_vars => IInv'
<1> SUFFICES ASSUME IInv, [Next]_vars PROVE IInv'
  OBVIOUS
<1>1. ASSUME NEW r \in Requests, NEW c \in Calls, Receive(r, c) PROVE IInv'
  BY <1>1, ReceiveStep
<1>2. ASSUME NEW r \in Requests, NEW c \in Calls, ReadResult(r, c) PROVE IInv'
  BY <1>2, ReadResultStep
<1>3. ASSUME NEW r \in Requests, Serve(r) PROVE IInv'
  BY <1>3, LockRowStep, RefuseStep, UpdateStep, InsertActionStep,
     CommitDecisionStep, AuditAccessStep, ShowResultStep DEF Serve
<1>4. ASSUME NEW r \in Requests, Crash(r) PROVE IInv'
  BY <1>4, CrashStep
<1>5. ASSUME NEW p \in Purchases, NEW code \in Codes \cup {NoCode}, WorkerSaves(p, code)
      PROVE  IInv'
  BY <1>5, WorkerSavesStep
<1>6. ASSUME NEW p \in Purchases, WorkerLeaves(p) PROVE IInv'
  BY <1>6, WorkerLeavesStep
<1>7. CASE UNCHANGED vars
  BY <1>7 DEF vars, rowVars, logVars, IInv, TypeOK, CallInv, LockInv,
     DecisionInv, ReaderInv, ActionsMatchRows, ShownIsAudited, Awaits, HasCode
<1> QED  BY <1>1, <1>2, <1>3, <1>4, <1>5, <1>6, <1>7 DEF Next

(* It holds in every reachable state.                                      *)
THEOREM Invariance == Spec => []IInv
<1>1. Init => IInv
  BY InitIInv
<1>2. IInv /\ [Next]_vars => IInv'
  BY NextIInv
<1> QED  BY <1>1, <1>2, PTL DEF Spec

-----------------------------------------------------------------------------
(* Every reachable state of the desk is well typed.                        *)
THEOREM TypeCorrect == Spec => []TypeOK
<1>1. IInv => TypeOK
  BY DEF IInv
<1> QED  BY <1>1, Invariance, PTL

(* A purchase is decided at most once, and its row says what the log says  *)
(* (resolve_attention), with any number of operators, workers and crashes. *)
THEOREM DecisionsAreLogged == Spec => []ActionsMatchRows
<1>1. IInv => ActionsMatchRows
  BY DEF IInv
<1> QED  BY <1>1, Invariance, PTL

(* No code is shown that is not in the log of accesses under the request's *)
(* key and purchase (read_result_for_operator).                            *)
THEOREM DisclosuresAreLogged == Spec => []ShownIsAudited
<1>1. IInv => ShownIsAudited
  BY DEF IInv
<1> QED  BY <1>1, Invariance, PTL

(* A repetition of a recorded decision is never refused: whoever refuses   *)
(* has read the log under the lock of the row (resolve_attention), or      *)
(* before anyone could hold it for this decision.                          *)
THEOREM RepetitionsAreHonoured == Spec => RetriesAreHonoured
<1> DEFINE Refused(r) ==
               answer'[r] # answer[r] /\ answer'[r] \in {"conflict", "not_awaiting", "duplicate"}
           Honoured == \A r \in Requests : Refused(r) => call'[r] \notin actions
<1>1. IInv /\ [Next]_vars => [Honoured]_vars
  <2> SUFFICES ASSUME IInv, [Next]_vars PROVE Honoured
    OBVIOUS
  <2>1. ASSUME NEW r \in Requests, NEW c \in Calls, Receive(r, c) PROVE Honoured
    BY <2>1 DEF Receive, Answer, Verdict, IInv, TypeOK
  <2>2. ASSUME NEW r \in Requests, Refuse(r) PROVE Honoured
    BY <2>2 DEF Refuse, Settled, Recorded, Verdict, Answer
  <2>3. ASSUME NEW r \in Requests, Update(r) PROVE Honoured
    BY <2>3 DEF Update, Settled, Recorded, Verdict, Answer, IInv, TypeOK
  <2>4. ASSUME NEW r \in Requests, InsertAction(r) PROVE Honoured
    <3>1. call[r] \notin actions
      BY <2>4, ActionType DEF InsertAction, IInv, TypeOK, DecisionInv, Awaits,
         ActionsMatchRows
    <3> QED  BY <2>4, <3>1 DEF InsertAction, Answer, IInv, TypeOK
  <2>5. ASSUME NEW r \in Requests, AuditAccess(r) PROVE Honoured
    <3>1. call[r] \notin actions
      BY <2>5, ActionType DEF AuditAccess, IInv, TypeOK, CallInv, Showing
    <3> QED  BY <2>5, <3>1 DEF AuditAccess, Answer, IInv, TypeOK
  <2>6. ASSUME NEW r \in Requests,
               \/ \E c \in Calls : ReadResult(r, c)
               \/ LockRow(r) \/ CommitDecision(r) \/ ShowResult(r) \/ Crash(r)
        PROVE  Honoured
    BY <2>6 DEF ReadResult, LockRow, CommitDecision, ShowResult, Crash, Answer,
       IInv, TypeOK
  <2>7. ASSUME \/ \E p \in Purchases : \/ \E code \in Codes \cup {NoCode} : WorkerSaves(p, code)
                                       \/ WorkerLeaves(p)
               \/ UNCHANGED vars
        PROVE  UNCHANGED answer
    BY <2>7 DEF WorkerSaves, WorkerLeaves, vars
  <2> QED  BY <2>1, <2>2, <2>3, <2>4, <2>5, <2>6, <2>7 DEF Next, Serve
<1> QED  BY <1>1, Invariance, PTL DEF Spec, RetriesAreHonoured

-----------------------------------------------------------------------------
(* Why a code is recorded for one purchase only: whoever has updated a row *)
(* and not committed was the only one to write its code, and no row had it.*)
Writers == {"updated", "inserted"}
CodesInv ==
    /\ \A p \in Purchases : state[p] # "succeeded" => result_hash[p] = NoCode
    /\ \A r \in Requests : pc[r] \in Writers => ~ CodeIsTaken(call[r].purchase, call[r].code)
    /\ \A q, r \in Requests :
          /\ pc[q] \in Writers /\ pc[r] \in Writers
          /\ call[q].code = call[r].code /\ call[r].code # NoCode
          => q = r

(* A request that goes on, or ends, without writing to a row.              *)
LEMMA CodesKept ==
  ASSUME IInv, CodesInv, NEW r \in Requests, UNCHANGED rowVars,
         \A q \in Requests \ {r} : pc'[q] = pc[q] /\ call'[q] = call[q],
         pc'[r] \in Writers => pc[r] \in Writers /\ call'[r] = call[r]
  PROVE  CodesInv'
<1>1. \A q \in Requests : pc'[q] \in Writers => pc[q] \in Writers /\ call'[q] = call[q]
  OBVIOUS
<1> QED  BY <1>1 DEF CodesInv, CodeIsTaken, rowVars

LEMMA CodesUpdate ==
  ASSUME IInv, CodesInv, NEW r \in Requests, Update(r)
  PROVE  CodesInv'
<1> DEFINE c == call[r]
<1>1. CASE CodeIsTaken(c.purchase, c.code)
  <2>1. /\ pc'[r] = "answered" /\ UNCHANGED <<rowVars, call>>
        /\ \A q \in Requests \ {r} : pc'[q] = pc[q]
    BY <1>1 DEF Update, Answer, Goto, IInv, TypeOK
  <2> QED  BY <2>1, CodesKept DEF Writers
<1>2. CASE ~ CodeIsTaken(c.purchase, c.code)
  <2>1. UNCHANGED <<rowVars, call>> /\ \A q \in Requests \ {r} : pc'[q] = pc[q]
    BY <1>2 DEF Update, Goto, IInv, TypeOK
  <2>2. ASSUME NEW q \in Requests \ {r}, pc[q] \in Writers, call[q].code = c.code, c.code # NoCode
        PROVE  FALSE
    <3>1. call[q].purchase = c.purchase
      BY <2>2 DEF Update, CodeIsPending, Writing, Writers
    <3>2. pc[r] \in Deciding /\ pc[q] \in Deciding
      BY <2>2 DEF Update, Deciding, Writers
    <3> QED  BY <3>1, <3>2 DEF IInv, LockInv
  <2>3. \A q \in Requests : pc'[q] \in Writers => q = r \/ pc[q] \in Writers
    BY <2>1
  <2> QED  BY <1>2, <2>1, <2>2, <2>3 DEF CodesInv, CodeIsTaken, rowVars
<1> QED  BY <1>1, <1>2

LEMMA CodesCommit ==
  ASSUME IInv, CodesInv, NEW r \in Requests, CommitDecision(r)
  PROVE  CodesInv'
<1> DEFINE c == call[r]
<1>1. /\ c \in Resolution /\ c.purchase \in Purchases /\ pc[r] \in Writers
      /\ c.code # NoCode => c.decision = "succeeded"
  BY CallType DEF CommitDecision, IInv, CallInv, Deciding, Resolution, Writers
<1>2. /\ state'[c.purchase] = c.decision /\ result_hash'[c.purchase] = c.code
      /\ \A p \in Purchases \ {c.purchase} : state'[p] = state[p] /\ result_hash'[p] = result_hash[p]
  BY <1>1 DEF CommitDecision, IInv, TypeOK
<1>3. call' = call /\ \A q \in Requests : pc'[q] \in Writers => q # r /\ pc[q] \in Writers
  BY DEF CommitDecision, Answer, Goto, IInv, TypeOK, Writers
<1> HIDE DEF c
<1>4. \A p \in Purchases : state'[p] # "succeeded" => result_hash'[p] = NoCode
  BY <1>1, <1>2 DEF CodesInv
<1>5. ASSUME NEW q \in Requests, pc'[q] \in Writers
      PROVE  ~ CodeIsTaken(call[q].purchase, call[q].code)'
  <2>1. q # r /\ pc[q] \in Writers /\ ~ CodeIsTaken(call[q].purchase, call[q].code)
    BY <1>3, <1>5 DEF CodesInv
  <2>2. call[q].code # NoCode => call[q].code # c.code
    BY <1>1, <2>1 DEF CodesInv, c
  <2> QED  BY <1>2, <1>3, <2>1, <2>2 DEF CodeIsTaken
<1> QED  BY <1>3, <1>4, <1>5 DEF CodesInv

LEMMA CodesWorker ==
  ASSUME IInv, CodesInv, NEW p \in Purchases,
         WorkerLeaves(p) \/ \E code \in Codes \cup {NoCode} : WorkerSaves(p, code)
  PROVE  CodesInv'
<1>1. CASE WorkerLeaves(p)
  BY <1>1 DEF WorkerLeaves, CodesInv, CodeIsTaken, IInv, TypeOK
<1>2. ASSUME NEW code \in Codes \cup {NoCode}, WorkerSaves(p, code)  PROVE CodesInv'
  <2>1. /\ state' = [state EXCEPT ![p] = "succeeded"]
        /\ result_hash' = [result_hash EXCEPT ![p] = code]
        /\ UNCHANGED <<pc, call>>
    BY <1>2 DEF WorkerSaves
  <2>2. ASSUME NEW r \in Requests, pc[r] \in Writers
        PROVE  ~ CodeIsTaken(call[r].purchase, call[r].code)'
    <3>1. call[r].code # NoCode => call[r].code # code \/ call[r].purchase = p
      BY <1>2, <2>2 DEF WorkerSaves, CodeIsPending, Writing, Writers
    <3> QED  BY <2>1, <2>2, <3>1 DEF CodesInv, CodeIsTaken, IInv, TypeOK
  <2> QED  BY <2>1, <2>2 DEF CodesInv, IInv, TypeOK
<1> QED  BY <1>1, <1>2

LEMMA CodesStep == IInv /\ CodesInv /\ [Next]_vars => CodesInv'
<1> SUFFICES ASSUME IInv, CodesInv, [Next]_vars  PROVE CodesInv'
  OBVIOUS
<1>1. ASSUME NEW r \in Requests, NEW c \in Calls, Receive(r, c) \/ ReadResult(r, c)
      PROVE  CodesInv'
  <2>1. /\ UNCHANGED rowVars /\ pc'[r] \notin Writers
        /\ \A q \in Requests \ {r} : pc'[q] = pc[q] /\ call'[q] = call[q]
    BY <1>1 DEF Receive, ReadResult, Answer, Goto, IInv, TypeOK, Writers
  <2> QED  BY <2>1, CodesKept
<1>2. ASSUME NEW r \in Requests,
             \/ LockRow(r) \/ Refuse(r) \/ InsertAction(r) \/ AuditAccess(r) \/ ShowResult(r)
             \/ Crash(r)
      PROVE  CodesInv'
  <2>1. /\ UNCHANGED <<rowVars, call>>
        /\ \A q \in Requests \ {r} : pc'[q] = pc[q]
        /\ pc'[r] \in Writers => pc[r] \in Writers
    BY <1>2 DEF LockRow, Refuse, InsertAction, AuditAccess, ShowResult, Crash, Answer, Goto,
       IInv, TypeOK, Writers
  <2> QED  BY <2>1, CodesKept
<1>3. CASE UNCHANGED vars
  BY <1>3 DEF vars, rowVars, CodesInv, CodeIsTaken
<1> QED  BY <1>1, <1>2, <1>3, CodesUpdate, CodesCommit, CodesWorker DEF Next, Serve

THEOREM CodesInvariance == Spec => []CodesInv
<1>1. Init => CodesInv
  BY DEF Init, CodesInv, Writers
<1> QED  BY <1>1, CodesStep, Invariance, PTL DEF Spec

-----------------------------------------------------------------------------
(* What a step shows of itself to operators.                               *)
Told == {"resolved", "repeated", "conflict", "not_awaiting", "duplicate", "unavailable", "shown"}
Shows == [Decisions!DecisionsNext]_Decisions!decisionsVars

(* The phases in terms of the rows.                                        *)
LEMMA PhaseIs ==
  ASSUME TypeOK, NEW p \in Purchases
  PROVE  /\ Phases[p] = "attention" <=> Awaits(p)
         /\ Phases[p] = "worked" <=> state[p] = "processing"
         /\ Phases[p] = "succeeded" <=> state[p] = "succeeded"
         /\ Decisions!HasCode(p) <=> HasCode(p)
  BY DEF TypeOK, Phases, Awaits, Decisions!HasCode, HasCode

(* The index is broken by what is not free.                                *)
LEMMA FreeIs ==
  ASSUME NEW p, NEW code
  PROVE  Decisions!Free(p, code) <=> ~ CodeIsTaken(p, code)
  BY DEF Decisions!Free, CodeIsTaken

LEMMA SameRows ==
  ASSUME UNCHANGED <<rowVars, actions>>
  PROVE  UNCHANGED Decisions!rowsVars
<1>1. Phases' = Phases /\ Decided' = Decided /\ result_hash' = result_hash
  BY DEF rowVars, Phases, Decided
<1> QED  BY <1>1 DEF Decisions!rowsVars

(* A request that was not answered and is not, or whose answer is lost, is *)
(* told nothing.                                                           *)
LEMMA ToldNothing ==
  ASSUME TypeOK, NEW r \in Requests, answer[r] = "none", answer'[r] \in {"none", "lost"},
         \A q \in Requests \ {r} : answer'[q] = answer[q] /\ call'[q] = call[q]
  PROVE  Replies' = Replies
  BY DEF Replies

LEMMA ShowsNothing ==
  ASSUME UNCHANGED <<rowVars, logVars>>, Replies' = Replies
  PROVE  Shows
<1>1. UNCHANGED Decisions!rowsVars /\ actions' = actions /\ accesses' = accesses
  BY SameRows DEF logVars
<1> QED  BY <1>1 DEF Shows, Decisions!decisionsVars

(* An answer changes what one request was told, and nothing else.          *)
LEMMA AnswerReplies ==
  ASSUME TypeOK, NEW r \in Requests, NEW a \in Told, answer[r] = "none", Answer(r, a),
         \A q \in Requests \ {r} : call'[q] = call[q]
  PROVE  Decisions!Reply(r, call'[r], a)
<1>1. answer' = [answer EXCEPT ![r] = a] /\ a \notin {"none", "lost"}
  BY DEF Answer, Told
<1>2. Replies[r] = NoReply
  BY DEF Replies
<1>3. Replies' = [Replies EXCEPT ![r] = [call |-> call'[r], says |-> a]]
  BY <1>1 DEF Replies, TypeOK
<1> QED  BY <1>2, <1>3 DEF Decisions!Reply

(* A request to decide that is told why nothing is done about it.          *)
LEMMA DeclineShows ==
  ASSUME NEW r \in Requests, NEW c \in Calls, c.decision # "read",
         UNCHANGED <<rowVars, logVars>>, NEW a \in Told, Decisions!Reply(r, c, a),
         \/ a = "repeated" /\ Decisions!Repeated(c)
         \/ a = "conflict" /\ Decisions!Misused(c)
         \/ a = "not_awaiting" /\ Decisions!NotAwaiting(c)
         \/ a = "duplicate" /\ (Decisions!Misused(c) \/ Decisions!CodeInUse(c))
  PROVE  Shows
<1>1. UNCHANGED Decisions!rowsVars /\ actions' = actions /\ accesses' = accesses
  BY SameRows DEF logVars
<1>2. Decisions!Decline(r, c)
  BY <1>1 DEF Decisions!Decline
<1> QED  BY <1>2 DEF Shows, Decisions!DecisionsNext

(* What the log says of a call.                                            *)
LEMMA VerdictIs ==
  ASSUME NEW c, Recorded(c) # {}
  PROVE  \/ Verdict(c) = "repeated" /\ Decisions!Repeated(c)
         \/ Verdict(c) = "conflict" /\ Decisions!Misused(c)
  BY DEF Recorded, Verdict, Decisions!Repeated, Decisions!Misused, Decisions!KeyIsUsed

LEMMA ReceiveShows ==
  ASSUME IInv, NEW r \in Requests, NEW c \in Calls, Receive(r, c)
  PROVE  Shows
<1>1. /\ TypeOK /\ answer[r] = "none" /\ c.decision # "read" /\ UNCHANGED <<rowVars, logVars>>
      /\ call'[r] = c /\ \A q \in Requests \ {r} : call'[q] = call[q]
  BY DEF IInv, TypeOK, CallInv, Receive
<1>2. CASE Recorded(c) # {}
  <2>1. Answer(r, Verdict(c)) /\ Verdict(c) \in Told
    BY <1>2 DEF Receive, Verdict, Told
  <2>2. Decisions!Reply(r, c, Verdict(c))
    BY <1>1, <2>1, AnswerReplies
  <2> QED  BY <1>1, <1>2, <2>1, <2>2, VerdictIs, DeclineShows
<1>3. CASE Recorded(c) = {}
  <2>1. answer' = answer
    BY <1>3 DEF Receive
  <2> QED  BY <1>1, <2>1, ToldNothing, ShowsNothing
<1> QED  BY <1>2, <1>3

LEMMA RefuseShows ==
  ASSUME IInv, NEW r \in Requests, Refuse(r)
  PROVE  Shows
<1> DEFINE c == call[r]
<1>1. /\ TypeOK /\ answer[r] = "none" /\ UNCHANGED <<rowVars, logVars>> /\ call' = call
      /\ c \in Calls /\ c.decision # "read" /\ c.purchase \in Purchases
  BY CallType DEF IInv, CallInv, Refuse, Deciding
<1>2. Answer(r, Settled(c)) /\ Settled(c) # "none" /\ Settled(c) \in Told
  BY DEF Refuse, Settled, Verdict, Told
<1>3. Decisions!Reply(r, c, Settled(c))
  BY <1>1, <1>2, AnswerReplies
<1>4. CASE Recorded(c) # {}
  <2>1. Settled(c) = Verdict(c)
    BY <1>4 DEF Settled
  <2> QED  BY <1>1, <1>2, <1>3, <1>4, <2>1, VerdictIs, DeclineShows
<1>5. CASE Recorded(c) = {}
  <2>1. Settled(c) = "not_awaiting" /\ ~ Awaits(c.purchase)
    BY <1>2, <1>5 DEF Settled
  <2>2. Decisions!NotAwaiting(c)
    BY <1>1, <1>5, <2>1, PhaseIs DEF Decisions!NotAwaiting, Decisions!KeyIsUsed, Recorded
  <2> QED  BY <1>1, <1>2, <1>3, <2>1, <2>2, DeclineShows
<1> QED  BY <1>4, <1>5

LEMMA UpdateShows ==
  ASSUME IInv, NEW r \in Requests, Update(r)
  PROVE  Shows
<1> DEFINE c == call[r]
<1>1. /\ TypeOK /\ answer[r] = "none" /\ UNCHANGED <<rowVars, logVars>> /\ call' = call
      /\ c \in Calls /\ c.decision # "read" /\ c.purchase \in Purchases
  BY CallType DEF IInv, CallInv, Update, Deciding
<1>2. CASE CodeIsTaken(c.purchase, c.code)
  <2>1. Answer(r, "duplicate") /\ Awaits(c.purchase)
    BY <1>2 DEF Update, Settled, Verdict
  <2>2. Decisions!Reply(r, c, "duplicate")
    BY <1>1, <2>1, AnswerReplies DEF Told
  <2>3. Decisions!CodeInUse(c)
    BY <1>1, <1>2, <2>1, PhaseIs, FreeIs DEF Decisions!CodeInUse
  <2> QED  BY <1>1, <2>2, <2>3, DeclineShows DEF Told
<1>3. CASE ~ CodeIsTaken(c.purchase, c.code)
  <2>1. answer' = answer
    BY <1>3 DEF Update
  <2> QED  BY <1>1, <2>1, ToldNothing, ShowsNothing
<1> QED  BY <1>2, <1>3

LEMMA InsertActionShows ==
  ASSUME IInv, NEW r \in Requests, InsertAction(r)
  PROVE  Shows
<1> DEFINE c == call[r]
<1>1. /\ TypeOK /\ answer[r] = "none" /\ UNCHANGED <<rowVars, logVars>> /\ call' = call
      /\ c \in Calls /\ c.decision # "read" /\ c.purchase \in Purchases
  BY CallType DEF IInv, CallInv, InsertAction, Deciding
<1>2. CASE Recorded(c) # {}
  <2>1. Answer(r, "duplicate")
    BY <1>2 DEF InsertAction
  <2>2. Decisions!Reply(r, c, "duplicate")
    BY <1>1, <2>1, AnswerReplies DEF Told
  <2>3. c \notin actions
    BY <1>1, ActionType DEF InsertAction, IInv, TypeOK, DecisionInv, Awaits, ActionsMatchRows
  <2>4. Decisions!Misused(c)
    BY <1>2, <2>3 DEF Decisions!Misused, Decisions!KeyIsUsed, Recorded
  <2> QED  BY <1>1, <2>2, <2>4, DeclineShows DEF Told
<1>3. CASE Recorded(c) = {}
  <2>1. answer' = answer
    BY <1>3 DEF InsertAction
  <2> QED  BY <1>1, <2>1, ToldNothing, ShowsNothing
<1> QED  BY <1>2, <1>3

(* What a row becomes by the decision or the save that ends it.            *)
LEMMA RowEnds ==
  ASSUME TypeOK, NEW p \in Purchases, NEW outcome \in {"succeeded", "failed"},
         NEW code \in Codes \cup {NoCode},
         code # NoCode <=> outcome = "succeeded" /\ p \notin Topups,
         ~ CodeIsTaken(p, code),
         state' = [state EXCEPT ![p] = outcome], result_hash' = [result_hash EXCEPT ![p] = code]
  PROVE  Decisions!End(p, outcome, code)
<1>1. Phases' = [Phases EXCEPT ![p] = outcome]
  BY DEF TypeOK, Phases
<1> QED  BY <1>1, FreeIs DEF Decisions!End

(* The commit is the moment of a decision: the row awaited it, the key was *)
(* not in use, and the code is nobody's.                                   *)
LEMMA CommitDecisionShows ==
  ASSUME IInv, CodesInv, NEW r \in Requests, CommitDecision(r)
  PROVE  Shows
<1> DEFINE c == call[r]
<1>1. /\ TypeOK /\ answer[r] = "none" /\ call' = call /\ c \in Calls /\ c \in Resolution
      /\ c.decision # "read"
  BY CallType, ActionType DEF IInv, CallInv, CommitDecision, Deciding
<1>2. Awaits(c.purchase) /\ (\A a \in actions : a.key # c.key) /\ ~ CodeIsTaken(c.purchase, c.code)
  BY DEF CommitDecision, IInv, DecisionInv, CodesInv, Writers
<1>3. Decisions!Reply(r, c, "resolved")
  BY <1>1, AnswerReplies DEF CommitDecision, Told
<1>4. /\ state' = [state EXCEPT ![c.purchase] = c.decision]
      /\ result_hash' = [result_hash EXCEPT ![c.purchase] = c.code]
      /\ actions' = actions \cup {c} /\ accesses' = accesses
  BY DEF CommitDecision
<1>5. /\ c.purchase \in Purchases /\ c.decision \in {"succeeded", "failed"}
      /\ c.code \in Codes \cup {NoCode}
      /\ c.code # NoCode <=> c.decision = "succeeded" /\ c.purchase \notin Topups
  BY <1>1 DEF Resolution
<1>6. Decided' = [Decided EXCEPT ![c.purchase] = c.decision]
  <2>1. ASSUME NEW p \in Purchases \ {c.purchase}
        PROVE  /\ state'[p] = state[p]
               /\ (\E a \in actions' : a.purchase = p) <=> (\E a \in actions : a.purchase = p)
    BY <1>1, <1>4 DEF TypeOK
  <2>2. state'[c.purchase] = c.decision /\ \E a \in actions' : a.purchase = c.purchase
    BY <1>1, <1>4, <1>5 DEF TypeOK
  <2> QED  BY <2>1, <2>2 DEF Decided
<1>7. Decisions!OperatorEnds(c.purchase, c.decision, c.code)
  BY <1>1, <1>2, <1>4, <1>5, <1>6, RowEnds, PhaseIs DEF Decisions!OperatorEnds
<1>8. Decisions!Resolve(r, c)
  BY <1>2, <1>3, <1>4, <1>7 DEF Decisions!Resolve, Decisions!KeyIsUsed
<1> QED  BY <1>1, <1>8 DEF Shows, Decisions!DecisionsNext

-----------------------------------------------------------------------------
(* Readers.                                                                *)
LEMMA WithholdShows ==
  ASSUME NEW r \in Requests, NEW c \in Calls, c.decision = "read",
         UNCHANGED <<rowVars, logVars>>,
         \/ Decisions!Reply(r, c, "unavailable") /\ ~ Decisions!HasCode(c.purchase)
         \/ Decisions!Reply(r, c, "conflict") /\ accesses[c.key] \notin {NoPurchase, c.purchase}
  PROVE  Shows
<1>1. UNCHANGED Decisions!rowsVars /\ actions' = actions /\ accesses' = accesses
  BY SameRows DEF logVars
<1>2. Decisions!Withhold(r, c)
  BY <1>1 DEF Decisions!Withhold
<1> QED  BY <1>2 DEF Shows, Decisions!DecisionsNext

LEMMA CodeShows ==
  ASSUME TypeOK, NEW r \in Requests, NEW c \in Calls, c.decision = "read", HasCode(c.purchase),
         UNCHANGED <<rowVars, actions>>, Decisions!Reply(r, c, "shown"),
         accesses[c.key] \in {NoPurchase, c.purchase},
         accesses' = [accesses EXCEPT ![c.key] = c.purchase]
  PROVE  Shows
<1>1. UNCHANGED Decisions!rowsVars /\ actions' = actions /\ c.purchase \in Purchases
  BY SameRows, CallType
<1>2. Decisions!Show(r, c)
  BY <1>1, PhaseIs DEF Decisions!Show
<1> QED  BY <1>2 DEF Shows, Decisions!DecisionsNext

LEMMA ReadResultShows ==
  ASSUME IInv, NEW r \in Requests, NEW c \in Calls, ReadResult(r, c)
  PROVE  Shows
<1>1. /\ TypeOK /\ answer[r] = "none" /\ c.decision = "read" /\ UNCHANGED <<rowVars, logVars>>
      /\ call'[r] = c /\ \A q \in Requests \ {r} : call'[q] = call[q]
      /\ c.purchase \in Purchases
  BY CallType DEF IInv, TypeOK, CallInv, ReadResult
<1>2. CASE HasCode(c.purchase)
  <2>1. answer' = answer
    BY <1>2 DEF ReadResult
  <2> QED  BY <1>1, <2>1, ToldNothing, ShowsNothing
<1>3. CASE ~ HasCode(c.purchase)
  <2>1. Decisions!Reply(r, c, "unavailable")
    BY <1>1, <1>3, AnswerReplies DEF ReadResult, Told
  <2> QED  BY <1>1, <1>3, <2>1, PhaseIs, WithholdShows
<1> QED  BY <1>2, <1>3

LEMMA AuditAccessShows ==
  ASSUME IInv, NEW r \in Requests, AuditAccess(r)
  PROVE  Shows
<1> DEFINE c == call[r]
<1>1. /\ TypeOK /\ answer[r] = "none" /\ UNCHANGED <<rowVars, logVars>> /\ call' = call
      /\ c \in Calls /\ c.decision = "read" /\ HasCode(c.purchase) /\ c.key \in Keys
  BY CallType DEF IInv, CallInv, ReaderInv, AuditAccess, Showing
<1>2. CASE accesses[c.key] = NoPurchase
  <2>1. AccessVerdict(c) = "none"
    BY <1>1, <1>2, CallType, NoPurchaseAssumption DEF AccessVerdict
  <2>2. answer' = answer
    BY <2>1 DEF AuditAccess
  <2> QED  BY <1>1, <2>2, ToldNothing, ShowsNothing
<1>3. CASE accesses[c.key] # NoPurchase /\ accesses[c.key] = c.purchase
  <2>1. AccessVerdict(c) = "shown"
    BY <1>3 DEF AccessVerdict
  <2>2. Decisions!Reply(r, c, "shown")
    BY <1>1, <2>1, AnswerReplies DEF AuditAccess, Told
  <2>3. accesses' = [accesses EXCEPT ![c.key] = c.purchase]
    BY <1>1, <1>3 DEF logVars, TypeOK
  <2> QED  BY <1>1, <1>3, <2>2, <2>3, CodeShows DEF logVars
<1>4. CASE accesses[c.key] \notin {NoPurchase, c.purchase}
  <2>1. AccessVerdict(c) = "conflict"
    BY <1>4 DEF AccessVerdict
  <2>2. Decisions!Reply(r, c, "conflict")
    BY <1>1, <2>1, AnswerReplies DEF AuditAccess, Told
  <2> QED  BY <1>1, <1>4, <2>2, WithholdShows
<1> QED  BY <1>2, <1>3, <1>4

LEMMA ShowResultShows ==
  ASSUME IInv, NEW r \in Requests, ShowResult(r)
  PROVE  Shows
<1> DEFINE c == call[r]
<1>1. /\ TypeOK /\ answer[r] = "none" /\ UNCHANGED <<rowVars, actions>> /\ call' = call
      /\ c \in Calls /\ c.decision = "read" /\ HasCode(c.purchase) /\ accesses[c.key] = NoPurchase
  BY DEF IInv, CallInv, ReaderInv, ShowResult, Showing
<1>2. Decisions!Reply(r, c, "shown")
  BY <1>1, AnswerReplies DEF ShowResult, Told
<1> QED  BY <1>1, <1>2, CodeShows DEF ShowResult, LogAccess

-----------------------------------------------------------------------------
(* A worker ends with a row that nobody has decided about.                 *)
LEMMA WorkerShows ==
  ASSUME IInv, CodesInv, NEW p \in Purchases,
         WorkerLeaves(p) \/ \E code \in Codes \cup {NoCode} : WorkerSaves(p, code)
  PROVE  Shows
<1>1. /\ TypeOK /\ state[p] = "processing" /\ Phases[p] = "worked"
      /\ UNCHANGED <<logVars, call, answer>>
      /\ \A q \in Purchases \ {p} : state'[q] = state[q]
  BY PhaseIs DEF IInv, TypeOK, WorkerSaves, WorkerLeaves
<1>2. Replies' = Replies /\ actions' = actions /\ accesses' = accesses
  BY <1>1 DEF Replies, logVars
<1>3. \A a \in actions : a.purchase # p
  BY <1>1, ActionType DEF IInv, TypeOK, ActionsMatchRows
<1>4. Decided' = Decided
  <2>1. ASSUME NEW q \in Purchases, \E a \in actions : a.purchase = q  PROVE state'[q] = state[q]
    BY <1>1, <1>3, <2>1
  <2> QED  BY <1>2, <2>1 DEF Decided
<1>5. ASSUME NEW code \in Codes \cup {NoCode}, WorkerSaves(p, code)
      PROVE  Decisions!WorkerEnds(p, "succeeded", code)
  <2>1. Decisions!End(p, "succeeded", code)
    BY <1>1, <1>5, RowEnds DEF WorkerSaves, CodeIsTaken
  <2> QED  BY <1>1, <1>4, <2>1 DEF Decisions!WorkerEnds
<1>6. ASSUME WorkerLeaves(p), state' = [state EXCEPT ![p] = "failed"]
      PROVE  Decisions!WorkerEnds(p, "failed", NoCode)
  <2>1. result_hash' = [result_hash EXCEPT ![p] = NoCode]
    BY <1>1, <1>6 DEF WorkerLeaves, CodesInv, TypeOK
  <2>2. Decisions!End(p, "failed", NoCode)
    BY <1>1, <1>6, <2>1, RowEnds DEF CodeIsTaken
  <2> QED  BY <1>1, <1>4, <2>2 DEF Decisions!WorkerEnds
<1>7. ASSUME WorkerLeaves(p), state' = [state EXCEPT ![p] = "requires_attention"]
      PROVE  Decisions!WorkerGivesUp(p)
  <2>1. Phases' = [Phases EXCEPT ![p] = "attention"] /\ result_hash' = result_hash
    BY <1>1, <1>7 DEF WorkerLeaves, Phases, TypeOK
  <2> QED  BY <1>1, <1>4, <2>1 DEF Decisions!WorkerGivesUp
<1>8. Decisions!WorkerDoes(p)
  BY <1>5, <1>6, <1>7 DEF WorkerLeaves, Decisions!WorkerDoes, Decisions!Outcome
<1> QED  BY <1>2, <1>8 DEF Shows, Decisions!DecisionsNext

LEMMA NextShows == IInv /\ CodesInv /\ [Next]_vars => Shows
<1> SUFFICES ASSUME IInv, CodesInv, [Next]_vars  PROVE Shows
  OBVIOUS
<1>1. ASSUME NEW r \in Requests, LockRow(r) \/ Crash(r)  PROVE Shows
  <2>1. /\ TypeOK /\ answer[r] = "none" /\ UNCHANGED <<rowVars, logVars, call>>
        /\ answer'[r] \in {"none", "lost"} /\ \A q \in Requests \ {r} : answer'[q] = answer[q]
    BY <1>1 DEF IInv, TypeOK, CallInv, LockRow, Crash, Answer
  <2> QED  BY <2>1, ToldNothing, ShowsNothing
<1>2. CASE UNCHANGED vars
  BY <1>2, ShowsNothing DEF vars, Replies
<1> QED
  BY <1>1, <1>2, ReceiveShows, RefuseShows, UpdateShows, InsertActionShows, CommitDecisionShows,
     ReadResultShows, AuditAccessShows, ShowResultShows, WorkerShows DEF Next, Serve

(* repository.py:369-380: for any operators, requests and calls, whatever  *)
(* waits, crashes or is repeated, the transactions of the desk amount to   *)
(* decisions and disclosures of one step each.                             *)
THEOREM DeskImplementsDecisions == Spec => ImplementsDecisions
<1>1. Init => Decisions!DecisionsInit
  BY DEF Init, Decisions!DecisionsInit, Decisions!RowsInit, Phases, Decided, Replies
<1>2. IInv /\ CodesInv /\ [Next]_vars => [Decisions!DecisionsNext]_Decisions!decisionsVars
  BY NextShows DEF Shows
<1> QED  BY <1>1, <1>2, Invariance, CodesInvariance, PTL
         DEF Spec, ImplementsDecisions, Decisions!DecisionsSpec

(* What operators and workers do to the rows here is what HubPurchases does*)
(* to them.                                                                *)
THEOREM DeskImplementsRows == Spec => ImplementsRows
<1>1. Decisions!DecisionsInit => Decisions!RowsInit
  BY DEF Decisions!DecisionsInit
<1>2. ASSUME Decisions!DecisionsNext  PROVE [Decisions!RowsNext]_Decisions!rowsVars
  <2>1. ASSUME NEW r \in Requests, NEW c \in Calls, c.decision # "read", Decisions!Resolve(r, c)
        PROVE  Decisions!RowsNext
    <3>1. /\ c.purchase \in Purchases /\ c.decision \in Decisions!Outcome
          /\ c.code \in Codes \cup {NoCode}
      BY <2>1, CallType DEF Decisions!Outcome
    <3> QED  BY <2>1, <3>1 DEF Decisions!Resolve, Decisions!RowsNext
  <2>2. ASSUME NEW r \in Requests, NEW c \in Calls,
               Decisions!Decline(r, c) \/ Decisions!Show(r, c) \/ Decisions!Withhold(r, c)
        PROVE  UNCHANGED Decisions!rowsVars
    BY <2>2 DEF Decisions!Decline, Decisions!Show, Decisions!Withhold
  <2> QED  BY <1>2, <2>1, <2>2 DEF Decisions!DecisionsNext, Decisions!RowsNext
<1>3. ASSUME UNCHANGED Decisions!decisionsVars  PROVE UNCHANGED Decisions!rowsVars
  BY <1>3 DEF Decisions!decisionsVars
<1>4. ImplementsDecisions => ImplementsRows
  BY <1>1, <1>2, <1>3, PTL
  DEF ImplementsDecisions, ImplementsRows, Decisions!DecisionsSpec, Decisions!RowsSpec
<1> QED  BY <1>4, DeskImplementsDecisions

(* Whatever a worker may do to the rows, and so whatever the workers of    *)
(* HubPurchases do, is a step of this module once no request holds the row *)
(* or is about to commit its code: PostgreSQL makes the worker wait.       *)
THEOREM DeskAdmitsWorkers ==
  ASSUME TypeOK, TypeOK', CodesInv, NEW p \in Purchases, Decisions!WorkerDoes(p),
         holders[p] = {},
         result_hash'[p] # NoCode => ~ CodeIsPending(p, result_hash'[p]),
         UNCHANGED <<holders, logVars, pc, call, answer>>
  PROVE  WorkerLeaves(p) \/ \E code \in Codes \cup {NoCode} : WorkerSaves(p, code)
<1>1. state[p] = "processing" /\ result_hash[p] = NoCode
  BY PhaseIs DEF CodesInv, Decisions!WorkerDoes, Decisions!WorkerEnds, Decisions!WorkerGivesUp
<1>2. ASSUME NEW q \in Purchases, Phases'[q] = Phases[q]  PROVE state'[q] = state[q]
  BY <1>2 DEF Phases, TypeOK
<1>3. ASSUME NEW phase, NEW s, Phases' = [Phases EXCEPT ![p] = phase], state'[p] = s
      PROVE  state' = [state EXCEPT ![p] = s]
  <2>1. \A q \in Purchases \ {p} : Phases'[q] = Phases[q]
    BY <1>3 DEF Phases
  <2> QED  BY <1>2, <1>3, <2>1 DEF TypeOK
<1>4. ASSUME NEW outcome \in {"succeeded", "failed"}, Phases' = [Phases EXCEPT ![p] = outcome]
      PROVE  state' = [state EXCEPT ![p] = outcome]
  <2>1. Phases'[p] = outcome
    BY <1>4 DEF Phases
  <2>2. state'[p] = outcome
    BY <2>1 DEF Phases, TypeOK
  <2> QED  BY <1>3, <1>4, <2>2
<1>5. CASE Decisions!WorkerGivesUp(p)
  <2>1. Phases' = [Phases EXCEPT ![p] = "attention"] /\ result_hash' = result_hash
    BY <1>5 DEF Decisions!WorkerGivesUp
  <2>2. Phases'[p] = "attention"
    BY <2>1 DEF Phases
  <2>3. state'[p] = "requires_attention"
    BY <2>2 DEF Phases, TypeOK
  <2> QED  BY <1>1, <1>3, <2>1, <2>3 DEF WorkerLeaves
<1>6. ASSUME NEW outcome \in {"succeeded", "failed"}, NEW code \in Codes \cup {NoCode},
             Decisions!WorkerEnds(p, outcome, code)
      PROVE  WorkerLeaves(p) \/ WorkerSaves(p, code)
  <2>1. /\ code # NoCode <=> outcome = "succeeded" /\ p \notin Topups
        /\ ~ CodeIsTaken(p, code) /\ state' = [state EXCEPT ![p] = outcome]
        /\ result_hash' = [result_hash EXCEPT ![p] = code] /\ result_hash'[p] = code
    BY <1>4, <1>6, FreeIs DEF Decisions!WorkerEnds, Decisions!End, TypeOK
  <2>2. CASE outcome = "failed"
    <3>1. result_hash' = result_hash
      BY <1>1, <2>1, <2>2 DEF TypeOK
    <3> QED  BY <1>1, <2>1, <2>2, <3>1 DEF WorkerLeaves
  <2>3. CASE outcome = "succeeded"
    BY <1>1, <2>1, <2>3 DEF WorkerSaves
  <2> QED  BY <2>2, <2>3
<1> QED  BY <1>5, <1>6 DEF Decisions!WorkerDoes, Decisions!Outcome

-----------------------------------------------------------------------------
(* Why requests cannot wait in a circle.  A request at work is served, but *)
(* while it waits for the lock of a row, or for the outcome of somebody who*)
(* has written the same code or the same key.                              *)
AtWork(r) == pc[r] \notin {"new", "answered"}

CanBeServed(r) ==
    \/ pc[r] \in {"inserted", "audited"}
    \/ pc[r] = "locking" /\ holders[call[r].purchase] = {}
    \/ pc[r] = "locked" /\ Settled(call[r]) # "none"
    \/ pc[r] = "locked" /\ (call[r].code # NoCode => ~ CodeIsPending(call[r].purchase, call[r].code))
    \/ pc[r] = "updated" /\ \A d \in Writing({"inserted"}) : d.key # call[r].key
    \/ pc[r] = "reading" /\ \A d \in Writing({"audited"}) : d.key # call[r].key

WaitsFor(r, q) ==
    \/ pc[r] = "locking" /\ q \in holders[call[r].purchase]
    \/ /\ pc[r] = "locked" /\ pc[q] \in Writers
       /\ call[q].code = call[r].code /\ call[r].code # NoCode
       /\ call[q].purchase # call[r].purchase
    \/ pc[r] = "updated" /\ pc[q] = "inserted" /\ call[q].key = call[r].key
    \/ pc[r] = "reading" /\ pc[q] = "audited" /\ call[q].key = call[r].key

Progress == [locking |-> 0, locked |-> 1, reading |-> 1, updated |-> 2, audited |-> 2, inserted |-> 3]

NoCircle ==
    /\ \A r \in Requests : AtWork(r) => CanBeServed(r) \/ \E q \in Requests : WaitsFor(r, q)
    /\ \A r, q \in Requests : WaitsFor(r, q) => AtWork(q) /\ Progress[pc[q]] > Progress[pc[r]]
    /\ (\E r \in Requests : AtWork(r)) => \E r \in Requests : AtWork(r) /\ CanBeServed(r)

(* The guards of the statements say no less.                               *)
LEMMA ServedIfItCanBe ==
  ASSUME NEW r \in Requests, Serve(r)
  PROVE  AtWork(r) /\ CanBeServed(r)
  BY DEF Serve, LockRow, Refuse, Update, InsertAction, CommitDecision, AuditAccess, ShowResult,
     AtWork, CanBeServed

(* Whoever is in the way has come further, and is at work.                 *)
LEMMA WaitsForTheFurther ==
  ASSUME IInv, NEW r \in Requests, NEW q \in Requests, WaitsFor(r, q)
  PROVE  AtWork(q) /\ Progress[pc[q]] > Progress[pc[r]]
<1>1. CASE pc[r] = "locking" /\ q \in holders[call[r].purchase]
  <2>1. call[r] \in Calls /\ call[r].purchase \in Purchases
    BY <1>1, CallType DEF IInv, CallInv
  <2>2. pc[q] \in {"locked", "updated", "inserted", "reading", "audited"}
    BY <1>1, <2>1 DEF IInv, LockInv, Deciding, Showing
  <2> QED  BY <1>1, <2>2 DEF AtWork, Progress
<1>2. CASE pc[r] = "locked" /\ pc[q] \in Writers
  BY <1>2 DEF AtWork, Progress, Writers
<1>3. CASE pc[r] = "updated" /\ pc[q] = "inserted"
  BY <1>3 DEF AtWork, Progress
<1>4. CASE pc[r] = "reading" /\ pc[q] = "audited"
  BY <1>4 DEF AtWork, Progress
<1> QED  BY <1>1, <1>2, <1>3, <1>4 DEF WaitsFor

(* Nothing else is waited for.                                             *)
LEMMA WaitsForSomebody ==
  ASSUME IInv, NEW r \in Requests, AtWork(r), ~ CanBeServed(r)
  PROVE  \E q \in Requests : WaitsFor(r, q)
<1>1. pc[r] \in {"locking", "locked", "updated", "reading"}
  BY DEF IInv, TypeOK, AtWork, CanBeServed
<1>2. CASE pc[r] = "locking"
  <2>1. call[r].purchase \in Purchases
    BY <1>2, CallType DEF IInv, CallInv
  <2>2. PICK q \in holders[call[r].purchase] : TRUE
    BY <1>2 DEF CanBeServed
  <2>3. q \in Requests
    BY <2>1, <2>2 DEF IInv, TypeOK
  <2> QED  BY <1>2, <2>2, <2>3 DEF WaitsFor
<1>3. CASE pc[r] = "locked"
  BY <1>3 DEF CanBeServed, CodeIsPending, Writing, Writers, WaitsFor
<1>4. CASE pc[r] = "updated"
  BY <1>4 DEF CanBeServed, Writing, WaitsFor
<1>5. CASE pc[r] = "reading"
  BY <1>5 DEF CanBeServed, Writing, WaitsFor
<1> QED  BY <1>1, <1>2, <1>3, <1>4, <1>5

(* repository.py:373-446 and :507-532: whatever rows, codes and request ids*)
(* requests have in common, none waits for one that is done or that waits, *)
(* directly or not, for it; while any is at work, one of them is served.   *)
THEOREM NobodyWaitsInACircle == Spec => []NoCircle
<1>1. IInv => NoCircle
  <2> SUFFICES ASSUME IInv  PROVE NoCircle
    OBVIOUS
  <2>1. ASSUME NEW r \in Requests, AtWork(r), \A q \in Requests : AtWork(q) => ~ CanBeServed(q)
        PROVE  FALSE
    <3>1. \A q \in Requests : AtWork(q) =>
             \E u \in Requests : AtWork(u) /\ Progress[pc[u]] > Progress[pc[q]]
      BY <2>1, WaitsForSomebody, WaitsForTheFurther
    <3>2. \A q \in Requests : AtWork(q) => Progress[pc[q]] \in 0..3
      BY DEF IInv, TypeOK, AtWork, Progress
    <3>3. PICK a \in Requests : AtWork(a) /\ Progress[pc[a]] >= 1
      BY <2>1, <3>1, <3>2
    <3>4. PICK b \in Requests : AtWork(b) /\ Progress[pc[b]] >= 2
      BY <3>1, <3>2, <3>3
    <3>5. PICK c \in Requests : AtWork(c) /\ Progress[pc[c]] >= 3
      BY <3>1, <3>2, <3>4
    <3> QED  BY <3>1, <3>2, <3>5
  <2> QED  BY <2>1, WaitsForSomebody, WaitsForTheFurther DEF NoCircle
<1> QED  BY <1>1, Invariance, PTL
=============================================================================
