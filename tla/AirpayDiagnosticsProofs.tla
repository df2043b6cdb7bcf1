----------------------- MODULE AirpayDiagnosticsProofs -----------------------
(***************************************************************************)
(* Theorems about AirpayDiagnostics, for any runs, handlers, services and  *)
(* failures.  A handler that lost the lock may still be at work; what      *)
(* saves the reports is that it cannot write, and what saves Airpay from   *)
(* being asked twice is that a position is taken before it is asked about. *)
(***************************************************************************)
EXTENDS AirpayDiagnosticsProperties, TLAPS

Stepping == {"sweeping", "picking", "asking", "checking", "saving", "closing"}
OnPosition == {"asking", "checking", "saving"}
Running(r) == {i \in Positions : item[r][i] = "running"}

(* A handler at work knows its run, and its position once it has one.      *)
BusyInv ==
    \A h \in Handlers :
        /\ pc[h] # "idle" => work[h] \in Runs
        /\ pc[h] \in OnPosition => asked[h] \in Positions

(* Whoever holds the lock finds its run as it read it, and running         *)
(* is what it has taken itself, once it has swept.                         *)
LockInv ==
    \A h \in Handlers : lock = h =>
        /\ pc[h] # "idle"
        /\ pc[h] = "listing" => run[work[h]] = "absent"
        /\ pc[h] \in Stepping => run[work[h]] = "active"
        /\ pc[h] \in {"picking", "closing"} => Running(work[h]) = {}
        /\ pc[h] \in OnPosition => Running(work[h]) = {asked[h]}

(* A run has no positions before it exists.                                *)
AbsentInv ==
    \A r \in Runs : run[r] = "absent" => \A i \in Positions : item[r][i] = "absent"

(* A position about to be asked about was taken, by nobody else, and Airpay*)
(* has not been asked about it.                                            *)
AskInv ==
    \A h \in Handlers : pc[h] = "asking" =>
        /\ item[work[h]][asked[h]] \notin {"absent", "pending"}
        /\ checks[work[h]][asked[h]] = 0
        /\ \A g \in Handlers :
               pc[g] = "asking" /\ work[g] = work[h] /\ asked[g] = asked[h] => g = h

IInv == TypeOK /\ BusyInv /\ LockInv /\ AbsentInv /\ AskInv /\ CheckedOnce /\ CompletedIsWhole

(* At first there is no run and nobody is at work.                         *)
LEMMA InitIInv == Init => IInv
  BY NoHandlerAssumption, BoundsAssumption DEF Init, IInv, TypeOK, BusyInv,
     LockInv, AbsentInv, AskInv, CheckedOnce, CompletedIsWhole, OnPosition

(* A request to start a survey takes the lock and finds no active run.     *)
LEMMA BeginStartStep ==
  ASSUME IInv, NEW h \in Handlers, NEW r \in Runs, BeginStart(h, r)
  PROVE  IInv'
<1>1. TypeOK'
  BY DEF IInv, TypeOK, BeginStart, Goto, Acquire, runVars
<1>2. BusyInv'
  BY DEF IInv, TypeOK, BusyInv, OnPosition, BeginStart, Goto, Acquire
<1>3. LockInv'
  BY DEF IInv, TypeOK, LockInv, Stepping, OnPosition, BeginStart, Goto,
     Acquire, runVars
<1>4. AbsentInv'
  BY DEF IInv, AbsentInv, BeginStart, runVars
<1>5. AskInv'
  BY DEF IInv, AskInv, BeginStart, Goto, Acquire, runVars
<1>6. CheckedOnce'
  BY DEF IInv, CheckedOnce, BeginStart, runVars
<1>7. CompletedIsWhole'
  BY DEF IInv, CompletedIsWhole, BeginStart, runVars
<1> QED  BY <1>1, <1>2, <1>3, <1>4, <1>5, <1>6, <1>7 DEF IInv

(* The run comes into being with its items, pending.                       *)
LEMMA CreateStep ==
  ASSUME IInv, NEW h \in Handlers, Create(h)
  PROVE  IInv'
<1>1. TypeOK'
  BY DEF IInv, TypeOK, BusyInv, Create, Goto, Release
<1>2. BusyInv'
  BY DEF IInv, TypeOK, BusyInv, OnPosition, Create, Goto, Release
<1>3. LockInv'
  BY NoHandlerAssumption DEF IInv, LockInv, Create, Release, Connected
<1>4. AbsentInv'
  BY DEF IInv, TypeOK, AbsentInv, Create
<1>5. AskInv'
  BY DEF IInv, BusyInv, AskInv, LockInv, AbsentInv, OnPosition, Create,
     Goto, Release, Connected
<1>6. CheckedOnce'
  BY DEF IInv, CheckedOnce, LockInv, AbsentInv, Create, Connected
<1>7. CompletedIsWhole'
  BY DEF IInv, TypeOK, CompletedIsWhole, Create
<1> QED  BY <1>1, <1>2, <1>3, <1>4, <1>5, <1>6, <1>7 DEF IInv

(* Without a catalogue the request ends.                                   *)
LEMMA RefuseCatalogueStep ==
  ASSUME IInv, NEW h \in Handlers, RefuseCatalogue(h)
  PROVE  IInv'
<1>1. TypeOK'
  BY DEF IInv, TypeOK, RefuseCatalogue, Goto, Release, runVars
<1>2. BusyInv'
  BY DEF IInv, TypeOK, BusyInv, OnPosition, RefuseCatalogue, Goto, Release
<1>3. LockInv'
  BY NoHandlerAssumption DEF IInv, LockInv, Running, RefuseCatalogue, Goto,
     Release, runVars
<1>4. AbsentInv'
  BY DEF IInv, AbsentInv, RefuseCatalogue, runVars
<1>5. AskInv'
  BY DEF IInv, AskInv, RefuseCatalogue, Goto, Release, runVars
<1>6. CheckedOnce'
  BY DEF IInv, CheckedOnce, RefuseCatalogue, runVars
<1>7. CompletedIsWhole'
  BY DEF IInv, CompletedIsWhole, RefuseCatalogue, runVars
<1> QED  BY <1>1, <1>2, <1>3, <1>4, <1>5, <1>6, <1>7 DEF IInv

(* A run is cancelled while nobody holds the lock.                         *)
LEMMA CancelStep ==
  ASSUME IInv, NEW r \in Runs, Cancel(r)
  PROVE  IInv'
<1>1. TypeOK'
  BY DEF IInv, TypeOK, Cancel, handlerVars
<1>2. BusyInv'
  BY DEF IInv, BusyInv, Cancel, handlerVars
<1>3. LockInv'
  BY NoHandlerAssumption DEF IInv, LockInv, Cancel
<1>4. AbsentInv'
  BY DEF IInv, AbsentInv, Cancel
<1>5. AskInv'
  BY DEF IInv, AskInv, Cancel, handlerVars
<1>6. CheckedOnce'
  BY DEF IInv, CheckedOnce, Cancel
<1>7. CompletedIsWhole'
  BY DEF IInv, CompletedIsWhole, Cancel
<1> QED  BY <1>1, <1>2, <1>3, <1>4, <1>5, <1>6, <1>7 DEF IInv

(* A step takes the lock of an active run.                                 *)
LEMMA BeginStepStep ==
  ASSUME IInv, NEW h \in Handlers, NEW r \in Runs, BeginStep(h, r)
  PROVE  IInv'
<1>1. TypeOK'
  BY DEF IInv, TypeOK, BeginStep, Goto, Acquire, runVars
<1>2. BusyInv'
  BY DEF IInv, TypeOK, BusyInv, OnPosition, BeginStep, Goto, Acquire
<1>3. LockInv'
  BY DEF IInv, TypeOK, LockInv, OnPosition, BeginStep, Goto, Acquire,
     runVars
<1>4. AbsentInv'
  BY DEF IInv, AbsentInv, BeginStep, runVars
<1>5. AskInv'
  BY DEF IInv, AskInv, BeginStep, Goto, Acquire, runVars
<1>6. CheckedOnce'
  BY DEF IInv, CheckedOnce, BeginStep, runVars
<1>7. CompletedIsWhole'
  BY DEF IInv, CompletedIsWhole, BeginStep, runVars
<1> QED  BY <1>1, <1>2, <1>3, <1>4, <1>5, <1>6, <1>7 DEF IInv

(* What is left running is closed; nothing is running then.                *)
LEMMA SweepStep ==
  ASSUME IInv, NEW h \in Handlers, Sweep(h)
  PROVE  IInv'
<1>1. TypeOK'
  BY DEF IInv, TypeOK, Ended, Sweep, Goto, Swept
<1>2. BusyInv'
  BY DEF IInv, BusyInv, OnPosition, Sweep, Goto
<1>3. LockInv'
  BY DEF IInv, TypeOK, BusyInv, LockInv, Stepping, OnPosition, Running,
     Sweep, Goto, Connected, Swept
<1>4. AbsentInv'
  BY DEF IInv, AbsentInv, Sweep, Swept
<1>5. AskInv'
  BY DEF IInv, BusyInv, AskInv, OnPosition, Sweep, Goto, Swept
<1>6. CheckedOnce'
  BY DEF IInv, CheckedOnce, Sweep, Swept
<1>7. CompletedIsWhole'
  BY DEF IInv, CompletedIsWhole, Sweep, Swept
<1> QED  BY <1>1, <1>2, <1>3, <1>4, <1>5, <1>6, <1>7 DEF IInv

(* A step that comes too early ends.                                       *)
LEMMA PauseStep ==
  ASSUME IInv, NEW h \in Handlers, Pause(h)
  PROVE  IInv'
<1>1. TypeOK'
  BY DEF IInv, TypeOK, Pause, Goto, Release, runVars
<1>2. BusyInv'
  BY DEF IInv, TypeOK, BusyInv, OnPosition, Pause, Goto, Release
<1>3. LockInv'
  BY NoHandlerAssumption DEF IInv, LockInv, Running, Pause, Goto, Release,
     runVars
<1>4. AbsentInv'
  BY DEF IInv, AbsentInv, Pause, runVars
<1>5. AskInv'
  BY DEF IInv, AskInv, Pause, Goto, Release, runVars
<1>6. CheckedOnce'
  BY DEF IInv, CheckedOnce, Pause, runVars
<1>7. CompletedIsWhole'
  BY DEF IInv, CompletedIsWhole, Pause, runVars
<1> QED  BY <1>1, <1>2, <1>3, <1>4, <1>5, <1>6, <1>7 DEF IInv

(* The first pending position is taken; it is the only one that runs.      *)
LEMMA PickStep ==
  ASSUME IInv, NEW h \in Handlers, Pick(h)
  PROVE  IInv'
<1>0. work[h] \in Runs
  BY DEF IInv, BusyInv, Pick
<1>a. \A r \in Runs, i \in Positions :
         item'[r][i] # item[r][i] => item[r][i] = "pending" /\ item'[r][i] = "running"
  BY <1>0 DEF IInv, TypeOK, Pick, Pending
<1>1. TypeOK'
  <2>1. item' \in [Runs -> [Positions -> {"absent", "pending", "running"} \cup Ended]]
    <3>1. ASSUME NEW i \in Pending(work[h]), item' = [item EXCEPT ![work[h]][i] = "running"]
          PROVE  item' \in [Runs -> [Positions -> {"absent", "pending", "running"} \cup Ended]]
      BY <1>0, <3>1 DEF IInv, TypeOK, Pending
    <3> QED  BY <3>1 DEF IInv, TypeOK, Pick
  <2>2. asked' \in [Handlers -> {0} \cup Positions] /\ pc' \in [Handlers -> {"idle", "listing",
           "sweeping", "picking", "asking", "checking", "saving", "closing"}]
    BY DEF IInv, TypeOK, Pick, Pending, Goto
  <2> QED  BY <2>1, <2>2 DEF IInv, TypeOK, Pick
<1>2. BusyInv'
  BY DEF IInv, TypeOK, BusyInv, OnPosition, Pick, Goto, Pending
<1>3. LockInv'
  BY DEF IInv, TypeOK, BusyInv, LockInv, Stepping, OnPosition, Running,
     Pick, Goto, Connected, Pending
<1>4. AbsentInv'
  BY <1>a DEF IInv, AbsentInv, Pick
<1>5. AskInv'
  <2>1. CASE Pending(work[h]) = {}
    BY <2>1 DEF IInv, TypeOK, AskInv, Pick, Goto
  <2>2. ASSUME NEW i \in Pending(work[h]), asked' = [asked EXCEPT ![h] = i], Goto(h, "asking"),
               item' = [item EXCEPT ![work[h]][i] = "running"]
        PROVE  AskInv'
    <3>1. item[work[h]][i] = "pending" /\ item'[work[h]][i] = "running"
      BY <1>0, <2>2 DEF IInv, TypeOK, Pending
    <3>2. checks[work[h]][i] = 0
      BY <1>0, <3>1, <2>2 DEF IInv, CheckedOnce, Pending
    <3>3. \A g \in Handlers \ {h} :
             pc[g] = "asking" => ~ (work[g] = work[h] /\ asked[g] = i)
      BY <3>1 DEF IInv, AskInv
    <3> QED  BY <1>0, <1>a, <2>2, <3>1, <3>2, <3>3
             DEF IInv, TypeOK, BusyInv, OnPosition, AskInv, Pick, Goto
  <2> QED  BY <2>1, <2>2 DEF Pick
<1>6. CheckedOnce'
  BY DEF IInv, TypeOK, BusyInv, CheckedOnce, LockInv, AbsentInv, Stepping,
     OnPosition, Running, Pick, Goto, Connected, Pending
<1>7. CompletedIsWhole'
  BY DEF IInv, TypeOK, CompletedIsWhole, Pick, Connected, Pending
<1> QED  BY <1>1, <1>2, <1>3, <1>4, <1>5, <1>6, <1>7 DEF IInv

(* Airpay is asked about a position that only this handler is about to ask *)
(* about.                                                                  *)
LEMMA AskStep ==
  ASSUME IInv, NEW h \in Handlers, Ask(h)
  PROVE  IInv'
<1>0. work[h] \in Runs /\ asked[h] \in Positions /\ checks[work[h]][asked[h]] = 0
  BY DEF IInv, BusyInv, AskInv, OnPosition, Ask
<1>a. \A r \in Runs, i \in Positions :
         checks'[r][i] # checks[r][i] => r = work[h] /\ i = asked[h] /\ checks'[r][i] = 1
  <2> SUFFICES ASSUME NEW r \in Runs, NEW i \in Positions
               PROVE  checks'[r][i] # checks[r][i] => r = work[h] /\ i = asked[h] /\ checks'[r][i] = 1
    OBVIOUS
  <2>1. CASE checks' = [checks EXCEPT ![work[h]][asked[h]] = checks[work[h]][asked[h]] + 1]
    <3>1. CASE r = work[h] /\ i = asked[h]
      <4>1. checks'[r][i] = checks[r][i] + 1
        BY <1>0, <2>1, <3>1 DEF IInv, TypeOK
      <4> QED  BY <1>0, <3>1, <4>1
    <3>2. CASE ~ (r = work[h] /\ i = asked[h])
      BY <1>0, <2>1, <3>2 DEF IInv, TypeOK
    <3> QED  BY <3>1, <3>2
  <2>2. CASE UNCHANGED checks
    BY <2>2
  <2> QED  BY <2>1, <2>2 DEF Ask
<1>1. TypeOK'
  <2>1. CASE checks' = [checks EXCEPT ![work[h]][asked[h]] = checks[work[h]][asked[h]] + 1]
    <3>1. checks' \in [Runs -> [Positions -> Nat]]
      BY <1>0, <2>1 DEF IInv, TypeOK
    <3> QED  BY <3>1 DEF IInv, TypeOK, Ask, Goto, runVars
  <2>2. CASE UNCHANGED checks
    BY <2>2 DEF IInv, TypeOK, Ask, Goto, runVars
  <2> QED  BY <2>1, <2>2 DEF Ask
<1>2. BusyInv'
  BY DEF IInv, TypeOK, BusyInv, OnPosition, Ask, Goto
<1>3. LockInv'
  BY DEF IInv, TypeOK, LockInv, Stepping, OnPosition, Running, Ask, Goto,
     runVars
<1>4. AbsentInv'
  BY DEF IInv, AbsentInv, Ask, runVars
<1>5. AskInv'
  BY DEF IInv, TypeOK, BusyInv, AskInv, OnPosition, Ask, Goto, runVars
<1>6. CheckedOnce'
  BY <1>0, <1>a DEF IInv, TypeOK, AskInv, CheckedOnce, Ask, Goto, runVars
<1>7. CompletedIsWhole'
  BY DEF IInv, CompletedIsWhole, Ask, runVars
<1> QED  BY <1>1, <1>2, <1>3, <1>4, <1>5, <1>6, <1>7 DEF IInv

(* An answer, or none, arrives.                                            *)
LEMMA AnsweredStep ==
  ASSUME IInv, NEW h \in Handlers, Answered(h)
  PROVE  IInv'
<1>1. TypeOK'
  BY DEF IInv, TypeOK, Answered, Goto, runVars
<1>2. BusyInv'
  BY DEF IInv, BusyInv, OnPosition, Answered, Goto
<1>3. LockInv'
  BY DEF IInv, LockInv, Stepping, OnPosition, Running, Answered, Goto,
     runVars
<1>4. AbsentInv'
  BY DEF IInv, AbsentInv, Answered, runVars
<1>5. AskInv'
  BY DEF IInv, AskInv, Answered, Goto, runVars
<1>6. CheckedOnce'
  BY DEF IInv, CheckedOnce, Answered, runVars
<1>7. CompletedIsWhole'
  BY DEF IInv, CompletedIsWhole, Answered, runVars
<1> QED  BY <1>1, <1>2, <1>3, <1>4, <1>5, <1>6, <1>7 DEF IInv

(* The report is written while the lock is still held.                     *)
LEMMA SaveStep ==
  ASSUME IInv, NEW h \in Handlers, Save(h)
  PROVE  IInv'
<1>1. TypeOK'
  BY DEF IInv, TypeOK, Ended, Save, Goto
<1>2. BusyInv'
  BY DEF IInv, BusyInv, OnPosition, Save, Goto
<1>3. LockInv'
  BY DEF IInv, TypeOK, BusyInv, LockInv, Stepping, OnPosition, Running,
     Save, Goto, Connected
<1>4. AbsentInv'
  BY DEF IInv, LockInv, AbsentInv, Stepping, Save, Connected
<1>5. AskInv'
  BY DEF IInv, AskInv, Save, Goto
<1>6. CheckedOnce'
  BY DEF IInv, CheckedOnce, Save
<1>7. CompletedIsWhole'
  BY DEF IInv, CompletedIsWhole, Save
<1> QED  BY <1>1, <1>2, <1>3, <1>4, <1>5, <1>6, <1>7 DEF IInv

(* The run is completed if nothing is pending.                             *)
LEMMA CloseStep ==
  ASSUME IInv, NEW h \in Handlers, Close(h)
  PROVE  IInv'
<1>1. TypeOK'
  BY DEF IInv, TypeOK, Close, Goto, Release, Progress
<1>2. BusyInv'
  BY DEF IInv, TypeOK, BusyInv, OnPosition, Close, Goto, Release
<1>3. LockInv'
  BY NoHandlerAssumption DEF IInv, LockInv, Close, Release, Connected
<1>4. AbsentInv'
  BY DEF IInv, AbsentInv, Close, Progress
<1>5. AskInv'
  BY DEF IInv, AskInv, Close, Goto, Release
<1>6. CheckedOnce'
  BY DEF IInv, CheckedOnce, Close
<1>7. CompletedIsWhole'
  BY DEF IInv, LockInv, CompletedIsWhole, Running, Close, Connected,
     Progress, Pending
<1> QED  BY <1>1, <1>2, <1>3, <1>4, <1>5, <1>6, <1>7 DEF IInv

(* A broken connection ends the request.                                   *)
LEMMA FailStep ==
  ASSUME IInv, NEW h \in Handlers, Fail(h)
  PROVE  IInv'
<1>1. TypeOK'
  BY DEF IInv, TypeOK, Fail, Goto, Release, runVars
<1>2. BusyInv'
  BY DEF IInv, TypeOK, BusyInv, OnPosition, Fail, Goto, Release
<1>3. LockInv'
  BY DEF IInv, LockInv, Running, Fail, Goto, Release, Connected, runVars
<1>4. AbsentInv'
  BY DEF IInv, AbsentInv, Fail, runVars
<1>5. AskInv'
  BY DEF IInv, AskInv, Fail, Goto, Release, runVars
<1>6. CheckedOnce'
  BY DEF IInv, CheckedOnce, Fail, runVars
<1>7. CompletedIsWhole'
  BY DEF IInv, CompletedIsWhole, Fail, runVars
<1> QED  BY <1>1, <1>2, <1>3, <1>4, <1>5, <1>6, <1>7 DEF IInv

(* A handler dies with its lock.                                           *)
LEMMA DiesStep ==
  ASSUME IInv, NEW h \in Handlers, Dies(h)
  PROVE  IInv'
<1>1. TypeOK'
  BY BoundsAssumption DEF IInv, TypeOK, Dies, Goto, Release, runVars
<1>2. BusyInv'
  BY DEF IInv, TypeOK, BusyInv, OnPosition, Dies, Goto, Release
<1>3. LockInv'
  BY NoHandlerAssumption DEF IInv, LockInv, Running, Dies, Goto, Release,
     runVars
<1>4. AbsentInv'
  BY DEF IInv, AbsentInv, Dies, runVars
<1>5. AskInv'
  BY DEF IInv, TypeOK, AskInv, Dies, Goto, Release, runVars
<1>6. CheckedOnce'
  BY DEF IInv, CheckedOnce, Dies, runVars
<1>7. CompletedIsWhole'
  BY DEF IInv, CompletedIsWhole, Dies, runVars
<1> QED  BY <1>1, <1>2, <1>3, <1>4, <1>5, <1>6, <1>7 DEF IInv

(* A handler loses the lock and goes on.                                   *)
LEMMA DisconnectStep ==
  ASSUME IInv, NEW h \in Handlers, Disconnect(h)
  PROVE  IInv'
<1>1. TypeOK'
  BY BoundsAssumption DEF IInv, TypeOK, Disconnect, runVars, handlerVars
<1>2. BusyInv'
  BY DEF IInv, BusyInv, Disconnect, handlerVars
<1>3. LockInv'
  BY NoHandlerAssumption DEF IInv, LockInv, Disconnect
<1>4. AbsentInv'
  BY DEF IInv, AbsentInv, Disconnect, runVars
<1>5. AskInv'
  BY DEF IInv, AskInv, Disconnect, runVars, handlerVars
<1>6. CheckedOnce'
  BY DEF IInv, CheckedOnce, Disconnect, runVars
<1>7. CompletedIsWhole'
  BY DEF IInv, CompletedIsWhole, Disconnect, runVars
<1> QED  BY <1>1, <1>2, <1>3, <1>4, <1>5, <1>6, <1>7 DEF IInv

(* A second passes.                                                        *)
LEMMA SecondPassesStep ==
  ASSUME IInv, NEW r \in Runs, SecondPasses(r)
  PROVE  IInv'
<1>1. TypeOK'
  BY DEF IInv, TypeOK, SecondPasses, handlerVars
<1>2. BusyInv'
  BY DEF IInv, BusyInv, SecondPasses, handlerVars
<1>3. LockInv'
  BY DEF IInv, LockInv, Running, SecondPasses, handlerVars
<1>4. AbsentInv'
  BY DEF IInv, AbsentInv, SecondPasses
<1>5. AskInv'
  BY DEF IInv, AskInv, SecondPasses, handlerVars
<1>6. CheckedOnce'
  BY DEF IInv, CheckedOnce, SecondPasses
<1>7. CompletedIsWhole'
  BY DEF IInv, CompletedIsWhole, SecondPasses
<1> QED  BY <1>1, <1>2, <1>3, <1>4, <1>5, <1>6, <1>7 DEF IInv

(* The invariant is inductive.                                             *)
LEMMA NextIInv == IInv /\ [Next]_vars => IInv'
<1> SUFFICES ASSUME IInv, [Next]_vars  PROVE IInv'
  OBVIOUS
<1>1. ASSUME NEW h \in Handlers, HandlerStep(h)  PROVE IInv'
  BY <1>1, CreateStep, RefuseCatalogueStep, SweepStep, PauseStep, PickStep, AskStep,
     AnsweredStep, SaveStep, CloseStep, FailStep DEF HandlerStep
<1>2. CASE UNCHANGED vars
  BY <1>2 DEF vars, runVars, handlerVars, IInv, TypeOK, BusyInv, LockInv, AbsentInv, AskInv,
     CheckedOnce, CompletedIsWhole, Running
<1> QED  BY <1>1, <1>2, BeginStartStep, BeginStepStep, DiesStep, DisconnectStep, CancelStep,
            SecondPassesStep DEF Next

(* Every behaviour of the survey has the invariant.                        *)
THEOREM Invariance == Spec => []IInv
  BY InitIInv, NextIInv, PTL DEF Spec

(* Runs, items, the lock and handlers are well typed in every behaviour.   *)
THEOREM TypeCorrect == Spec => []TypeOK
<1>1. IInv => TypeOK
  BY DEF IInv
<1> QED  BY <1>1, Invariance, PTL

(* airpay_diagnostics.py:130: no check is repeated, whoever died.          *)
THEOREM ChecksAreNotRepeated == Spec => []CheckedOnce
<1>1. IInv => CheckedOnce
  BY DEF IInv
<1> QED  BY <1>1, Invariance, PTL

(* airpay_diagnostics.py:161: a run is completed with a report of each of  *)
(* its positions.                                                          *)
THEOREM CompletedRunsAreWhole == Spec => []CompletedIsWhole
<1>1. IInv => CompletedIsWhole
  BY DEF IInv
<1> QED  BY <1>1, Invariance, PTL

(* A step leaves the report of a run as it is, unless it is that of the    *)
(* handler with the lock, whose run is active.                             *)
LEMMA StandStep ==
  ASSUME IInv, [Next]_vars, NEW q \in Runs
  PROVE  ReportStands(q)
<1>0. UNCHANGED <<run, item>> => ReportStands(q)
  BY DEF ReportStands
<1>1. ASSUME NEW h \in Handlers, Create(h)  PROVE ReportStands(q)
  BY <1>1 DEF IInv, TypeOK, BusyInv, OnPosition, Ended, ReportStands, Create,
     Release, Connected, LockInv, AbsentInv
<1>2. ASSUME NEW r \in Runs, Cancel(r)  PROVE ReportStands(q)
  BY <1>2 DEF IInv, TypeOK, BusyInv, OnPosition, Ended, ReportStands, Cancel
<1>3. ASSUME NEW h \in Handlers, Sweep(h)  PROVE ReportStands(q)
  BY <1>3 DEF IInv, TypeOK, BusyInv, OnPosition, Ended, ReportStands, Sweep,
     Connected, Swept, LockInv, Stepping
<1>4. ASSUME NEW h \in Handlers, Pick(h)  PROVE ReportStands(q)
  BY <1>4 DEF IInv, TypeOK, BusyInv, OnPosition, Ended, ReportStands, Pick,
     Connected, Pending, LockInv, Stepping
<1>5. ASSUME NEW h \in Handlers, Save(h)  PROVE ReportStands(q)
  BY <1>5 DEF IInv, TypeOK, BusyInv, OnPosition, Ended, ReportStands, Save,
     Connected, LockInv, Stepping, Running
<1>6. ASSUME NEW h \in Handlers, Close(h)  PROVE ReportStands(q)
  BY <1>6 DEF IInv, TypeOK, BusyInv, OnPosition, Ended, ReportStands, Close,
     Connected, LockInv, Stepping
<1>7. ASSUME NEW h \in Handlers, NEW r \in Runs, BeginStart(h, r) \/ BeginStep(h, r)
      PROVE  ReportStands(q)
  BY <1>0, <1>7 DEF BeginStart, BeginStep, runVars
<1>8. ASSUME NEW h \in Handlers,
             \/ RefuseCatalogue(h) \/ Pause(h) \/ Ask(h) \/ Answered(h)
             \/ Fail(h) \/ Dies(h) \/ Disconnect(h)
      PROVE  ReportStands(q)
  BY <1>0, <1>8 DEF RefuseCatalogue, Pause, Ask, Answered, Fail, Dies, Disconnect, runVars
<1>9. ASSUME NEW r \in Runs, SecondPasses(r)  PROVE ReportStands(q)
  BY <1>0, <1>9 DEF SecondPasses
<1>10. CASE UNCHANGED vars
  BY <1>0, <1>10 DEF vars, runVars
<1> QED  BY <1>1, <1>2, <1>3, <1>4, <1>5, <1>6, <1>7, <1>8, <1>9, <1>10 DEF Next, HandlerStep

(* airpay_diagnostics.py:133, 161: a step that began while its run was     *)
(* active writes nothing after the run has ended, since it can only write  *)
(* while it has the lock, and no report is written twice.                  *)
THEOREM ReportsAreKept == Spec => ReportsStand
<1>1. IInv /\ [Next]_vars => [\A r \in Runs : ReportStands(r)]_vars
  BY StandStep
<1> QED  BY <1>1, Invariance, PTL DEF Spec, ReportsStand

=============================================================================
