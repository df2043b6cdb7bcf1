----------------------- MODULE AirpayMigrationsProofs ------------------------
(***************************************************************************)
(* Theorems about AirpayMigrations, for any runners, files, statements,    *)
(* versions and failures, and about the splitter of its files, for any     *)
(* texts.                                                                  *)
(***************************************************************************)
EXTENDS SqlStatementsProperties, WellFoundedInduction, TLAPS

(* A run is at work exactly while it holds the lock.                       *)
LockInv == \A r \in Runners : lock = r <=> pc[r] # "idle"

(* What a run has left behind is marked.                                   *)
PrefixInv ==
    \A r \in Runners : pc[r] # "idle" =>
        \A g \in Files : g < at[r] => journal[g] # Unmarked

(* A run applies a file that is not marked, and has executed every         *)
(* statement before the next one; before the mark, all of them.            *)
DoneInv ==
    \A r \in Runners : pc[r] \in {"applying", "marking"} =>
        /\ at[r] \in Files \ Legacy
        /\ journal[at[r]] = Unmarked
        /\ pc[r] = "applying" => statement[r] \in Statements(at[r])
        /\ \A k \in Statements(at[r]) :
               pc[r] = "marking" \/ k < statement[r] => <<text[r], k>> \in done[at[r]]

IInv == TypeOK /\ LockInv /\ PrefixInv /\ DoneInv

(* Statements are numbered from 1, and the one without a successor is the  *)
(* last.                                                                   *)
LEMMA StatementNumbers ==
  ASSUME NEW f \in Files
  PROVE  /\ 1 \in Statements(f)
         /\ \A k \in Statements(f) : k \in Nat \ {0}
         /\ \A n \in Statements(f) : n + 1 \notin Statements(f) =>
                \A k \in Statements(f) : k < n \/ k = n
  BY BoundsAssumption DEF Statements

(* Before the first run nothing is marked and nobody is at work.           *)
LEMMA InitIInv == Init => IInv
  BY RunnersAssumption, BoundsAssumption, FilesAssumption
     DEF Init, IInv, TypeOK, LockInv, PrefixInv, DoneInv, Versions, Unmarked, Files

(* A run begins with the first file, before which there is none.           *)
LEMMA BeginStep ==
  ASSUME IInv, NEW r \in Runners, Begin(r)
  PROVE  IInv'
<1>1. TypeOK'
  <2>1. lock' \in Runners \cup {NoRunner}
    BY DEF IInv, TypeOK, Begin
  <2>2. pc' \in [Runners -> {"idle", "reading", "applying", "marking"}]
    BY DEF IInv, TypeOK, Begin
  <2>3. at' \in [Runners -> 1 .. MaxFiles + 1]
    BY FilesAssumption DEF IInv, TypeOK, Begin, Files
  <2> QED  BY <2>1, <2>2, <2>3 DEF IInv, TypeOK, Begin, dbVars
<1>2. LockInv'
  BY RunnersAssumption DEF IInv, TypeOK, LockInv, Begin, Unlocked
<1>3. PrefixInv'
  BY DEF IInv, TypeOK, PrefixInv, Begin, dbVars, Files
<1>4. DoneInv'
  BY DEF IInv, DoneInv, Begin, dbVars
<1> QED  BY <1>1, <1>2, <1>3, <1>4 DEF IInv

(* A run ends with its lock.                                               *)
LEMMA FinishStep ==
  ASSUME IInv, NEW r \in Runners, Finish(r)
  PROVE  IInv'
<1>1. TypeOK'
  BY DEF IInv, TypeOK, Finish, End, dbVars
<1>2. LockInv'
  BY RunnersAssumption DEF IInv, TypeOK, LockInv, Finish, End
<1>3. PrefixInv'
  BY DEF IInv, PrefixInv, Finish, End, dbVars
<1>4. DoneInv'
  BY DEF IInv, DoneInv, Finish, End, dbVars
<1> QED  BY <1>1, <1>2, <1>3, <1>4 DEF IInv

(* A run ends at a file that was changed.                                  *)
LEMMA RefuseChangedStep ==
  ASSUME IInv, NEW r \in Runners, RefuseChanged(r)
  PROVE  IInv'
<1>1. TypeOK'
  BY DEF IInv, TypeOK, RefuseChanged, End, dbVars
<1>2. LockInv'
  BY RunnersAssumption DEF IInv, TypeOK, LockInv, RefuseChanged, End
<1>3. PrefixInv'
  BY DEF IInv, PrefixInv, RefuseChanged, End, dbVars
<1>4. DoneInv'
  BY DEF IInv, DoneInv, RefuseChanged, End, dbVars
<1> QED  BY <1>1, <1>2, <1>3, <1>4 DEF IInv

(* A run ends at a file that cannot be repeated.                           *)
LEMMA RaiseClashStep ==
  ASSUME IInv, NEW r \in Runners, RaiseClash(r)
  PROVE  IInv'
<1>1. TypeOK'
  BY DEF IInv, TypeOK, RaiseClash, End, dbVars
<1>2. LockInv'
  BY RunnersAssumption DEF IInv, TypeOK, LockInv, RaiseClash, End
<1>3. PrefixInv'
  BY DEF IInv, PrefixInv, RaiseClash, End, dbVars
<1>4. DoneInv'
  BY DEF IInv, DoneInv, RaiseClash, End, dbVars
<1> QED  BY <1>1, <1>2, <1>3, <1>4 DEF IInv

(* A marked file is left behind.                                           *)
LEMMA SkipMarkedStep ==
  ASSUME IInv, NEW r \in Runners, SkipMarked(r)
  PROVE  IInv'
<1>1. TypeOK'
  <2>1. pc' \in [Runners -> {"idle", "reading", "applying", "marking"}]
    BY DEF IInv, TypeOK, SkipMarked, Advance
  <2>2. at' \in [Runners -> 1 .. MaxFiles + 1]
    BY FilesAssumption DEF IInv, TypeOK, SkipMarked, Advance, Files
  <2> QED  BY <2>1, <2>2 DEF IInv, TypeOK, SkipMarked, Advance, dbVars
<1>2. LockInv'
  BY DEF IInv, LockInv, SkipMarked, Advance
<1>3. PrefixInv'
  <2>1. at[r] \in Files /\ at' = [at EXCEPT ![r] = at[r] + 1] /\ pc[r] # "idle"
    BY DEF IInv, TypeOK, SkipMarked, Advance
  <2>2. journal'[at[r]] # Unmarked
    BY <2>1 DEF IInv, TypeOK, dbVars, SkipMarked, Unmarked, Versions
  <2>3. \A g \in Files : journal[g] # Unmarked => journal'[g] # Unmarked
    BY <2>1, <2>2 DEF IInv, TypeOK, dbVars, SkipMarked
  <2>4. \A g \in Files : g < at[r] + 1 => g < at[r] \/ g = at[r]
    BY <2>1 DEF Files
  <2> QED  BY <2>1, <2>2, <2>3, <2>4 DEF IInv, TypeOK, LockInv, PrefixInv, SkipMarked, Advance
<1>4. DoneInv'
  BY DEF IInv, DoneInv, SkipMarked, Advance, dbVars
<1> QED  BY <1>1, <1>2, <1>3, <1>4 DEF IInv

(* A legacy file is marked and left behind.                                *)
LEMMA MarkBaselineStep ==
  ASSUME IInv, NEW r \in Runners, MarkBaseline(r)
  PROVE  IInv'
<1>1. TypeOK'
  <2>1. journal' \in [Files -> Versions \cup {Unmarked}]
    BY FilesAssumption DEF IInv, TypeOK, MarkBaseline, Advance, Mark
  <2>2. pc' \in [Runners -> {"idle", "reading", "applying", "marking"}]
    BY DEF IInv, TypeOK, MarkBaseline, Advance, Mark
  <2>3. at' \in [Runners -> 1 .. MaxFiles + 1]
    BY FilesAssumption DEF IInv, TypeOK, MarkBaseline, Advance, Mark, Files
  <2> QED  BY <2>1, <2>2, <2>3 DEF IInv, TypeOK, MarkBaseline, Advance, Mark,
     dbVars
<1>2. LockInv'
  BY DEF IInv, LockInv, MarkBaseline, Advance
<1>3. PrefixInv'
  <2>1. at[r] \in Files /\ at' = [at EXCEPT ![r] = at[r] + 1] /\ pc[r] # "idle"
    BY FilesAssumption DEF IInv, TypeOK, MarkBaseline, Advance
  <2>2. journal'[at[r]] # Unmarked
    BY <2>1, FilesAssumption DEF IInv, TypeOK, Mark, MarkBaseline, Unmarked, Versions
  <2>3. \A g \in Files : journal[g] # Unmarked => journal'[g] # Unmarked
    BY <2>1, <2>2 DEF IInv, TypeOK, Mark, MarkBaseline
  <2>4. \A g \in Files : g < at[r] + 1 => g < at[r] \/ g = at[r]
    BY <2>1 DEF Files
  <2> QED  BY <2>1, <2>2, <2>3, <2>4 DEF IInv, TypeOK, LockInv, PrefixInv, MarkBaseline, Advance
<1>4. DoneInv'
  BY DEF IInv, DoneInv, MarkBaseline, Advance, Mark
<1> QED  BY <1>1, <1>2, <1>3, <1>4 DEF IInv

(* A file that is not marked is read; nothing of what was read is          *)
(* executed.                                                               *)
LEMMA BeginFileStep ==
  ASSUME IInv, NEW r \in Runners, BeginFile(r)
  PROVE  IInv'
<1>1. TypeOK'
  <2>1. text' \in [Runners -> Versions]
    BY DEF IInv, TypeOK, BeginFile
  <2>2. statement' \in [Runners -> Nat \ {0}]
    BY DEF IInv, TypeOK, BeginFile
  <2>3. pc' \in [Runners -> {"idle", "reading", "applying", "marking"}]
    BY DEF IInv, TypeOK, BeginFile
  <2> QED  BY <2>1, <2>2, <2>3 DEF IInv, TypeOK, BeginFile, dbVars
<1>2. LockInv'
  BY DEF IInv, LockInv, BeginFile
<1>3. PrefixInv'
  BY DEF IInv, TypeOK, PrefixInv, BeginFile, dbVars
<1>4. DoneInv'
  <2>1. at[r] \in Files /\ at' = at
    BY DEF BeginFile
  <2>2. 1 \in Statements(at[r]) /\ \A k \in Statements(at[r]) : ~ (k < 1)
    BY <2>1, StatementNumbers
  <2> QED  BY <2>1, <2>2 DEF IInv, TypeOK, DoneInv, BeginFile, dbVars
<1> QED  BY <1>1, <1>2, <1>3, <1>4 DEF IInv

(* A statement is executed; after the last one all of them are.            *)
LEMMA ExecuteStep ==
  ASSUME IInv, NEW r \in Runners, Execute(r)
  PROVE  IInv'
<1>1. TypeOK'
  <2>1. done' \in [Files -> SUBSET (Versions \X Nat)]
    BY DEF IInv, TypeOK, Execute, DoneInv
  <2>2. executions' \in [Files -> Nat]
    BY DEF IInv, TypeOK, DoneInv, Execute
  <2>3. statement' \in [Runners -> Nat \ {0}]
    BY DEF IInv, TypeOK, Execute
  <2>4. pc' \in [Runners -> {"idle", "reading", "applying", "marking"}]
    BY DEF IInv, TypeOK, Execute
  <2> QED  BY <2>1, <2>2, <2>3, <2>4 DEF IInv, TypeOK, Execute, dbVars
<1>2. LockInv'
  BY DEF IInv, LockInv, Execute
<1>3. PrefixInv'
  BY DEF IInv, PrefixInv, Execute
<1>4. DoneInv'
  <2>1. at[r] \in Files /\ statement[r] \in Statements(at[r]) /\ UNCHANGED <<at, text, journal>>
    BY DEF IInv, DoneInv, Execute
  <2>2. \A k \in Statements(at[r]) : k < statement[r] + 1 => k < statement[r] \/ k = statement[r]
    BY <2>1, StatementNumbers
  <2>3. \A k \in Statements(at[r]) :
           k < statement[r] \/ k = statement[r] => <<text[r], k>> \in done'[at[r]]
    BY <2>1 DEF IInv, TypeOK, DoneInv, Execute
  <2>4. \A q \in Runners : pc'[q] \in {"applying", "marking"} => q = r
    BY DEF IInv, TypeOK, LockInv, Execute
  <2>5. statement'[r] = statement[r] + 1
    BY DEF IInv, TypeOK, Execute
  <2>6. CASE statement[r] + 1 \in Statements(at[r])
    BY <2>1, <2>2, <2>3, <2>4, <2>5, <2>6 DEF IInv, TypeOK, DoneInv, Execute
  <2>7. CASE statement[r] + 1 \notin Statements(at[r])
    BY <2>1, <2>3, <2>4, <2>7, StatementNumbers DEF IInv, TypeOK, DoneInv, Execute
  <2> QED  BY <2>6, <2>7
<1> QED  BY <1>1, <1>2, <1>3, <1>4 DEF IInv

(* The file is marked and left behind.                                     *)
LEMMA MarkAppliedStep ==
  ASSUME IInv, NEW r \in Runners, MarkApplied(r)
  PROVE  IInv'
<1>1. TypeOK'
  <2>1. journal' \in [Files -> Versions \cup {Unmarked}]
    BY DEF IInv, TypeOK, MarkApplied, Advance, Mark
  <2>2. pc' \in [Runners -> {"idle", "reading", "applying", "marking"}]
    BY DEF IInv, TypeOK, MarkApplied, Advance, Mark
  <2>3. at' \in [Runners -> 1 .. MaxFiles + 1]
    BY FilesAssumption DEF IInv, TypeOK, MarkApplied, Advance, Mark, Files,
       DoneInv
  <2> QED  BY <2>1, <2>2, <2>3 DEF IInv, TypeOK, MarkApplied, Advance, Mark,
     dbVars
<1>2. LockInv'
  BY DEF IInv, LockInv, MarkApplied, Advance
<1>3. PrefixInv'
  <2>1. at[r] \in Files /\ at' = [at EXCEPT ![r] = at[r] + 1] /\ pc[r] # "idle"
    BY DEF IInv, TypeOK, DoneInv, MarkApplied, Advance
  <2>2. journal'[at[r]] # Unmarked
    BY <2>1, FilesAssumption DEF IInv, TypeOK, Mark, MarkApplied, Unmarked, Versions
  <2>3. \A g \in Files : journal[g] # Unmarked => journal'[g] # Unmarked
    BY <2>1, <2>2 DEF IInv, TypeOK, Mark, MarkApplied
  <2>4. \A g \in Files : g < at[r] + 1 => g < at[r] \/ g = at[r]
    BY <2>1 DEF Files
  <2> QED  BY <2>1, <2>2, <2>3, <2>4 DEF IInv, TypeOK, LockInv, PrefixInv, MarkApplied, Advance
<1>4. DoneInv'
  BY DEF IInv, TypeOK, LockInv, DoneInv, MarkApplied, Advance
<1> QED  BY <1>1, <1>2, <1>3, <1>4 DEF IInv

(* A run fails and leaves its lock.                                        *)
LEMMA FailStep ==
  ASSUME IInv, NEW r \in Runners, Fail(r)
  PROVE  IInv'
<1>1. TypeOK'
  <2>1. lock' \in Runners \cup {NoRunner}
    BY DEF IInv, TypeOK, Fail, End
  <2>2. pc' \in [Runners -> {"idle", "reading", "applying", "marking"}]
    BY DEF IInv, TypeOK, Fail, End
  <2>3. failures' \in 0 .. MaxFailures
    BY BoundsAssumption DEF IInv, TypeOK, Fail, End
  <2> QED  BY <2>1, <2>2, <2>3 DEF IInv, TypeOK, Fail, End, dbVars
<1>2. LockInv'
  BY RunnersAssumption DEF IInv, TypeOK, LockInv, Fail, End
<1>3. PrefixInv'
  BY DEF IInv, PrefixInv, Fail, End, dbVars
<1>4. DoneInv'
  BY DEF IInv, DoneInv, Fail, End, dbVars
<1> QED  BY <1>1, <1>2, <1>3, <1>4 DEF IInv

(* A run is cut short while an index is built.                             *)
LEMMA InterruptStep ==
  ASSUME IInv, NEW r \in Runners, Interrupt(r)
  PROVE  IInv'
<1>1. TypeOK'
  <2>1. lock' \in Runners \cup {NoRunner}
    BY DEF IInv, TypeOK, Interrupt, End
  <2>2. pc' \in [Runners -> {"idle", "reading", "applying", "marking"}]
    BY DEF IInv, TypeOK, Interrupt, End
  <2>3. failures' \in 0 .. MaxFailures
    BY BoundsAssumption DEF IInv, TypeOK, Interrupt
  <2>4. invalid' \in [Files -> SUBSET Nat]
    BY DEF IInv, TypeOK, Interrupt
  <2> QED  BY <2>1, <2>2, <2>3, <2>4 DEF IInv, TypeOK, Interrupt, End
<1>2. LockInv'
  BY RunnersAssumption DEF IInv, TypeOK, LockInv, Interrupt, End
<1>3. PrefixInv'
  BY DEF IInv, PrefixInv, Interrupt, End
<1>4. DoneInv'
  BY DEF IInv, DoneInv, Interrupt, End
<1> QED  BY <1>1, <1>2, <1>3, <1>4 DEF IInv

(* A file changes on the disk; what was read of it does not.               *)
LEMMA EditStep ==
  ASSUME IInv, NEW f \in Files, Edit(f)
  PROVE  IInv'
<1>1. TypeOK'
  <2>1. content' \in [Files -> Versions]
    BY BoundsAssumption DEF IInv, TypeOK, Edit, Versions
  <2> QED  BY <2>1 DEF IInv, TypeOK, Edit, runnerVars, dbVars
<1>2. LockInv'
  BY DEF IInv, LockInv, Edit, runnerVars
<1>3. PrefixInv'
  BY DEF IInv, PrefixInv, Edit, runnerVars, dbVars
<1>4. DoneInv'
  BY DEF IInv, DoneInv, Edit, runnerVars, dbVars
<1> QED  BY <1>1, <1>2, <1>3, <1>4 DEF IInv

(* The invariant is inductive.                                             *)
LEMMA NextIInv == IInv /\ [Next]_vars => IInv'
<1>1. ASSUME IInv, UNCHANGED vars  PROVE IInv'
  BY <1>1 DEF vars, dbVars, runnerVars, IInv, TypeOK, LockInv, PrefixInv, DoneInv
<1> QED  BY <1>1, BeginStep, FinishStep, RefuseChangedStep, RaiseClashStep, SkipMarkedStep,
            MarkBaselineStep, BeginFileStep, ExecuteStep, MarkAppliedStep, FailStep, InterruptStep, EditStep
     DEF Next, RunnerStep

(* Every behaviour of the runners has the invariant.                       *)
THEOREM Invariance == Spec => []IInv
  BY InitIInv, NextIInv, PTL DEF Spec

(* Files, the journal, the lock and the runners are well typed.            *)
THEOREM TypeCorrect == Spec => []TypeOK
<1>1. IInv => TypeOK
  BY DEF IInv
<1> QED  BY <1>1, Invariance, PTL

(* A step marks a file it has executed in full, in its turn, and touches no*)
(* file that is marked.                                                    *)
LEMMA MarkStep ==
  ASSUME IInv, [Next]_vars, NEW f \in Files
  PROVE  MarkHolds(f)
<1>0. UNCHANGED <<journal, executions>> => MarkHolds(f)
  BY DEF MarkHolds
<1>1. ASSUME NEW r \in Runners, MarkBaseline(r)  PROVE MarkHolds(f)
  BY <1>1 DEF IInv, TypeOK, PrefixInv, MarkHolds, MarkBaseline, Mark, Unmarked, Files
<1>2. ASSUME NEW r \in Runners, Execute(r)  PROVE MarkHolds(f)
  BY <1>2 DEF IInv, TypeOK, DoneInv, MarkHolds, Execute
<1>3. ASSUME NEW r \in Runners, MarkApplied(r)  PROVE MarkHolds(f)
  BY <1>3 DEF IInv, TypeOK, PrefixInv, DoneInv, MarkHolds, MarkApplied, Mark, Unmarked, Files
<1>4. ASSUME NEW r \in Runners,
             \/ Begin(r) \/ Finish(r) \/ RefuseChanged(r) \/ SkipMarked(r)
             \/ BeginFile(r) \/ RaiseClash(r) \/ Fail(r) \/ Interrupt(r)
      PROVE  MarkHolds(f)
  BY <1>0, <1>4
     DEF Begin, Finish, RefuseChanged, SkipMarked, BeginFile, RaiseClash, Fail, Interrupt, dbVars
<1>5. ASSUME NEW g \in Files, Edit(g)  PROVE MarkHolds(f)
  BY <1>0, <1>5 DEF Edit, dbVars
<1>6. CASE UNCHANGED vars
  BY <1>0, <1>6 DEF vars, dbVars
<1> QED  BY <1>1, <1>2, <1>3, <1>4, <1>5, <1>6 DEF Next, RunnerStep

(* run_airpay_migrations.py:165: a mark is kept only after the success of  *)
(* what it marks, and what is marked is not executed again.                *)
THEOREM MarksAreTrue == Spec => JournalHolds
<1>1. IInv /\ [Next]_vars => [\A f \in Files : MarkHolds(f)]_vars
  BY MarkStep
<1> QED  BY <1>1, Invariance, PTL DEF Spec, JournalHolds
-----------------------------------------------------------------------------
(* The splitter of files: at the beginning of each word the scanner stands *)
(* outside all quotations with the statements made so far and what has     *)
(* been collected of the next, and if the word is an ordinary one it reads *)
(* it and comes to the next state of this kind; so it makes of the rest of *)
(* a plain text what is written there, by induction from the end of the    *)
(* text.                                                                   *)
(*                                                                         *)
(* Induction, as a fact about sets of numbers: provers can instantiate it, *)
(* which they cannot do with a theorem about an operator.                  *)

Less == {ss \in Nat \X Nat : ss[1] < ss[2]}

(* A set that has 0 and with every number the next one has them all.       *)
LEMMA Induction ==
  ASSUME NEW S \in SUBSET Nat, 0 \in S, \A n \in S : n + 1 \in S
  PROVE  S = Nat
<1>1. OpToRel(<, Nat) = Less
  BY DEF OpToRel, Less
<1>2. IsWellFoundedOn(Less, Nat)
  BY <1>1, NatLessThanWellFounded
<1>3. ASSUME Nat \ S # {}  PROVE FALSE
  <2>1. PICK n \in Nat \ S : \A m \in Nat \ S : <<m, n>> \notin Less
    BY <1>2, <1>3, WFMin
  <2>2. n - 1 \in Nat \ S
    BY <2>1
  <2>3. <<n - 1, n>> \in Less
    BY <2>2 DEF Less
  <2> QED  BY <2>1, <2>2, <2>3
<1> QED  BY <1>3

(* A set of numbers that is not empty has a least one.                     *)
LEMMA Least ==
  ASSUME NEW T \in SUBSET Nat, T # {}
  PROVE  \E n \in T : \A m \in T : n <= m
<1> DEFINE below == {n \in Nat : \A m \in T : n <= m}
<1>1. SUFFICES ASSUME \A n \in T : n \notin below  PROVE FALSE
  OBVIOUS
<1>2. 0 \in below
  OBVIOUS
<1>3. ASSUME NEW n \in below  PROVE n + 1 \in below
  BY <1>1
<1>4. below = Nat
  <2> below \in SUBSET Nat
    OBVIOUS
  <2> HIDE DEF below
  <2> QED  BY <1>2, <1>3, Induction
<1>5. PICK m \in T : TRUE
  OBVIOUS
<1>6. m + 1 \in below
  BY <1>4, <1>5
<1> QED  BY <1>5, <1>6

LEMMA FirstIsLeast ==
  ASSUME NEW T \in SUBSET Nat, T # {}
  PROVE  First(T) \in T /\ \A n \in T : First(T) <= n
<1>1. \E n \in T : \A m \in T : n <= m
  BY Least
<1> QED  BY <1>1 DEF First

(* A function is defined by a recursion that goes on to elements of lower  *)
(* rank until it stops,                                                    *)
IsRecursion(D, Stop, value, next, g) ==
    g = [x \in D |-> IF x \in Stop THEN value[x] ELSE g[next[x]]]
Recurs(D, Stop, value, next) == \E g : IsRecursion(D, Stop, value, next, g)

LEMMA Recursion ==
  ASSUME NEW D, NEW rank \in [D -> Nat], NEW bound \in Nat, \A x \in D : rank[x] < bound,
         NEW Stop, NEW value, NEW next,
         \A x \in D : x \notin Stop => next[x] \in D /\ rank[next[x]] < rank[x]
  PROVE  Recurs(D, Stop, value, next)
<1> DEFINE
      Below(n) == {x \in D : rank[x] < n}
      IsDefined(g, n) == g = [x \in Below(n) |-> IF x \in Stop THEN value[x] ELSE g[next[x]]]
      Defined == {n \in Nat : \E g : IsDefined(g, n)}
<1>1. 0 \in Defined
  <2>1. Below(0) = {}
    OBVIOUS
  <2>2. IsDefined([x \in {} |-> 0], 0)
    BY <2>1
  <2> QED  BY <2>2
<1>2. ASSUME NEW n \in Defined  PROVE n + 1 \in Defined
  <2>1. n \in Nat
    OBVIOUS
  <2>2. PICK g : IsDefined(g, n)
    OBVIOUS
  <2> DEFINE h == [x \in Below(n + 1) |-> IF x \in Stop THEN value[x] ELSE g[next[x]]]
  <2>3. ASSUME NEW x \in Below(n)  PROVE x \in Below(n + 1) /\ h[x] = g[x]
    <3>1. x \in Below(n + 1)
      BY <2>1
    <3>2. g[x] = IF x \in Stop THEN value[x] ELSE g[next[x]]
      BY <2>2
    <3> QED  BY <3>1, <3>2
  <2>4. ASSUME NEW x \in Below(n + 1)
        PROVE  h[x] = IF x \in Stop THEN value[x] ELSE h[next[x]]
    <3>1. CASE x \in Stop
      BY <3>1
    <3>2. CASE x \notin Stop
      <4>1. next[x] \in Below(n)
        BY <2>1, <3>2
      <4>2. h[next[x]] = g[next[x]]
        BY <2>3, <4>1
      <4> QED  BY <3>2, <4>2
    <3> QED  BY <3>1, <3>2
  <2>5. IsDefined(h, n + 1)
    BY <2>4
  <2> HIDE DEF h, IsDefined
  <2> QED  BY <2>1, <2>5
<1>3. bound \in Defined
  <2> Defined \in SUBSET Nat
    OBVIOUS
  <2> HIDE DEF Defined
  <2> QED  BY <1>1, <1>2, Induction
<1>4. Below(bound) = D
  OBVIOUS
<1> QED  BY <1>3, <1>4 DEF Recurs, IsRecursion

(* and has in all elements what it has in one whenever it has it in those  *)
(* of lower rank.                                                          *)
LEMMA RankInduction ==
  ASSUME NEW D, NEW rank \in [D -> Nat], NEW G \in SUBSET D,
         \A x \in D : (\A y \in D : rank[y] < rank[x] => y \in G) => x \in G
  PROVE  G = D
<1> DEFINE S == {n \in Nat : \A x \in D : rank[x] < n => x \in G}
<1>1. 0 \in S
  OBVIOUS
<1>2. ASSUME NEW n \in S  PROVE n + 1 \in S
  <2>1. SUFFICES ASSUME NEW x \in D, rank[x] < n + 1  PROVE x \in G
    OBVIOUS
  <2>2. \A y \in D : rank[y] < rank[x] => y \in G
    BY <2>1
  <2> QED  BY <2>2
<1>3. S = Nat
  <2> S \in SUBSET Nat
    OBVIOUS
  <2> HIDE DEF S
  <2> QED  BY <1>1, <1>2, Induction
<1>4. ASSUME NEW x \in D  PROVE x \in G
  <2>1. rank[x] + 1 \in S /\ rank[x] < rank[x] + 1
    BY <1>3
  <2> QED  BY <2>1
<1> QED  BY <1>4

-----------------------------------------------------------------------------
(* The scanner's states are what its recursion says.                       *)
LEMMA ScannedIsDefined ==
  ASSUME NEW t \in Seq(Characters)
  PROVE  Scanned(t) = [i \in 0 .. Len(t) |->
             IF i = 0 THEN Start ELSE Scan(Scanned(t)[i - 1], t, i)]
<1> DEFINE
      IsScan(g, n) == g = [i \in 0 .. n |-> IF i = 0 THEN Start ELSE Scan(g[i - 1], t, i)]
      Defined == {n \in Nat : \E g : IsScan(g, n)}
<1>1. 0 \in Defined
  <2>1. IsScan([i \in 0 .. 0 |-> Start], 0)
    OBVIOUS
  <2> QED  BY <2>1
<1>2. ASSUME NEW n \in Defined  PROVE n + 1 \in Defined
  <2>1. n \in Nat
    OBVIOUS
  <2>2. PICK g : IsScan(g, n)
    OBVIOUS
  <2> DEFINE h == [i \in 0 .. n + 1 |-> IF i = n + 1 THEN Scan(g[n], t, n + 1) ELSE g[i]]
  <2>3. ASSUME NEW i \in 0 .. n + 1
        PROVE  h[i] = IF i = 0 THEN Start ELSE Scan(h[i - 1], t, i)
    <3>1. CASE i = n + 1
      <4>1. h[n] = g[n] /\ h[n + 1] = Scan(g[n], t, n + 1)
        BY <2>1
      <4> QED  BY <2>1, <3>1, <4>1
    <3>2. CASE i = 0
      BY <2>1, <2>2, <3>2
    <3>3. CASE i \in 1 .. n
      <4>1. h[i] = g[i] /\ h[i - 1] = g[i - 1]
        BY <2>1, <3>3
      <4> QED  BY <2>1, <2>2, <3>3, <4>1
    <3> QED  BY <2>1, <3>1, <3>2, <3>3
  <2>4. IsScan(h, n + 1)
    BY <2>3
  <2>5. \E f : IsScan(f, n + 1)
    BY <2>4
  <2> QED  BY <2>1, <2>5
<1>3. Defined = Nat
  <2> Defined \in SUBSET Nat
    OBVIOUS
  <2> HIDE DEF Defined
  <2> QED  BY <1>1, <1>2, Induction
<1>4. \E g : IsScan(g, Len(t))
  BY <1>3
<1> HIDE DEF IsScan
<1>5. Scanned(t) = CHOOSE g : IsScan(g, Len(t))
  BY DEF Scanned, IsScan
<1>6. IsScan(Scanned(t), Len(t))
  BY <1>4, <1>5
<1> QED  BY <1>6 DEF IsScan

(* A state of the scanner; and that it is in this state after i characters,*)
(* of which it has collected those since f.                                *)
State(mode, mark, pass, current, made) ==
    [mode |-> mode, mark |-> mark, pass |-> pass, current |-> current, made |-> made]
Reached(t, i, mode, mark, pass, f, made) ==
    Scanned(t)[i] = State(mode, mark, pass, SubSeq(t, f, i), made)

(* The parts of a state.                                                   *)
LEMMA Fields ==
  ASSUME NEW a, NEW k, NEW p, NEW c, NEW m
  PROVE  /\ State(a, k, p, c, m).mode = a
         /\ State(a, k, p, c, m).mark = k
         /\ State(a, k, p, c, m).pass = p
         /\ State(a, k, p, c, m).current = c
         /\ State(a, k, p, c, m).made = m
  BY DEF State

LEMMA Entering ==
  ASSUME NEW a, NEW k, NEW p, NEW c, NEW m, NEW mode, NEW mark, NEW length
  PROVE  Enter(State(a, k, p, c, m), mode, mark, length) = State(mode, mark, length - 1, c, m)
<1> DEFINE q == length - 1
<1> HIDE DEF q
<1>1. [State(a, k, p, c, m) EXCEPT !.mode = mode] = State(mode, k, p, c, m)
  BY DEF State
<1>2. [State(mode, k, p, c, m) EXCEPT !.mark = mark] = State(mode, mark, p, c, m)
  BY DEF State
<1>3. [State(mode, mark, p, c, m) EXCEPT !.pass = q] = State(mode, mark, q, c, m)
  BY DEF State
<1> QED  BY <1>1, <1>2, <1>3 DEF Enter, q

(* The statements made once what has been collected is closed.             *)
Extended(m, c) == IF Strip(c) = <<>> THEN m ELSE Append(m, Strip(c))

LEMMA Closing ==
  ASSUME NEW a, NEW k, NEW p, NEW c, NEW m
  PROVE  Close(State(a, k, p, c, m)) =
             State(a, k, p, <<>>, Extended(m, c))
<1> DEFINE made == Extended(m, c)
<1>0. State(a, k, p, c, m).current = c /\ State(a, k, p, <<>>, m).made = m
  BY Fields
<1> HIDE DEF made
<1>1. [State(a, k, p, c, m) EXCEPT !.current = <<>>] = State(a, k, p, <<>>, m)
  BY DEF State
<1>2. [State(a, k, p, <<>>, m) EXCEPT !.made = made] = State(a, k, p, <<>>, made)
  BY DEF State
<1>3. Close(State(a, k, p, c, m)) =
         [State(a, k, p, c, m) EXCEPT !.current = <<>>, !.made = made]
  BY <1>0, <1>1 DEF Close, Extended, made
<1> QED  BY <1>1, <1>2, <1>3 DEF made

-----------------------------------------------------------------------------
(* What reading the next character leads to.                               *)
LEMMA ReadPassing ==
  ASSUME NEW t, NEW i, NEW a, NEW k, NEW p \in Nat \ {0}, NEW c, NEW m
  PROVE  Scan(State(a, k, p, c, m), t, i) = State(a, k, p - 1, Append(c, t[i]), m)
<1> DEFINE s == State(a, k, p, c, m)
           d == Append(c, t[i])
           q == p - 1
<1>1. d = Append(c, t[i]) /\ q = p - 1 /\ p > 0
  OBVIOUS
<1> HIDE DEF d, q
<1>2. s.pass = p /\ s.current = c
  BY Fields
<1>3. [s EXCEPT !.current = d] = State(a, k, p, d, m)
  BY DEF State
<1>4. State(a, k, p, d, m).pass = p
  BY Fields
<1>5. [State(a, k, p, d, m) EXCEPT !.pass = q] = State(a, k, q, d, m)
  BY DEF State
<1> HIDE DEF s
<1>6. Scan(s, t, i) = [[s EXCEPT !.current = d] EXCEPT !.pass = q]
  BY <1>1, <1>2, <1>3, <1>4, Zenon DEF Scan
<1> QED  BY <1>1, <1>3, <1>5, <1>6 DEF s

LEMMA ReadAtOnce ==
  ASSUME NEW t, NEW i, NEW a, NEW k, NEW c, NEW m
  PROVE  Scan(State(a, k, 0, c, m), t, i) =
             IF a # "code" THEN Inside(State(a, k, 0, Append(c, t[i]), m), t, i)
             ELSE IF t[i] = "semi" THEN Close(State(a, k, 0, c, m))
             ELSE Outside(State(a, k, 0, Append(c, t[i]), m), t, i)
<1> DEFINE s == State(a, k, 0, c, m)
           d == Append(c, t[i])
<1>1. d = Append(c, t[i])
  OBVIOUS
<1> HIDE DEF d
<1>2. s.pass = 0 /\ ~ (s.pass > 0) /\ s.mode = a /\ s.current = c
  BY Fields
<1>3. [s EXCEPT !.current = d] = State(a, k, 0, d, m)
  BY DEF State
<1> HIDE DEF s
<1>4. Scan(s, t, i) = IF a # "code" THEN Inside(State(a, k, 0, d, m), t, i)
                      ELSE IF t[i] = "semi" THEN Close(s)
                      ELSE Outside(State(a, k, 0, d, m), t, i)
  BY <1>1, <1>2, <1>3, Zenon DEF Scan
<1> QED  BY <1>1, <1>4 DEF s

LEMMA ReadInside ==
  ASSUME NEW t, NEW i, NEW a, a # "code", NEW k, NEW c, NEW m
  PROVE  Scan(State(a, k, 0, c, m), t, i) = Inside(State(a, k, 0, Append(c, t[i]), m), t, i)
  BY ReadAtOnce

LEMMA OneMore ==
  ASSUME NEW t \in Seq(Characters), NEW i \in 1 .. Len(t), NEW f \in 1 .. i
  PROVE  Append(SubSeq(t, f, i - 1), t[i]) = SubSeq(t, f, i)
  OBVIOUS

LEMMA OneStep ==
  ASSUME NEW t \in Seq(Characters), NEW i \in 1 .. Len(t)
  PROVE  Scanned(t)[i] = Scan(Scanned(t)[i - 1], t, i)
  BY ScannedIsDefined

LEMMA StartIsReached ==
  ASSUME NEW t \in Seq(Characters)
  PROVE  Reached(t, 0, "code", <<>>, 0, 1, <<>>)
<1>1. SubSeq(t, 1, 0) = <<>>
  OBVIOUS
<1> QED  BY <1>1, ScannedIsDefined DEF Reached, State, Start

(* A character is passed over.                                             *)
LEMMA PassOne ==
  ASSUME NEW t \in Seq(Characters), NEW i \in 1 .. Len(t), NEW f \in 1 .. i,
         NEW mode, NEW mark, NEW p \in Nat \ {0}, NEW m,
         Reached(t, i - 1, mode, mark, p, f, m)
  PROVE  Reached(t, i, mode, mark, p - 1, f, m)
<1> DEFINE c == SubSeq(t, f, i - 1)
<1>1. p \in Nat /\ p > 0
  OBVIOUS
<1>2. Scan(State(mode, mark, p, c, m), t, i) = State(mode, mark, p - 1, Append(c, t[i]), m)
  <2> HIDE DEF c
  <2> QED  BY ReadPassing
<1> QED  BY <1>2, OneMore, OneStep DEF Reached

(* All of them are.                                                        *)
LEMMA PassAll ==
  ASSUME NEW t \in Seq(Characters), NEW i \in Nat, NEW f \in 1 .. i + 1,
         NEW mode, NEW mark, NEW p \in Nat, NEW m,
         i + p <= Len(t), Reached(t, i, mode, mark, p, f, m)
  PROVE  Reached(t, i + p, mode, mark, 0, f, m)
<1> DEFINE S == {q \in Nat : q <= p => Reached(t, i + q, mode, mark, p - q, f, m)}
<1>1. 0 \in S
  OBVIOUS
<1>2. ASSUME NEW q \in S  PROVE q + 1 \in S
  <2>1. SUFFICES ASSUME q + 1 <= p
                 PROVE  Reached(t, i + (q + 1), mode, mark, p - (q + 1), f, m)
    OBVIOUS
  <2> DEFINE k == i + (q + 1)
  <2>2. k \in 1 .. Len(t) /\ f \in 1 .. k /\ k - 1 = i + q /\ p - q \in Nat \ {0}
    BY <2>1
  <2>3. Reached(t, k - 1, mode, mark, p - q, f, m)
    BY <2>1, <2>2
  <2>4. Reached(t, k, mode, mark, p - q - 1, f, m)
    <3> HIDE DEF k
    <3> QED  BY <2>2, <2>3, PassOne
  <2>5. p - q - 1 = p - (q + 1)
    OBVIOUS
  <2> QED  BY <2>4, <2>5
<1>3. p \in S
  <2> S \in SUBSET Nat
    OBVIOUS
  <2> HIDE DEF S
  <2> QED  BY <1>1, <1>2, Induction
<1>4. p - p = 0
  OBVIOUS
<1> QED  BY <1>3, <1>4
-----------------------------------------------------------------------------
(* A quotation is a comment, a literal or a block, with what ends it.      *)
Quotation(mode, mark) ==
    \/ mode = "line" /\ mark = <<"nl">>
    \/ mode = "quote" /\ mark = <<"'">>
    \/ mode = "block" /\ mark = <<"*", "/">>
    \/ mode = "dollar" /\ mark \in Seq(Characters) /\ mark # <<>>

LEMMA Marks ==
  ASSUME NEW mode, NEW mark, Quotation(mode, mark)
  PROVE  /\ mark \in Seq(Characters)
         /\ Len(mark) \in Nat \ {0}
         /\ mode \in {"line", "quote"} => Len(mark) = 1
         /\ mode # "code"
<1>1. <<"nl">> \in Seq(Characters) /\ Len(<<"nl">>) = 1
  BY DEF Characters
<1>2. <<"'">> \in Seq(Characters) /\ Len(<<"'">>) = 1
  BY DEF Characters
<1>3. <<"*", "/">> \in Seq(Characters) /\ Len(<<"*", "/">>) = 2
  BY DEF Characters
<1>4. \A s \in Seq(Characters) : s # <<>> => Len(s) \in Nat \ {0}
  OBVIOUS
<1> QED  BY <1>1, <1>2, <1>3, <1>4 DEF Quotation

LEMMA OccursOne ==
  ASSUME NEW t, NEW x, NEW i \in Nat
  PROVE  Occurs(<<x>>, t, i) <=> At(t, i) = x
<1>1. Len(<<x>>) = 1 /\ <<x>>[1] = x /\ i + 1 - 1 = i
  OBVIOUS
<1> QED  BY <1>1 DEF Occurs

(* What occurs in a text is in it to the last character.                   *)
LEMMA OccursWithin ==
  ASSUME NEW t \in Seq(Characters), NEW mark \in Seq(Characters), mark # <<>>,
         NEW i \in Nat, Occurs(mark, t, i)
  PROVE  i + Len(mark) - 1 \in 1 .. Len(t)
<1>1. Len(mark) \in 1 .. Len(mark) /\ mark[Len(mark)] \in Characters
  OBVIOUS
<1>2. At(t, i + Len(mark) - 1) \in Characters
  BY <1>1 DEF Occurs
<1>3. "none" \notin Characters
  BY DEF Characters
<1> QED  BY <1>2, <1>3 DEF At

(* In a quotation: nothing happens before its mark.                        *)
LEMMA InsideQuotation ==
  ASSUME NEW t, NEW i \in Nat, NEW mode, NEW mark, Quotation(mode, mark), NEW c, NEW m
  PROVE  /\ ~ Occurs(mark, t, i) =>
                Inside(State(mode, mark, 0, c, m), t, i) = State(mode, mark, 0, c, m)
         /\ Occurs(mark, t, i) /\ ~ (mode = "quote" /\ At(t, i + 1) = "'") =>
                Inside(State(mode, mark, 0, c, m), t, i) = State("code", <<>>, Len(mark) - 1, c, m)
         /\ Occurs(mark, t, i) /\ mode = "quote" /\ At(t, i + 1) = "'" =>
                Inside(State(mode, mark, 0, c, m), t, i) = State("quote", mark, 1, c, m)
<1> DEFINE s == State(mode, mark, 0, c, m)
<1>1. s.mode = mode /\ s.mark = mark
  BY Fields
<1>2. \A n : Leave(s, n) = State("code", <<>>, n - 1, c, m)
  BY Entering DEF Leave
<1>3. [s EXCEPT !.pass = 1] = State(mode, mark, 1, c, m)
  BY DEF State
<1>4. mode \in {"line", "quote"} => Len(mark) = 1
  BY Marks
<1> HIDE DEF s
<1>5. CASE mode = "line"
  <2>1. mark = <<"nl">>
    BY <1>5 DEF Quotation
  <2>2. Occurs(mark, t, i) <=> At(t, i) = "nl"
    BY <2>1, OccursOne
  <2>3. Inside(s, t, i) = IF At(t, i) = "nl" THEN Leave(s, 1) ELSE s
    BY <1>1, <1>5 DEF Inside
  <2> QED  BY <1>2, <1>4, <1>5, <2>2, <2>3 DEF s
<1>6. CASE mode = "quote"
  <2>1. mark = <<"'">>
    BY <1>6 DEF Quotation
  <2>2. Occurs(mark, t, i) <=> At(t, i) = "'"
    BY <2>1, OccursOne
  <2>3. Inside(s, t, i) = IF At(t, i) = "'"
                          THEN IF At(t, i + 1) = "'" THEN [s EXCEPT !.pass = 1] ELSE Leave(s, 1)
                          ELSE s
    BY <1>1, <1>6 DEF Inside
  <2> QED  BY <1>2, <1>3, <1>4, <1>6, <2>2, <2>3 DEF s
<1>7. CASE mode \in {"block", "dollar"}
  <2>1. Inside(s, t, i) = IF Occurs(mark, t, i) THEN Leave(s, Len(mark)) ELSE s
    BY <1>1, <1>7 DEF Inside
  <2> QED  BY <1>2, <1>7, <2>1 DEF s
<1> QED  BY <1>5, <1>6, <1>7 DEF Quotation

LEMMA QuotationGoesOn ==
  ASSUME NEW t, NEW i \in Nat, NEW mode, NEW mark, Quotation(mode, mark), NEW c, NEW m,
         ~ Occurs(mark, t, i)
  PROVE  Inside(State(mode, mark, 0, c, m), t, i) = State(mode, mark, 0, c, m)
  BY InsideQuotation
-----------------------------------------------------------------------------
(* Where the mark of a quotation does not begin, the scanner waits for it. *)
LEMMA Wait ==
  ASSUME NEW t \in Seq(Characters), NEW b \in Nat, NEW f \in 1 .. b + 1,
         NEW mode, NEW mark, Quotation(mode, mark), NEW m,
         Reached(t, b, mode, mark, 0, f, m),
         NEW e \in b .. Len(t), \A k \in b + 1 .. e : ~ Occurs(mark, t, k)
  PROVE  Reached(t, e, mode, mark, 0, f, m)
<1> DEFINE S == {q \in Nat : b + q <= e => Reached(t, b + q, mode, mark, 0, f, m)}
<1>1. 0 \in S
  OBVIOUS
<1>2. ASSUME NEW q \in S  PROVE q + 1 \in S
  <2>1. SUFFICES ASSUME b + (q + 1) <= e
                 PROVE  Reached(t, b + (q + 1), mode, mark, 0, f, m)
    OBVIOUS
  <2> DEFINE k == b + (q + 1)
             c == SubSeq(t, f, k - 1)
             d == Append(c, t[k])
  <2>2. k \in 1 .. Len(t) /\ f \in 1 .. k /\ k - 1 = b + q /\ k \in b + 1 .. e
    BY <2>1
  <2>3. Reached(t, k - 1, mode, mark, 0, f, m)
    BY <2>1, <2>2
  <2> HIDE DEF k
  <2>4. Scanned(t)[k] = Scan(State(mode, mark, 0, c, m), t, k)
    BY <2>2, <2>3, OneStep DEF Reached
  <2>5. d = SubSeq(t, f, k) /\ d = Append(c, t[k]) /\ ~ Occurs(mark, t, k)
    BY <2>2, OneMore
  <2> HIDE DEF c, d
  <2>6. Scan(State(mode, mark, 0, c, m), t, k) = Inside(State(mode, mark, 0, d, m), t, k)
    <3>1. mode # "code"
      BY Marks
    <3> QED  BY <2>5, <3>1, ReadInside
  <2>7. Inside(State(mode, mark, 0, d, m), t, k) = State(mode, mark, 0, d, m)
    BY <2>2, <2>5, QuotationGoesOn
  <2>8. Reached(t, k, mode, mark, 0, f, m)
    BY <2>4, <2>5, <2>6, <2>7 DEF Reached
  <2> QED  BY <2>8 DEF k
<1>3. e - b \in S
  <2>1. e - b \in Nat /\ S \in SUBSET Nat
    OBVIOUS
  <2> HIDE DEF S
  <2> QED  BY <1>1, <1>2, <2>1, Induction
<1>4. b + (e - b) = e
  OBVIOUS
<1> QED  BY <1>3, <1>4

(* The scanner has come to the beginning of a word at i, or to the second  *)
(* of two quotes, which it passes over and which begins a literal.         *)
AtWord(t, i, f, m) ==
    \/ Reached(t, i - 1, "code", <<>>, 0, f, m)
    \/ /\ i \in 1 .. Len(t) /\ t[i] = "'"
       /\ Reached(t, i - 1, "quote", <<"'">>, 1, f, m)

(* It has come to the end of the text.                                     *)
AtEnd(t, f, m) == \E mode, mark, pass : Reached(t, Len(t), mode, mark, pass, f, m)

(* At the place where the mark of a quotation begins it leaves it.         *)
LEMMA LeaveQuotation ==
  ASSUME NEW t \in Seq(Characters), NEW i \in 1 .. Len(t), NEW f \in 1 .. i,
         NEW mode, NEW mark, Quotation(mode, mark), NEW m,
         Reached(t, i - 1, mode, mark, 0, f, m), Occurs(mark, t, i)
  PROVE  AtWord(t, i + Len(mark), f, m)
<1> DEFINE c == SubSeq(t, f, i - 1)
           d == Append(c, t[i])
<1>1. Scanned(t)[i] = Scan(State(mode, mark, 0, c, m), t, i)
  BY OneStep DEF Reached
<1>2. d = SubSeq(t, f, i) /\ d = Append(c, t[i])
  BY OneMore
<1> HIDE DEF c, d
<1>3. Scan(State(mode, mark, 0, c, m), t, i) = Inside(State(mode, mark, 0, d, m), t, i)
  <2>1. mode # "code"
    BY Marks
  <2> QED  BY <1>2, <2>1, ReadInside
<1>4. CASE ~ (mode = "quote" /\ At(t, i + 1) = "'")
  <2>1. Inside(State(mode, mark, 0, d, m), t, i) = State("code", <<>>, Len(mark) - 1, d, m)
    BY <1>4, InsideQuotation
  <2>2. Reached(t, i, "code", <<>>, Len(mark) - 1, f, m)
    BY <1>1, <1>2, <1>3, <2>1 DEF Reached
  <2>3. mark \in Seq(Characters) /\ mark # <<>> /\ Len(mark) - 1 \in Nat
    BY Marks
  <2>4. i + (Len(mark) - 1) <= Len(t)
    BY <2>3, OccursWithin
  <2>5. Reached(t, i + (Len(mark) - 1), "code", <<>>, 0, f, m)
    BY <2>2, <2>3, <2>4, PassAll
  <2>6. i + (Len(mark) - 1) = i + Len(mark) - 1
    BY <2>3
  <2> QED  BY <2>5, <2>6 DEF AtWord
<1>5. CASE mode = "quote" /\ At(t, i + 1) = "'"
  <2>1. Inside(State(mode, mark, 0, d, m), t, i) = State("quote", mark, 1, d, m)
    BY <1>5, InsideQuotation
  <2>2. mark = <<"'">> /\ Len(mark) = 1
    BY <1>5 DEF Quotation
  <2>3. Reached(t, i, "quote", <<"'">>, 1, f, m)
    BY <1>1, <1>2, <1>3, <2>1, <2>2 DEF Reached
  <2>4. i + 1 \in 1 .. Len(t) /\ t[i + 1] = "'"
    BY <1>5 DEF At
  <2>5. i + 1 - 1 = i
    OBVIOUS
  <2> QED  BY <2>2, <2>3, <2>4, <2>5 DEF AtWord
<1> QED  BY <1>4, <1>5

LEMMA EndOfIsLeast ==
  ASSUME NEW t, NEW mark, NEW i \in Nat, Ends(mark, t, i) # {}
  PROVE  /\ EndOf(mark, t, i) \in Ends(mark, t, i)
         /\ \A k \in Ends(mark, t, i) : EndOf(mark, t, i) <= k
<1>1. Ends(mark, t, i) \in SUBSET Nat
  BY DEF Ends
<1> QED  BY <1>1, FirstIsLeast DEF EndOf

(* From within a quotation the scanner comes to its end.                   *)
LEMMA Quoted ==
  ASSUME NEW t \in Seq(Characters), NEW b \in 0 .. Len(t), NEW f \in 1 .. b + 1,
         NEW mode, NEW mark, Quotation(mode, mark), NEW m,
         Reached(t, b, mode, mark, 0, f, m)
  PROVE  LET e == EndOf(mark, t, b + 1)
         IN  /\ e \in b .. Len(t)
             /\ AtWord(t, e + 1, f, m) \/ (e = Len(t) /\ AtEnd(t, f, m))
<1> DEFINE e == EndOf(mark, t, b + 1)
           p == e - Len(mark) + 1
<1>0. mark \in Seq(Characters) /\ mark # <<>> /\ Len(mark) \in Nat \ {0}
  BY Marks
<1>a. \A k \in b + 1 .. Len(t) : Occurs(mark, t, k) =>
          k + Len(mark) - 1 \in Ends(mark, t, b + 1)
  <2> TAKE k \in b + 1 .. Len(t)
  <2> HAVE Occurs(mark, t, k)
  <2>1. k + Len(mark) - 1 \in 1 .. Len(t)
    BY <1>0, OccursWithin
  <2>2. k + Len(mark) - 1 - Len(mark) + 1 = k
    BY <1>0
  <2> QED  BY <1>0, <2>1, <2>2 DEF Ends
<1>1. CASE Ends(mark, t, b + 1) = {}
  <2>1. e = Len(t)
    BY <1>1 DEF EndOf
  <2>2. \A k \in b + 1 .. Len(t) : ~ Occurs(mark, t, k)
    BY <1>1, <1>a
  <2>3. Len(t) \in b .. Len(t)
    OBVIOUS
  <2>4. Reached(t, Len(t), mode, mark, 0, f, m)
    BY <2>2, <2>3, Wait
  <2> QED  BY <2>1, <2>4 DEF AtEnd
<1>2. CASE Ends(mark, t, b + 1) # {}
  <2>1. e \in Ends(mark, t, b + 1) /\ \A k \in Ends(mark, t, b + 1) : e <= k
    BY <1>2, EndOfIsLeast
  <2>2. e \in b + 1 .. Len(t) /\ p \in b + 1 .. Len(t) /\ Occurs(mark, t, p)
    BY <1>0, <2>1 DEF Ends
  <2>3. \A k \in b + 1 .. p - 1 : ~ Occurs(mark, t, k)
    <3> TAKE k \in b + 1 .. p - 1
    <3>1. k \in b + 1 .. Len(t) /\ ~ (e <= k + Len(mark) - 1)
      BY <1>0, <2>2
    <3> QED  BY <1>a, <2>1, <3>1
  <2> HIDE DEF e
  <2>4. p - 1 \in b .. Len(t)
    BY <2>2
  <2>5. Reached(t, p - 1, mode, mark, 0, f, m)
    <3> HIDE DEF p
    <3> QED  BY <2>3, <2>4, Wait
  <2>6. AtWord(t, p + Len(mark), f, m)
    <3> HIDE DEF p
    <3>1. p \in 1 .. Len(t) /\ f \in 1 .. p
      BY <2>2
    <3> QED  BY <2>2, <2>5, <3>1, LeaveQuotation
  <2>7. p + Len(mark) = e + 1
    BY <1>0, <2>2
  <2> QED  BY <2>2, <2>6, <2>7 DEF e
<1> QED  BY <1>1, <1>2
-----------------------------------------------------------------------------
(* The tag the scanner finds at a dollar sign is that of the word.         *)
LEMMA DollarTags ==
  ASSUME NEW t \in Seq(Characters), NEW i \in 1 .. Len(t), t[i] = "$",
         At(t, i + 1) # "0"
  PROVE  /\ Tags(t, i) = {} => DollarTag(t, i) = <<>>
         /\ \A j \in Tags(t, i) : DollarTag(t, i) = SubSeq(t, i, j)
<1> DEFINE closing == {j \in i + 1 .. Len(t) : t[j] = "$"}
           first == First(closing)
           tag(j) == SubSeq(t, i, j)
<1>1. ASSUME NEW j \in closing
      PROVE  (\A k \in 2 .. Len(tag(j)) - 1 : tag(j)[k] \in NameCharacters) <=>
             (\A k \in i + 1 .. j - 1 : t[k] \in NameCharacters)
  <2>1. j \in i + 1 .. Len(t) /\ i \in Nat
    OBVIOUS
  <2>2. Len(tag(j)) = j - i + 1 /\ \A k \in 1 .. j - i + 1 : tag(j)[k] = t[i + k - 1]
    BY <2>1
  <2>3. ASSUME \A k \in 2 .. Len(tag(j)) - 1 : tag(j)[k] \in NameCharacters, NEW k \in i + 1 .. j - 1
        PROVE  t[k] \in NameCharacters
    <3>1. k - i + 1 \in 2 .. Len(tag(j)) - 1 /\ k - i + 1 \in 1 .. j - i + 1
      BY <2>1, <2>2
    <3>2. i + (k - i + 1) - 1 = k
      OBVIOUS
    <3> QED  BY <2>2, <2>3, <3>1, <3>2
  <2>4. ASSUME \A k \in i + 1 .. j - 1 : t[k] \in NameCharacters, NEW k \in 2 .. Len(tag(j)) - 1
        PROVE  tag(j)[k] \in NameCharacters
    BY <2>1, <2>2, <2>4
  <2> QED  BY <2>3, <2>4
<1>2. DollarTag(t, i) = IF closing # {} /\ \A k \in 2 .. Len(tag(first)) - 1 : tag(first)[k] \in NameCharacters
                        THEN tag(first) ELSE <<>>
  BY DEF DollarTag
<1>3. closing # {} => first \in closing /\ \A k \in closing : first <= k
  <2>1. closing \in SUBSET Nat
    OBVIOUS
  <2> HIDE DEF closing
  <2> QED  BY <2>1, FirstIsLeast
<1>4. ASSUME NEW j \in Tags(t, i)  PROVE j = first /\ first \in closing
  <2>1. j \in closing
    BY DEF Tags
  <2>2. first \in closing /\ first <= j
    BY <1>3, <2>1
  <2>3. first \in i + 1 .. Len(t) /\ t[first] = "$"
    BY <2>2
  <2>4. ~ first < j
    <3> HIDE DEF first, closing
    <3> QED  BY <2>3 DEF Tags, NameCharacters, Letters
  <2> QED  BY <2>1, <2>2, <2>3, <2>4
<1>5. ASSUME Tags(t, i) = {}  PROVE DollarTag(t, i) = <<>>
  <2>1. SUFFICES ASSUME closing # {}
                 PROVE  ~ \A k \in 2 .. Len(tag(first)) - 1 : tag(first)[k] \in NameCharacters
    BY <1>2
  <2>2. first \in closing
    BY <1>3, <2>1
  <2> HIDE DEF first
  <2>3. ~ \A k \in i + 1 .. first - 1 : t[k] \in NameCharacters
    BY <1>5, <2>2 DEF Tags
  <2> QED  BY <1>1, <2>2, <2>3
<1>6. ASSUME NEW j \in Tags(t, i)  PROVE DollarTag(t, i) = SubSeq(t, i, j)
  <2>1. j = first /\ first \in closing
    BY <1>4
  <2>2. \A k \in i + 1 .. j - 1 : t[k] \in NameCharacters
    BY DEF Tags
  <2> HIDE DEF first
  <2> QED  BY <1>1, <1>2, <2>1, <2>2
<1> QED  BY <1>5, <1>6

LEMMA OccursTwo ==
  ASSUME NEW t, NEW x, NEW y, NEW i \in Nat
  PROVE  Occurs(<<x, y>>, t, i) <=> At(t, i) = x /\ At(t, i + 1) = y
<1>1. Len(<<x, y>>) = 2 /\ <<x, y>>[1] = x /\ <<x, y>>[2] = y
  OBVIOUS
<1>2. 1 .. 2 = {1, 2} /\ i + 1 - 1 = i /\ i + 2 - 1 = i + 1
  OBVIOUS
<1> QED  BY <1>1, <1>2 DEF Occurs

-----------------------------------------------------------------------------
(* The recursions of a comment and of an escaped literal.                  *)
CommentPlaces(t) == (1 .. Len(t) + 2) \X Nat
CommentStep(t, g, p) ==
    IF p[1] > Len(t) THEN Len(t)
    ELSE IF Occurs(<<"*", "/">>, t, p[1])
         THEN IF p[2] = 0 THEN p[1] + 1 ELSE g[<<p[1] + 2, p[2] - 1>>]
    ELSE IF Occurs(<<"/", "*">>, t, p[1]) THEN g[<<p[1] + 2, p[2] + 1>>]
    ELSE g[<<p[1] + 1, p[2]>>]

LEMMA CommentEndIsDefined ==
  ASSUME NEW t \in Seq(Characters)
  PROVE  CommentEnd(t) = [p \in CommentPlaces(t) |-> CommentStep(t, CommentEnd(t), p)]
<1> DEFINE
      D == CommentPlaces(t)
      closes(p) == Occurs(<<"*", "/">>, t, p[1])
      opens(p) == Occurs(<<"/", "*">>, t, p[1])
      Stop == {p \in D : p[1] > Len(t) \/ (closes(p) /\ p[2] = 0)}
      value == [p \in D |-> IF p[1] > Len(t) THEN Len(t) ELSE p[1] + 1]
      next == [p \in D |-> IF closes(p) THEN <<p[1] + 2, p[2] - 1>>
                           ELSE IF opens(p) THEN <<p[1] + 2, p[2] + 1>>
                           ELSE <<p[1] + 1, p[2]>>]
      rank == [p \in D |-> Len(t) + 2 - p[1]]
      bound == Len(t) + 2
      IsEnd(g) == g = [p \in D |-> CommentStep(t, g, p)]
<1>1. rank \in [D -> Nat] /\ bound \in Nat /\ \A p \in D : rank[p] < bound
  BY DEF CommentPlaces
<1>2. ASSUME NEW p \in D, p \notin Stop  PROVE next[p] \in D /\ rank[next[p]] < rank[p]
  <2>1. p[1] \in 1 .. Len(t) /\ p[2] \in Nat /\ (closes(p) => p[2] - 1 \in Nat)
    BY <1>2 DEF CommentPlaces
  <2> HIDE DEF closes, opens
  <2>2. next[p] \in D /\ next[p][1] > p[1]
    BY <2>1 DEF CommentPlaces
  <2> QED  BY <2>2 DEF CommentPlaces
<1>3. Recurs(D, Stop, value, next)
  <2> HIDE DEF D, Stop, value, next, rank, bound
  <2> QED  BY <1>1, <1>2, Recursion
<1>4. ASSUME NEW g, NEW p \in D
      PROVE  (IF p \in Stop THEN value[p] ELSE g[next[p]]) = CommentStep(t, g, p)
  BY DEF CommentStep
<1>5. \E g : IsEnd(g)
  <2> HIDE DEF D, Stop, value, next, rank
  <2>1. PICK g : IsRecursion(D, Stop, value, next, g)
    BY <1>3 DEF Recurs
  <2>2. IsEnd(g)
    BY <1>4, <2>1 DEF IsRecursion
  <2> HIDE DEF IsEnd
  <2> QED  BY <2>2
<1>6. CommentEnd(t) = CHOOSE g : IsEnd(g)
  BY DEF CommentEnd, CommentStep, CommentPlaces
<1>7. IsEnd(CommentEnd(t))
  <2> HIDE DEF IsEnd
  <2> QED  BY <1>5, <1>6
<1> QED  BY <1>7

LEMMA CommentEndIsAPlace ==
  ASSUME NEW t \in Seq(Characters), NEW p \in CommentPlaces(t)
  PROVE  /\ CommentEnd(t)[p] \in 0 .. Len(t)
         /\ CommentEnd(t)[p] >= p[1] - 1 \/ CommentEnd(t)[p] = Len(t)
<1> DEFINE
      D == CommentPlaces(t)
      e == CommentEnd(t)
      G == {q \in D : e[q] \in 0 .. Len(t) /\ (e[q] >= q[1] - 1 \/ e[q] = Len(t))}
      rank == [q \in D |-> Len(t) + 2 - q[1]]
<1>1. rank \in [D -> Nat]
  BY DEF CommentPlaces
<1>2. ASSUME NEW q \in D, \A r \in D : rank[r] < rank[q] => r \in G
      PROVE  q \in G
  <2>1. e[q] = CommentStep(t, e, q)
    BY CommentEndIsDefined
  <2> HIDE DEF e
  <2>2. q[1] \in 1 .. Len(t) + 2 /\ q[2] \in Nat
    BY DEF CommentPlaces
  <2>3. \A j \in q[1] + 1 .. Len(t) + 2 : \A d \in Nat : <<j, d>> \in G
    <3> TAKE j \in q[1] + 1 .. Len(t) + 2
    <3> TAKE d \in Nat
    <3>1. <<j, d>> \in D /\ <<j, d>>[1] = j
      BY <2>2 DEF CommentPlaces
    <3>2. rank[<<j, d>>] < rank[q]
      BY <2>2, <3>1
    <3> QED  BY <1>2, <3>1, <3>2
  <2>4. Occurs(<<"*", "/">>, t, q[1]) /\ q[1] <= Len(t) => q[1] + 1 <= Len(t)
    <3>1. Occurs(<<"*", "/">>, t, q[1]) => At(t, q[1] + 1) = "/"
      BY <2>2, OccursTwo
    <3> QED  BY <2>2, <3>1 DEF At
  <2>5. CASE q[1] > Len(t)
    BY <2>1, <2>2, <2>5 DEF CommentStep
  <2>6. CASE q[1] <= Len(t) /\ Occurs(<<"*", "/">>, t, q[1]) /\ q[2] = 0
    <3>1. e[q] = q[1] + 1
      BY <2>1, <2>2, <2>6 DEF CommentStep
    <3> QED  BY <2>2, <2>4, <2>6, <3>1
  <2>7. CASE q[1] <= Len(t) /\ ~ (Occurs(<<"*", "/">>, t, q[1]) /\ q[2] = 0)
    <3>0. \E j \in q[1] + 1 .. Len(t) + 2 : \E d \in Nat : e[q] = e[<<j, d>>]
      <4>1. CASE Occurs(<<"*", "/">>, t, q[1])
        <5>1. e[q] = e[<<q[1] + 2, q[2] - 1>>] /\ q[2] - 1 \in Nat
          BY <2>1, <2>2, <2>7, <4>1 DEF CommentStep
        <5>2. q[1] + 2 \in q[1] + 1 .. Len(t) + 2 /\ q[2] - 1 \in Nat
          BY <2>2, <2>7, <5>1
        <5> QED  BY <5>1, <5>2, Zenon
      <4>2. CASE ~ Occurs(<<"*", "/">>, t, q[1]) /\ Occurs(<<"/", "*">>, t, q[1])
        <5>1. e[q] = e[<<q[1] + 2, q[2] + 1>>]
          BY <2>1, <2>2, <2>7, <4>2 DEF CommentStep
        <5>2. q[1] + 2 \in q[1] + 1 .. Len(t) + 2 /\ q[2] + 1 \in Nat
          BY <2>2, <2>7, <5>1
        <5> QED  BY <5>1, <5>2, Zenon
      <4>3. CASE ~ Occurs(<<"*", "/">>, t, q[1]) /\ ~ Occurs(<<"/", "*">>, t, q[1])
        <5>1. e[q] = e[<<q[1] + 1, q[2]>>]
          BY <2>1, <2>2, <2>7, <4>3 DEF CommentStep
        <5>2. q[1] + 1 \in q[1] + 1 .. Len(t) + 2 /\ q[2] \in Nat
          BY <2>2, <2>7, <5>1
        <5> QED  BY <5>1, <5>2, Zenon
      <4> QED  BY <4>1, <4>2, <4>3
    <3>1. PICK j \in q[1] + 1 .. Len(t) + 2 : \E d \in Nat : e[q] = e[<<j, d>>]
      BY <3>0
    <3>3. PICK d \in Nat : e[q] = e[<<j, d>>]
      BY <3>1
    <3>2. e[<<j, d>>] \in 0 .. Len(t) /\ (e[<<j, d>>] >= j - 1 \/ e[<<j, d>>] = Len(t))
      BY <2>3, <3>1
    <3> QED  BY <2>2, <3>1, <3>2, <3>3
  <2> QED  BY <2>2, <2>5, <2>6, <2>7
<1>3. G = D
  <2> G \in SUBSET D
    OBVIOUS
  <2> HIDE DEF D, G, rank
  <2> QED  BY <1>1, <1>2, RankInduction
<1> QED  BY <1>3

EscapeStep(t, g, i) ==
    IF i > Len(t) THEN Len(t)
    ELSE IF t[i] = "bs" \/ Occurs(<<"'", "'">>, t, i) THEN g[i + 2]
    ELSE IF t[i] = "'" THEN i
    ELSE g[i + 1]

LEMMA EscapeEndIsDefined ==
  ASSUME NEW t \in Seq(Characters)
  PROVE  EscapeEnd(t) = [i \in 1 .. Len(t) + 2 |-> EscapeStep(t, EscapeEnd(t), i)]
<1> DEFINE
      D == 1 .. Len(t) + 2
      double(i) == t[i] = "bs" \/ Occurs(<<"'", "'">>, t, i)
      Stop == {i \in D : i > Len(t) \/ (~ double(i) /\ t[i] = "'")}
      value == [i \in D |-> IF i > Len(t) THEN Len(t) ELSE i]
      next == [i \in D |-> IF double(i) THEN i + 2 ELSE i + 1]
      rank == [i \in D |-> Len(t) + 2 - i]
      bound == Len(t) + 2
      IsEnd(g) == g = [i \in D |-> EscapeStep(t, g, i)]
<1>1. rank \in [D -> Nat] /\ bound \in Nat /\ \A i \in D : rank[i] < bound
  OBVIOUS
<1>2. ASSUME NEW i \in D, i \notin Stop  PROVE next[i] \in D /\ rank[next[i]] < rank[i]
  <2>1. i \in 1 .. Len(t)
    BY <1>2
  <2> HIDE DEF double
  <2>2. next[i] \in D /\ next[i] > i
    BY <2>1
  <2> QED  BY <2>2
<1>3. Recurs(D, Stop, value, next)
  <2> HIDE DEF D, Stop, value, next, rank, bound
  <2> QED  BY <1>1, <1>2, Recursion
<1>4. ASSUME NEW g, NEW i \in D
      PROVE  (IF i \in Stop THEN value[i] ELSE g[next[i]]) = EscapeStep(t, g, i)
  BY DEF EscapeStep
<1>5. \E g : IsEnd(g)
  <2> HIDE DEF D, Stop, value, next, rank
  <2>1. PICK g : IsRecursion(D, Stop, value, next, g)
    BY <1>3 DEF Recurs
  <2>2. IsEnd(g)
    BY <1>4, <2>1 DEF IsRecursion
  <2> HIDE DEF IsEnd
  <2> QED  BY <2>2
<1>6. EscapeEnd(t) = CHOOSE g : IsEnd(g)
  BY DEF EscapeEnd, EscapeStep
<1>7. IsEnd(EscapeEnd(t))
  <2> HIDE DEF IsEnd
  <2> QED  BY <1>5, <1>6
<1> QED  BY <1>7

LEMMA EscapeEndIsAPlace ==
  ASSUME NEW t \in Seq(Characters), NEW i \in 1 .. Len(t) + 2
  PROVE  /\ EscapeEnd(t)[i] \in 0 .. Len(t)
         /\ EscapeEnd(t)[i] >= i - 1 \/ EscapeEnd(t)[i] = Len(t)
<1> DEFINE
      D == 1 .. Len(t) + 2
      e == EscapeEnd(t)
      G == {k \in D : e[k] \in 0 .. Len(t) /\ (e[k] >= k - 1 \/ e[k] = Len(t))}
      rank == [k \in D |-> Len(t) + 2 - k]
<1>1. rank \in [D -> Nat]
  OBVIOUS
<1>2. ASSUME NEW k \in D, \A j \in D : rank[j] < rank[k] => j \in G
      PROVE  k \in G
  <2>1. e[k] = EscapeStep(t, e, k)
    BY EscapeEndIsDefined
  <2> HIDE DEF e
  <2>2. \A j \in k + 1 .. Len(t) + 2 : e[j] \in 0 .. Len(t) /\ (e[j] >= j - 1 \/ e[j] = Len(t))
    <3> TAKE j \in k + 1 .. Len(t) + 2
    <3>1. j \in D /\ rank[j] < rank[k]
      OBVIOUS
    <3> QED  BY <1>2, <3>1
  <2>3. \/ k > Len(t) /\ e[k] = Len(t)
        \/ k <= Len(t) /\ e[k] \in {k, e[k + 1], e[k + 2]}
    BY <2>1 DEF EscapeStep
  <2>4. CASE k > Len(t)
    BY <2>3, <2>4
  <2>5. CASE k <= Len(t)
    <3>1. k + 1 \in k + 1 .. Len(t) + 2 /\ k + 2 \in k + 1 .. Len(t) + 2
      BY <2>5
    <3>2. e[k + 1] \in 0 .. Len(t) /\ (e[k + 1] >= k \/ e[k + 1] = Len(t))
      BY <2>2, <3>1
    <3>3. e[k + 2] \in 0 .. Len(t) /\ (e[k + 2] >= k + 1 \/ e[k + 2] = Len(t))
      BY <2>2, <3>1
    <3> HIDE DEF e
    <3> QED  BY <2>3, <2>5, <3>2, <3>3
  <2> QED  BY <2>4, <2>5
<1>3. G = D
  <2> G \in SUBSET D
    OBVIOUS
  <2> HIDE DEF D, G, rank
  <2> QED  BY <1>1, <1>2, RankInduction
<1> QED  BY <1>3

(* Where a word may end.                                                   *)
LEMMA EndOfIsAPlace ==
  ASSUME NEW t \in Seq(Characters), NEW mark, NEW i \in 1 .. Len(t) + 1
  PROVE  EndOf(mark, t, i) \in i - 1 .. Len(t)
<1>1. CASE Ends(mark, t, i) = {}
  BY <1>1 DEF EndOf
<1>2. CASE Ends(mark, t, i) # {}
  <2>1. EndOf(mark, t, i) \in Ends(mark, t, i)
    BY <1>2, EndOfIsLeast
  <2> QED  BY <2>1 DEF Ends
<1> QED  BY <1>1, <1>2

LEMMA IdentifierEndIsAPlace ==
  ASSUME NEW t \in Seq(Characters), NEW i \in 1 .. Len(t), t[i] \in Letters
  PROVE  /\ IdentifierEnd(t, i) \in i .. Len(t)
         /\ \A k \in i .. IdentifierEnd(t, i) : t[k] \in NameCharacters \cup {"$"}
<1> DEFINE S == {j \in i .. Len(t) : At(t, j + 1) \notin NameCharacters \cup {"$"}}
           e == IdentifierEnd(t, i)
<1>1. e \in S /\ \A k \in S : e <= k
  <2>1. At(t, Len(t) + 1) = "none" /\ "none" \notin NameCharacters \cup {"$"}
    BY DEF At, NameCharacters, Letters
  <2>2. Len(t) \in S /\ S \in SUBSET Nat
    BY <2>1
  <2>3. e = First(S)
    BY DEF IdentifierEnd
  <2> HIDE DEF S, e
  <2> QED  BY <2>2, <2>3, FirstIsLeast
<1> HIDE DEF e
<1>2. ASSUME NEW k \in i + 1 .. e  PROVE t[k] \in NameCharacters \cup {"$"}
  <2>1. k - 1 \in i .. Len(t) /\ ~ e <= k - 1 /\ k - 1 + 1 = k /\ k \in 1 .. Len(t)
    BY <1>1
  <2>2. At(t, k) \in NameCharacters \cup {"$"}
    BY <1>1, <2>1
  <2> QED  BY <2>1, <2>2 DEF At
<1>3. t[i] \in NameCharacters
  BY DEF NameCharacters
<1>4. e \in i .. Len(t) /\ \A k \in i .. e : k = i \/ k \in i + 1 .. e
  BY <1>1
<1> QED  BY <1>2, <1>3, <1>4 DEF e

LEMMA WordEndIsAPlace ==
  ASSUME NEW t \in Seq(Characters), NEW i \in 1 .. Len(t)
  PROVE  WordEnd(t, i) \in i .. Len(t)
<1>1. At(t, i) = t[i]
  BY DEF At
<1>2. ASSUME NEW x, NEW y, Occurs(<<x, y>>, t, i), y # "none"
      PROVE  t[i] = x /\ At(t, i + 1) = y /\ i + 1 <= Len(t)
  <2>1. At(t, i) = x /\ At(t, i + 1) = y
    BY <1>2, OccursTwo
  <2> QED  BY <1>1, <1>2, <2>1 DEF At
<1>3. ASSUME NEW mark, NEW k \in i + 1 .. Len(t) + 1
      PROVE  EndOf(mark, t, k) \in i .. Len(t)
  <2>1. k \in 1 .. Len(t) + 1
    OBVIOUS
  <2>2. EndOf(mark, t, k) \in k - 1 .. Len(t)
    BY <2>1, EndOfIsAPlace
  <2> QED  BY <2>2
<1>4. CASE Occurs(<<"-", "-">>, t, i)
  <2>1. t[i] = "-" /\ i + 1 <= Len(t)
    BY <1>2, <1>4
  <2>2. ~ Occurs(<<"/", "*">>, t, i) /\ ~ Escape(t, i)
    BY <1>2, <2>1 DEF Escape
  <2>3. WordEnd(t, i) = EndOf(<<"nl">>, t, i + 2)
    BY <1>4, <2>1, <2>2 DEF WordEnd, Letters
  <2>4. i + 2 \in i + 1 .. Len(t) + 1
    BY <2>1
  <2> QED  BY <1>3, <2>3, <2>4
<1>5. CASE Occurs(<<"/", "*">>, t, i)
  <2>1. t[i] = "/" /\ i + 1 <= Len(t)
    BY <1>2, <1>5
  <2>2. ~ Occurs(<<"-", "-">>, t, i) /\ ~ Escape(t, i)
    BY <1>2, <2>1 DEF Escape
  <2>3. WordEnd(t, i) = CommentEnd(t)[<<i + 2, 0>>]
    BY <1>5, <2>1, <2>2 DEF WordEnd, Letters
  <2>4. <<i + 2, 0>> \in CommentPlaces(t) /\ <<i + 2, 0>>[1] = i + 2
    BY <2>1 DEF CommentPlaces
  <2>5. /\ CommentEnd(t)[<<i + 2, 0>>] \in 0 .. Len(t)
        /\ CommentEnd(t)[<<i + 2, 0>>] >= i + 2 - 1 \/ CommentEnd(t)[<<i + 2, 0>>] = Len(t)
    BY <2>4, CommentEndIsAPlace
  <2> QED  BY <2>3, <2>5
<1>6. CASE t[i] = "'"
  <2>1. ~ Occurs(<<"-", "-">>, t, i) /\ ~ Occurs(<<"/", "*">>, t, i) /\ ~ Escape(t, i)
    BY <1>2, <1>6 DEF Escape
  <2>2. WordEnd(t, i) = EndOf(<<"'">>, t, i + 1)
    BY <1>6, <2>1 DEF WordEnd, Letters
  <2> QED  BY <1>3, <2>2
<1>7. CASE Escape(t, i)
  <2>1. t[i] = "E" /\ i + 1 <= Len(t)
    BY <1>2, <1>7 DEF Escape
  <2>2. ~ Occurs(<<"-", "-">>, t, i) /\ ~ Occurs(<<"/", "*">>, t, i)
    BY <1>2, <2>1
  <2>3. WordEnd(t, i) = EscapeEnd(t)[i + 2]
    BY <1>7, <2>1, <2>2 DEF WordEnd
  <2>4. i + 2 \in 1 .. Len(t) + 2
    OBVIOUS
  <2>5. /\ EscapeEnd(t)[i + 2] \in 0 .. Len(t)
        /\ EscapeEnd(t)[i + 2] >= i + 2 - 1 \/ EscapeEnd(t)[i + 2] = Len(t)
    BY <2>4, EscapeEndIsAPlace
  <2> QED  BY <2>3, <2>5
<1>8. CASE t[i] \in Letters /\ ~ Escape(t, i)
  <2>1. ~ Occurs(<<"-", "-">>, t, i) /\ ~ Occurs(<<"/", "*">>, t, i)
    BY <1>2, <1>8 DEF Letters
  <2>2. WordEnd(t, i) = IdentifierEnd(t, i)
    BY <1>8, <2>1 DEF WordEnd, Letters
  <2> QED  BY <1>8, <2>2, IdentifierEndIsAPlace
<1>9. CASE t[i] = "$" /\ Tags(t, i) # {}
  <2> DEFINE j == First(Tags(t, i))
  <2>1. ~ Occurs(<<"-", "-">>, t, i) /\ ~ Occurs(<<"/", "*">>, t, i) /\ ~ Escape(t, i)
    BY <1>2, <1>9 DEF Escape
  <2>2. WordEnd(t, i) = EndOf(SubSeq(t, i, j), t, j + 1)
    BY <1>9, <2>1 DEF WordEnd, Letters
  <2>3. Tags(t, i) \in SUBSET Nat
    BY DEF Tags
  <2>4. j \in Tags(t, i)
    BY <1>9, <2>3, FirstIsLeast
  <2> HIDE DEF j
  <2>5. j + 1 \in i + 1 .. Len(t) + 1
    BY <2>4 DEF Tags
  <2> QED  BY <1>3, <2>2, <2>5
<1>10. CASE /\ ~ Occurs(<<"-", "-">>, t, i) /\ ~ Occurs(<<"/", "*">>, t, i)
            /\ t[i] # "'" /\ ~ Escape(t, i) /\ t[i] \notin Letters
            /\ ~ (t[i] = "$" /\ Tags(t, i) # {})
  <2>1. WordEnd(t, i) = i
    BY <1>10 DEF WordEnd
  <2> QED  BY <2>1
<1> QED  BY <1>4, <1>5, <1>6, <1>7, <1>8, <1>9, <1>10

(* A comment that holds no other ends with the first mark of an end.       *)
LEMMA EndOfGoesOn ==
  ASSUME NEW t \in Seq(Characters), NEW i \in 1 .. Len(t)
  PROVE  EndOf(<<"*", "/">>, t, i) =
             IF Occurs(<<"*", "/">>, t, i) THEN i + 1 ELSE EndOf(<<"*", "/">>, t, i + 1)
<1> DEFINE mark == <<"*", "/">>
           S == Ends(mark, t, i)
           R == Ends(mark, t, i + 1)
<1>1. Len(mark) = 2
  OBVIOUS
<1> HIDE DEF mark
<1>2. S = {j \in i .. Len(t) : j - 1 >= i /\ Occurs(mark, t, j - 1)}
  <2>1. \A j \in i .. Len(t) : j - Len(mark) + 1 = j - 1
    BY <1>1
  <2> QED  BY <2>1 DEF Ends
<1>3. R = {j \in i + 1 .. Len(t) : j - 1 >= i + 1 /\ Occurs(mark, t, j - 1)}
  <2>1. \A j \in i + 1 .. Len(t) : j - Len(mark) + 1 = j - 1
    BY <1>1
  <2> QED  BY <2>1 DEF Ends
<1>4. S \in SUBSET Nat /\ (S # {} => First(S) \in S /\ \A k \in S : First(S) <= k)
  <2>1. S \in SUBSET Nat
    BY <1>2
  <2> HIDE DEF S
  <2> QED  BY <2>1, FirstIsLeast
<1>5. CASE Occurs(mark, t, i)
  <2>1. At(t, i + 1) = "/"
    BY <1>5, OccursTwo DEF mark
  <2>2. i + 1 \in 1 .. Len(t) /\ i + 1 - 1 = i
    BY <2>1 DEF At
  <2>3. i + 1 \in S /\ \A k \in S : i + 1 <= k
    BY <1>2, <1>5, <2>2
  <2>4. EndOf(mark, t, i) = First(S)
    BY <2>3 DEF EndOf
  <2>5. First(S) = i + 1
    <3>1. First(S) \in S /\ First(S) <= i + 1 /\ i + 1 <= First(S)
      BY <1>4, <2>3
    <3>2. First(S) \in Nat
      BY <1>4, <3>1
    <3> HIDE DEF S
    <3> QED  BY <3>1, <3>2
  <2> QED  BY <1>5, <2>4, <2>5 DEF mark
<1>6. CASE ~ Occurs(mark, t, i)
  <2>1. S = R
    <3>1. \A j \in S : j - 1 # i
      BY <1>2, <1>6
    <3>2. \A j \in S : j \in R
      BY <1>2, <1>3, <3>1
    <3>3. \A j \in R : j \in S
      BY <1>2, <1>3
    <3> QED  BY <3>2, <3>3
  <2>2. EndOf(mark, t, i) = EndOf(mark, t, i + 1)
    BY <2>1 DEF EndOf
  <2> QED  BY <1>6, <2>2 DEF mark
<1> QED  BY <1>5, <1>6

LEMMA PlainComment ==
  ASSUME NEW t \in Seq(Characters), NEW i \in 1 .. Len(t) + 1,
         \A k \in i .. EndOf(<<"*", "/">>, t, i) : ~ Occurs(<<"/", "*">>, t, k)
  PROVE  CommentEnd(t)[<<i, 0>>] = EndOf(<<"*", "/">>, t, i)
<1> DEFINE
      D == 1 .. Len(t) + 1
      e(k) == EndOf(<<"*", "/">>, t, k)
      c(k) == CommentEnd(t)[<<k, 0>>]
      G == {k \in D : (\A j \in k .. e(k) : ~ Occurs(<<"/", "*">>, t, j)) => c(k) = e(k)}
      rank == [k \in D |-> Len(t) + 1 - k]
<1>1. rank \in [D -> Nat]
  OBVIOUS
<1>2. ASSUME NEW k \in D, \A j \in D : rank[j] < rank[k] => j \in G
      PROVE  k \in G
  <2>1. SUFFICES ASSUME \A j \in k .. e(k) : ~ Occurs(<<"/", "*">>, t, j)
                 PROVE  c(k) = e(k)
    OBVIOUS
  <2>2. <<k, 0>> \in CommentPlaces(t) /\ <<k, 0>>[1] = k /\ <<k, 0>>[2] = 0
    BY DEF CommentPlaces
  <2>3. c(k) = CommentStep(t, CommentEnd(t), <<k, 0>>)
    BY <2>2, CommentEndIsDefined
  <2>4. e(k) \in k - 1 .. Len(t)
    BY EndOfIsAPlace
  <2>5. CASE k = Len(t) + 1
    <3>1. e(k) = Len(t)
      BY <2>4, <2>5
    <3>2. k > Len(t)
      BY <2>5
    <3>3. c(k) = Len(t)
      BY <2>2, <2>3, <3>2 DEF CommentStep
    <3> QED  BY <3>1, <3>3
  <2>6. CASE k \in 1 .. Len(t)
    <3>1. e(k) = IF Occurs(<<"*", "/">>, t, k) THEN k + 1 ELSE e(k + 1)
      BY <2>6, EndOfGoesOn
    <3>2. ~ (k > Len(t))
      BY <2>6
    <3>3. CASE Occurs(<<"*", "/">>, t, k)
      <4>1. c(k) = k + 1
        BY <2>2, <2>3, <3>2, <3>3 DEF CommentStep
      <4> QED  BY <3>1, <3>3, <4>1
    <3>4. CASE ~ Occurs(<<"*", "/">>, t, k)
      <4>1. k + 1 \in D /\ rank[k + 1] < rank[k]
        BY <2>6
      <4>2. e(k + 1) \in k .. Len(t)
        <5>1. e(k + 1) \in k + 1 - 1 .. Len(t) /\ k + 1 - 1 = k
          BY <4>1, EndOfIsAPlace
        <5> QED  BY <5>1
      <4>3. e(k) = e(k + 1) /\ k \in k .. e(k)
        BY <2>6, <3>1, <3>4, <4>2
      <4>4. ~ Occurs(<<"/", "*">>, t, k)
        BY <2>1, <4>3
      <4>5. c(k) = c(k + 1)
        BY <2>2, <2>3, <3>2, <3>4, <4>4 DEF CommentStep
      <4>6. \A j \in k + 1 .. e(k + 1) : ~ Occurs(<<"/", "*">>, t, j)
        <5>1. \A j \in k + 1 .. e(k + 1) : j \in k .. e(k)
          BY <2>6, <4>3
        <5> QED  BY <2>1, <5>1
      <4>7. k + 1 \in G
        BY <1>2, <4>1
      <4> HIDE DEF e, c
      <4> QED  BY <4>3, <4>5, <4>6, <4>7
    <3> QED  BY <3>3, <3>4
  <2> QED  BY <2>5, <2>6
<1>3. G = D
  <2> G \in SUBSET D
    OBVIOUS
  <2> HIDE DEF D, G, rank
  <2> QED  BY <1>1, <1>2, RankInduction
<1> QED  BY <1>3

(* The scanner is in a state o after it has found what word begins at i.   *)
Begun(o, t, i, c, m) ==
    \/ /\ i + 1 <= Len(t)
       /\ t[i] # "'"
       /\ o = State("line", <<"nl">>, 1, c, m)
       /\ WordEnd(t, i) = EndOf(<<"nl">>, t, i + 2)
    \/ /\ i + 1 <= Len(t)
       /\ t[i] # "'"
       /\ o = State("block", <<"*", "/">>, 1, c, m)
       /\ WordEnd(t, i) = EndOf(<<"*", "/">>, t, i + 2)
    \/ /\ t[i] = "'"
       /\ o = State("quote", <<"'">>, 0, c, m)
       /\ WordEnd(t, i) = EndOf(<<"'">>, t, i + 1)
    \/ /\ t[i] # "'"
       /\ \E j \in i + 1 .. Len(t) :
             /\ o = State("dollar", SubSeq(t, i, j), j - i, c, m)
             /\ WordEnd(t, i) = EndOf(SubSeq(t, i, j), t, j + 1)
    \/ /\ t[i] # "'"
       /\ o = State("code", <<>>, 0, c, m)
       /\ WordEnd(t, i) = i

LEMMA WordAt ==
  ASSUME NEW t \in Seq(Characters), NEW i \in 1 .. Len(t), Ordinary(t, i),
         t[i] \notin Letters, NEW c, NEW m
  PROVE  Begun(Outside(State("code", <<>>, 0, c, m), t, i), t, i, c, m)
<1> DEFINE s == State("code", <<>>, 0, c, m)
           o == Outside(s, t, i)
           e == WordEnd(t, i)
<1>1. At(t, i) = t[i]
  BY DEF At
<1>2. Occurs(<<"-", "-">>, t, i) => t[i] = "-" /\ i + 1 <= Len(t)
  <2>1. Occurs(<<"-", "-">>, t, i) => t[i] = "-" /\ At(t, i + 1) = "-"
    BY <1>1, OccursTwo
  <2> QED  BY <2>1 DEF At
<1>3. Occurs(<<"/", "*">>, t, i) => t[i] = "/" /\ i + 1 <= Len(t)
  <2>1. Occurs(<<"/", "*">>, t, i) => t[i] = "/" /\ At(t, i + 1) = "*"
    BY <1>1, OccursTwo
  <2> QED  BY <2>1 DEF At
<1>a. ~ Escape(t, i)
  BY DEF Ordinary
<1>4. \A mode, mark, n : Enter(s, mode, mark, n) = State(mode, mark, n - 1, c, m)
  BY Entering
<1> HIDE DEF Begun, s
<1>5. CASE Occurs(<<"-", "-">>, t, i)
  <2>1. o = Enter(s, "line", <<"nl">>, 2) /\ e = EndOf(<<"nl">>, t, i + 2)
    BY <1>2, <1>3, <1>5, <1>a DEF Outside, WordEnd
  <2>2. o = State("line", <<"nl">>, 1, c, m)
    BY <1>4, <2>1
  <2> QED  BY <1>2, <1>5, <2>1, <2>2 DEF Begun, s
<1>6. CASE Occurs(<<"/", "*">>, t, i)
  <2>1. o = Enter(s, "block", <<"*", "/">>, 2) /\ e = CommentEnd(t)[<<i + 2, 0>>]
    BY <1>2, <1>3, <1>6, <1>a DEF Outside, WordEnd
  <2>3. i + 2 \in 1 .. Len(t) + 1
    BY <1>3, <1>6
  <2>4. \A k \in i + 2 .. EndOf(<<"*", "/">>, t, i + 2) : ~ Occurs(<<"/", "*">>, t, k)
    BY <1>6 DEF Ordinary
  <2>5. e = EndOf(<<"*", "/">>, t, i + 2)
    BY <2>1, <2>3, <2>4, PlainComment
  <2>2. o = State("block", <<"*", "/">>, 1, c, m)
    BY <1>4, <2>1
  <2> QED  BY <1>3, <1>6, <2>2, <2>5 DEF Begun, s
<1>7. CASE t[i] = "'"
  <2>1. o = Enter(s, "quote", <<"'">>, 1) /\ e = EndOf(<<"'">>, t, i + 1)
    BY <1>2, <1>3, <1>7, <1>a DEF Outside, WordEnd
  <2>2. o = State("quote", <<"'">>, 0, c, m)
    BY <1>4, <2>1
  <2> QED  BY <1>7, <2>1, <2>2 DEF Begun, s
<1>8. CASE t[i] = "$" /\ Tags(t, i) # {}
  <2> DEFINE j == First(Tags(t, i))
             tag == SubSeq(t, i, j)
  <2>0. At(t, i + 1) # "0"
    BY <1>8 DEF Ordinary
  <2>1. j \in Tags(t, i)
    <3>1. Tags(t, i) \in SUBSET Nat
      BY DEF Tags
    <3> QED  BY <1>8, <3>1, FirstIsLeast
  <2>2. j \in i + 1 .. Len(t)
    BY <2>1 DEF Tags
  <2>3. DollarTag(t, i) = tag
    BY <1>8, <2>0, <2>1, DollarTags
  <2> HIDE DEF j
  <2>4. tag # <<>> /\ Len(tag) - 1 = j - i
    BY <2>2
  <2>5. o = Enter(s, "dollar", tag, Len(tag))
    BY <1>2, <1>3, <1>8, <2>3, <2>4 DEF Outside
  <2>6. e = EndOf(tag, t, j + 1)
    BY <1>2, <1>3, <1>8, <1>a DEF WordEnd, j
  <2>7. o = State("dollar", tag, j - i, c, m)
    BY <1>4, <2>4, <2>5
  <2>8. t[i] # "'"
    BY <1>8
  <2> QED  BY <2>2, <2>6, <2>7, <2>8 DEF Begun, s
<1>9. CASE /\ ~ Occurs(<<"-", "-">>, t, i)
           /\ ~ Occurs(<<"/", "*">>, t, i)
           /\ t[i] # "'"
           /\ ~ (t[i] = "$" /\ Tags(t, i) # {})
  <2>1. t[i] = "$" => DollarTag(t, i) = <<>>
    <3>1. t[i] = "$" => At(t, i + 1) # "0"
      BY DEF Ordinary
    <3> QED  BY <1>9, <3>1, DollarTags
  <2>2. o = s /\ e = i
    BY <1>9, <1>a, <2>1 DEF Outside, WordEnd
  <2> QED  BY <1>9, <2>2 DEF Begun, s
<1> QED  BY <1>5, <1>6, <1>7, <1>8, <1>9
-----------------------------------------------------------------------------
(* Once the opening of a quotation is passed over, its end is reached.     *)
LEMMA Opened ==
  ASSUME NEW t \in Seq(Characters), NEW i \in 1 .. Len(t), NEW f \in 1 .. i, NEW m,
         NEW mode, NEW mark, Quotation(mode, mark),
         NEW p \in Nat, i + p <= Len(t), Reached(t, i, mode, mark, p, f, m),
         WordEnd(t, i) = EndOf(mark, t, i + p + 1)
  PROVE  /\ WordEnd(t, i) \in i .. Len(t)
         /\ \/ AtWord(t, WordEnd(t, i) + 1, f, m)
            \/ WordEnd(t, i) = Len(t) /\ AtEnd(t, f, m)
<1> DEFINE b == i + p
<1>1. Reached(t, b, mode, mark, 0, f, m)
  BY PassAll
<1>2. b \in i .. Len(t) /\ b \in 0 .. Len(t) /\ f \in 1 .. b + 1
  OBVIOUS
<1> HIDE DEF b
<1>3. /\ EndOf(mark, t, b + 1) \in b .. Len(t)
      /\ \/ AtWord(t, EndOf(mark, t, b + 1) + 1, f, m)
         \/ EndOf(mark, t, b + 1) = Len(t) /\ AtEnd(t, f, m)
  BY <1>1, <1>2, Quoted
<1> QED  BY <1>2, <1>3 DEF b

(* From the beginning of a word that is no name it comes to its end,       *)
LEMMA OtherWord ==
  ASSUME NEW t \in Seq(Characters), NEW i \in 1 .. Len(t), t[i] # "semi",
         Ordinary(t, i), t[i] \notin Letters,
         NEW f \in 1 .. i, NEW m, AtWord(t, i, f, m)
  PROVE  /\ WordEnd(t, i) \in i .. Len(t)
         /\ \/ AtWord(t, WordEnd(t, i) + 1, f, m)
            \/ WordEnd(t, i) = Len(t) /\ AtEnd(t, f, m)
<1> DEFINE c == SubSeq(t, f, i - 1)
           d == SubSeq(t, f, i)
           o == Outside(State("code", <<>>, 0, d, m), t, i)
<1>1. d = Append(c, t[i])
  BY OneMore
<1>2. \/ o = Scanned(t)[i]
      \/ t[i] = "'" /\ Scanned(t)[i] = State("quote", <<"'">>, 0, d, m)
  <2>1. CASE Reached(t, i - 1, "code", <<>>, 0, f, m)
    <3>1. Scanned(t)[i] = Scan(State("code", <<>>, 0, c, m), t, i)
      BY <2>1, OneStep DEF Reached
    <3> HIDE DEF c, d
    <3>2. Scan(State("code", <<>>, 0, c, m), t, i) = Outside(State("code", <<>>, 0, d, m), t, i)
      BY <1>1, ReadAtOnce
    <3> QED  BY <3>1, <3>2
  <2>2. CASE t[i] = "'" /\ Reached(t, i - 1, "quote", <<"'">>, 1, f, m)
    <3>1. Reached(t, i, "quote", <<"'">>, 1 - 1, f, m)
      BY <2>2, PassOne
    <3> QED  BY <2>2, <3>1 DEF Reached
  <2> QED  BY <2>1, <2>2 DEF AtWord
<1>3. Quotation("line", <<"nl">>) /\ Quotation("block", <<"*", "/">>) /\ Quotation("quote", <<"'">>)
  BY DEF Quotation
<1>4. \A mode, mark, p : Scanned(t)[i] = State(mode, mark, p, d, m) <=> Reached(t, i, mode, mark, p, f, m)
  BY DEF Reached
<1> HIDE DEF d
<1>5. Begun(o, t, i, d, m)
  BY WordAt
<1> HIDE DEF o
<1>6. CASE t[i] = "'"
  <2>1. Reached(t, i, "quote", <<"'">>, 0, f, m) /\ WordEnd(t, i) = EndOf(<<"'">>, t, i + 1)
    BY <1>2, <1>4, <1>5, <1>6 DEF Begun
  <2>2. 0 \in Nat /\ i + 0 <= Len(t) /\ i + 0 + 1 = i + 1
    OBVIOUS
  <2> QED  BY <1>3, <2>1, <2>2, Opened
<1>7. CASE t[i] # "'"
  <2>1. o = Scanned(t)[i]
    BY <1>2, <1>7
  <2>2. CASE /\ i + 1 <= Len(t)
             /\ o = State("line", <<"nl">>, 1, d, m)
             /\ WordEnd(t, i) = EndOf(<<"nl">>, t, i + 2)
    <3>1. Reached(t, i, "line", <<"nl">>, 1, f, m) /\ i + 1 + 1 = i + 2
      BY <1>4, <2>1, <2>2
    <3> QED  BY <1>3, <2>2, <3>1, Opened
  <2>3. CASE /\ i + 1 <= Len(t)
             /\ o = State("block", <<"*", "/">>, 1, d, m)
             /\ WordEnd(t, i) = EndOf(<<"*", "/">>, t, i + 2)
    <3>1. Reached(t, i, "block", <<"*", "/">>, 1, f, m) /\ i + 1 + 1 = i + 2
      BY <1>4, <2>1, <2>3
    <3> QED  BY <1>3, <2>3, <3>1, Opened
  <2>4. ASSUME NEW j \in i + 1 .. Len(t),
               o = State("dollar", SubSeq(t, i, j), j - i, d, m),
               WordEnd(t, i) = EndOf(SubSeq(t, i, j), t, j + 1)
        PROVE  /\ WordEnd(t, i) \in i .. Len(t)
               /\ \/ AtWord(t, WordEnd(t, i) + 1, f, m)
                  \/ WordEnd(t, i) = Len(t) /\ AtEnd(t, f, m)
    <3> DEFINE tag == SubSeq(t, i, j)
    <3>1. Quotation("dollar", tag)
      BY DEF Quotation
    <3>2. Reached(t, i, "dollar", tag, j - i, f, m)
      BY <1>4, <2>1, <2>4
    <3>3. j - i \in Nat /\ i + (j - i) <= Len(t) /\ i + (j - i) + 1 = j + 1
      OBVIOUS
    <3> QED  BY <2>4, <3>1, <3>2, <3>3, Opened
  <2>5. CASE o = State("code", <<>>, 0, d, m) /\ WordEnd(t, i) = i
    <3>1. Reached(t, i, "code", <<>>, 0, f, m) /\ i + 1 - 1 = i
      BY <1>4, <2>1, <2>5
    <3> QED  BY <2>5, <3>1 DEF AtWord
  <2> QED  BY <1>5, <1>7, <2>2, <2>3, <2>4, <2>5 DEF Begun
<1> QED  BY <1>6, <1>7

(* and through a name one character after the other.                       *)
LEMMA NameCharacter ==
  ASSUME NEW t \in Seq(Characters), NEW i \in 1 .. Len(t), t[i] \in NameCharacters,
         NEW f \in 1 .. i, NEW m, AtWord(t, i, f, m)
  PROVE  AtWord(t, i + 1, f, m)
<1> DEFINE c == SubSeq(t, f, i - 1)
           d == SubSeq(t, f, i)
           s == State("code", <<>>, 0, d, m)
<1>1. d = Append(c, t[i])
  BY OneMore
<1>2. t[i] \notin {"'", "semi", "-", "/", "$"} /\ At(t, i) = t[i]
  BY DEF NameCharacters, Letters, At
<1>3. Scanned(t)[i] = Scan(State("code", <<>>, 0, c, m), t, i)
  BY <1>2, OneStep DEF AtWord, Reached
<1>4. ~ Occurs(<<"-", "-">>, t, i) /\ ~ Occurs(<<"/", "*">>, t, i)
  BY <1>2, OccursTwo
<1>5. Outside(s, t, i) = s
  BY <1>2, <1>4 DEF Outside
<1> HIDE DEF c, d
<1>6. Scan(State("code", <<>>, 0, c, m), t, i) = Outside(s, t, i)
  BY <1>1, <1>2, ReadAtOnce
<1>7. Reached(t, i, "code", <<>>, 0, f, m) /\ i + 1 - 1 = i
  BY <1>3, <1>5, <1>6 DEF Reached, d
<1> QED  BY <1>7 DEF AtWord

LEMMA Name ==
  ASSUME NEW t \in Seq(Characters), NEW i \in 1 .. Len(t), t[i] \in Letters, Ordinary(t, i),
         NEW f \in 1 .. i, NEW m, AtWord(t, i, f, m)
  PROVE  AtWord(t, WordEnd(t, i) + 1, f, m)
<1> DEFINE e == WordEnd(t, i)
           S == {q \in Nat : i + q <= e + 1 => AtWord(t, i + q, f, m)}
<1>1. e \in i .. Len(t)
  BY WordEndIsAPlace
<1>2. \A k \in i .. e : t[k] \in NameCharacters
  <2>1. ~ Occurs(<<"-", "-">>, t, i) /\ ~ Occurs(<<"/", "*">>, t, i)
    <3>1. At(t, i) \notin {"-", "/"}
      BY DEF At, Letters
    <3> QED  BY <3>1, OccursTwo
  <2>2. ~ Escape(t, i)
    BY DEF Ordinary
  <2>3. e = IdentifierEnd(t, i)
    BY <2>1, <2>2 DEF WordEnd, Letters
  <2>4. \A k \in i .. e : t[k] \in NameCharacters \cup {"$"}
    BY <2>3, IdentifierEndIsAPlace
  <2>5. \A k \in i .. e : t[k] # "$"
    BY DEF Ordinary
  <2> QED  BY <2>4, <2>5
<1> HIDE DEF e
<1>3. 0 \in S
  OBVIOUS
<1>4. ASSUME NEW q \in S  PROVE q + 1 \in S
  <2>1. SUFFICES ASSUME i + (q + 1) <= e + 1  PROVE AtWord(t, i + (q + 1), f, m)
    OBVIOUS
  <2> DEFINE k == i + q
  <2>2. k \in 1 .. Len(t) /\ k \in i .. e /\ f \in 1 .. k /\ k + 1 = i + (q + 1)
    BY <1>1, <2>1
  <2>3. AtWord(t, k, f, m)
    BY <1>1, <2>1
  <2> HIDE DEF k
  <2>4. AtWord(t, k + 1, f, m)
    BY <1>2, <2>2, <2>3, NameCharacter
  <2> QED  BY <2>2, <2>4
<1>5. e + 1 - i \in S
  <2>1. e + 1 - i \in Nat /\ S \in SUBSET Nat
    BY <1>1
  <2> HIDE DEF S
  <2> QED  BY <1>3, <1>4, <2>1, Induction
<1>6. i + (e + 1 - i) = e + 1
  BY <1>1
<1> QED  BY <1>1, <1>5, <1>6 DEF e

LEMMA Word ==
  ASSUME NEW t \in Seq(Characters), NEW i \in 1 .. Len(t), t[i] # "semi", Ordinary(t, i),
         NEW f \in 1 .. i, NEW m, AtWord(t, i, f, m)
  PROVE  /\ WordEnd(t, i) \in i .. Len(t)
         /\ \/ AtWord(t, WordEnd(t, i) + 1, f, m)
            \/ WordEnd(t, i) = Len(t) /\ AtEnd(t, f, m)
<1>1. CASE t[i] \in Letters
  BY <1>1, Name, WordEndIsAPlace
<1>2. CASE t[i] \notin Letters
  BY <1>2, OtherWord
<1> QED  BY <1>1, <1>2

(* A semicolon that is a word ends a statement.                            *)
LEMMA Semicolon ==
  ASSUME NEW t \in Seq(Characters), NEW i \in 1 .. Len(t), t[i] = "semi",
         NEW f \in 1 .. i, NEW m, AtWord(t, i, f, m)
  PROVE  AtWord(t, i + 1, i + 1, Extended(m, SubSeq(t, f, i - 1)))
<1> DEFINE c == SubSeq(t, f, i - 1)
           n == Extended(m, c)
<1>1. Scanned(t)[i] = Scan(State("code", <<>>, 0, c, m), t, i)
  BY OneStep DEF AtWord, Reached
<1> HIDE DEF c
<1>2. Scan(State("code", <<>>, 0, c, m), t, i) = Close(State("code", <<>>, 0, c, m))
  BY ReadAtOnce
<1>3. Close(State("code", <<>>, 0, c, m)) = State("code", <<>>, 0, <<>>, n)
  BY Closing
<1>4. SubSeq(t, i + 1, i) = <<>> /\ i + 1 - 1 = i
  OBVIOUS
<1> HIDE DEF n
<1>5. Reached(t, i + 1 - 1, "code", <<>>, 0, i + 1, n)
  BY <1>1, <1>2, <1>3, <1>4 DEF Reached
<1> QED  BY <1>5 DEF AtWord, n, c
-----------------------------------------------------------------------------
(* Words, and the stretches between semicolons, go on to the right.        *)
EndingAt(t, i, e) == IF i > Len(t) \/ t[i] = "semi" THEN i ELSE e[WordEnd(t, i) + 1]

LEMMA EndingIsDefined ==
  ASSUME NEW t \in Seq(Characters)
  PROVE  Ending(t) = [i \in 1 .. Len(t) + 1 |-> EndingAt(t, i, Ending(t))]
<1> DEFINE
      D == 1 .. Len(t) + 1
      Stop == {i \in D : i > Len(t) \/ t[i] = "semi"}
      value == [i \in D |-> i]
      next == [i \in D |-> WordEnd(t, i) + 1]
      rank == [i \in D |-> Len(t) + 1 - i]
      bound == Len(t) + 1
      IsIt(g) == g = [i \in D |-> EndingAt(t, i, g)]
<1>1. rank \in [D -> Nat] /\ bound \in Nat /\ \A i \in D : rank[i] < bound
  OBVIOUS
<1>2. ASSUME NEW i \in D, i \notin Stop  PROVE next[i] \in D /\ rank[next[i]] < rank[i]
  <2>1. i \in 1 .. Len(t)
    BY <1>2
  <2>2. WordEnd(t, i) + 1 \in D /\ WordEnd(t, i) + 1 > i
    BY <2>1, WordEndIsAPlace
  <2> QED  BY <2>2
<1>3. Recurs(D, Stop, value, next)
  <2> HIDE DEF D, Stop, value, next, rank, bound
  <2> QED  BY <1>1, <1>2, Recursion
<1>4. ASSUME NEW g, NEW i \in D
      PROVE  (IF i \in Stop THEN value[i] ELSE g[next[i]]) = EndingAt(t, i, g)
  BY DEF EndingAt
<1>5. \E g : IsIt(g)
  <2> HIDE DEF D, Stop, value, next, rank
  <2>1. PICK g : IsRecursion(D, Stop, value, next, g)
    BY <1>3 DEF Recurs
  <2>2. IsIt(g)
    BY <1>4, <2>1 DEF IsRecursion
  <2> HIDE DEF IsIt
  <2> QED  BY <2>2
<1>6. Ending(t) = CHOOSE g : IsIt(g)
  BY DEF Ending, EndingAt
<1>7. IsIt(Ending(t))
  <2> HIDE DEF IsIt
  <2> QED  BY <1>5, <1>6
<1> QED  BY <1>7

(* The first word that is not ordinary, from a place on.                   *)
StrangeAt(t, i, e) == IF i > Len(t) \/ ~ Ordinary(t, i) THEN i ELSE e[WordEnd(t, i) + 1]

LEMMA FirstStrangeIsDefined ==
  ASSUME NEW t \in Seq(Characters)
  PROVE  FirstStrange(t) = [i \in 1 .. Len(t) + 1 |-> StrangeAt(t, i, FirstStrange(t))]
<1> DEFINE
      D == 1 .. Len(t) + 1
      Stop == {i \in D : i > Len(t) \/ ~ Ordinary(t, i)}
      value == [i \in D |-> i]
      next == [i \in D |-> WordEnd(t, i) + 1]
      rank == [i \in D |-> Len(t) + 1 - i]
      bound == Len(t) + 1
      IsIt(g) == g = [i \in D |-> StrangeAt(t, i, g)]
<1>1. rank \in [D -> Nat] /\ bound \in Nat /\ \A i \in D : rank[i] < bound
  OBVIOUS
<1>2. ASSUME NEW i \in D, i \notin Stop  PROVE next[i] \in D /\ rank[next[i]] < rank[i]
  <2>1. i \in 1 .. Len(t)
    BY <1>2
  <2>2. WordEnd(t, i) + 1 \in D /\ WordEnd(t, i) + 1 > i
    BY <2>1, WordEndIsAPlace
  <2> QED  BY <2>2
<1>3. Recurs(D, Stop, value, next)
  <2> HIDE DEF D, Stop, value, next, rank, bound
  <2> QED  BY <1>1, <1>2, Recursion
<1>4. ASSUME NEW g, NEW i \in D
      PROVE  (IF i \in Stop THEN value[i] ELSE g[next[i]]) = StrangeAt(t, i, g)
  BY DEF StrangeAt
<1>5. \E g : IsIt(g)
  <2> HIDE DEF D, Stop, value, next, rank
  <2>1. PICK g : IsRecursion(D, Stop, value, next, g)
    BY <1>3 DEF Recurs
  <2>2. IsIt(g)
    BY <1>4, <2>1 DEF IsRecursion
  <2> HIDE DEF IsIt
  <2> QED  BY <2>2
<1>6. FirstStrange(t) = CHOOSE g : IsIt(g)
  BY DEF FirstStrange, StrangeAt
<1>7. IsIt(FirstStrange(t))
  <2> HIDE DEF IsIt
  <2> QED  BY <1>5, <1>6
<1> QED  BY <1>7

LEMMA PlainGoesOn ==
  ASSUME NEW t \in Seq(Characters), NEW i \in 1 .. Len(t),
         FirstStrange(t)[i] = Len(t) + 1
  PROVE  Ordinary(t, i) /\ FirstStrange(t)[WordEnd(t, i) + 1] = Len(t) + 1
<1>1. FirstStrange(t)[i] = StrangeAt(t, i, FirstStrange(t))
  <2>1. i \in 1 .. Len(t) + 1
    OBVIOUS
  <2> QED  BY <2>1, FirstStrangeIsDefined
<1>2. ~ (i > Len(t)) /\ i # Len(t) + 1
  OBVIOUS
<1> QED  BY <1>1, <1>2, Zenon DEF StrangeAt

LEMMA EndingIsAPlace ==
  ASSUME NEW t \in Seq(Characters), NEW i \in 1 .. Len(t) + 1
  PROVE  Ending(t)[i] \in i .. Len(t) + 1
<1> DEFINE
      n == Len(t)
      P(j) == Ending(t)[j] \in j .. n + 1
      S == {q \in Nat : \A j \in 1 .. n + 1 : j + q >= n + 1 => P(j)}
<1>0. \A j \in 1 .. n + 1 : Ending(t)[j] = EndingAt(t, j, Ending(t))
  BY EndingIsDefined
<1>1. 0 \in S
  BY <1>0 DEF EndingAt
<1>2. ASSUME NEW q \in S  PROVE q + 1 \in S
  <2>1. SUFFICES ASSUME NEW j \in 1 .. n, j + q + 1 >= n + 1
                 PROVE  P(j)
    BY <1>1
  <2>2. CASE t[j] = "semi"
    BY <1>0, <2>2 DEF EndingAt
  <2>3. CASE t[j] # "semi"
    <3>1. WordEnd(t, j) + 1 \in j + 1 .. n + 1
      BY WordEndIsAPlace
    <3>2. Ending(t)[j] = Ending(t)[WordEnd(t, j) + 1]
      BY <1>0, <2>3 DEF EndingAt
    <3>3. P(WordEnd(t, j) + 1)
      BY <2>1, <3>1
    <3> QED  BY <3>1, <3>2, <3>3
  <2> QED  BY <2>2, <2>3
<1>3. n \in S
  <2>1. n \in Nat /\ S \in SUBSET Nat
    OBVIOUS
  <2> HIDE DEF S
  <2> QED  BY <1>1, <1>2, <2>1, Induction
<1> QED  BY <1>3
(* The statements written from a place, by those written further on.       *)
FromAt(t, i, w) ==
    IF i > Len(t) + 1 THEN <<>> ELSE Piece(t, i, Ending(t)[i] - 1) \o w[Ending(t)[i] + 1]

LEMMA FromNothing ==
  ASSUME NEW t \in Seq(Characters), NEW w
  PROVE  FromAt(t, Len(t) + 2, w) = <<>>
<1>1. Len(t) + 2 > Len(t) + 1
  OBVIOUS
<1> QED  BY <1>1, Zenon DEF FromAt

LEMMA FromPlace ==
  ASSUME NEW t \in Seq(Characters), NEW i \in 1 .. Len(t) + 1, NEW w
  PROVE  FromAt(t, i, w) = Piece(t, i, Ending(t)[i] - 1) \o w[Ending(t)[i] + 1]
<1>1. ~ (i > Len(t) + 1)
  OBVIOUS
<1> QED  BY <1>1, Zenon DEF FromAt

LEMMA WrittenFromIsDefined ==
  ASSUME NEW t \in Seq(Characters)
  PROVE  WrittenFrom(t) = [i \in 1 .. Len(t) + 2 |-> FromAt(t, i, WrittenFrom(t))]
<1> DEFINE
      n == Len(t)
      IsFrom(g, b) == g = [i \in b .. n + 2 |-> FromAt(t, i, g)]
      Defined == {q \in Nat : q <= n + 1 => \E g : IsFrom(g, n + 2 - q)}
<1>1. 0 \in Defined
  <2>1. IsFrom([i \in n + 2 .. n + 2 |-> <<>>], n + 2)
    <3>1. \A i \in n + 2 .. n + 2 : i = n + 2
      OBVIOUS
    <3> QED  BY <3>1, FromNothing
  <2>2. n + 2 - 0 = n + 2
    OBVIOUS
  <2> QED  BY <2>1, <2>2
<1>2. ASSUME NEW q \in Defined  PROVE q + 1 \in Defined
  <2>1. SUFFICES ASSUME q + 1 <= n + 1
                 PROVE  \E g : IsFrom(g, n + 2 - (q + 1))
    OBVIOUS
  <2>2. PICK g : IsFrom(g, n + 2 - q)
    BY <2>1
  <2> DEFINE b == n + 2 - (q + 1)
             h == [i \in b .. n + 2 |-> IF i = b THEN FromAt(t, b, g) ELSE g[i]]
  <2>3. b \in 1 .. n + 1 /\ n + 2 - q = b + 1
    BY <2>1
  <2> HIDE DEF b
  <2>4. \A i \in b + 1 .. n + 2 : h[i] = g[i]
    BY <2>3
  <2>5. \A i \in b .. n + 1 : Ending(t)[i] + 1 \in b + 1 .. n + 2
    BY <2>3, EndingIsAPlace
  <2>6. \A i \in b .. n + 2 : FromAt(t, i, h) = FromAt(t, i, g)
    <3> HIDE DEF h
    <3> QED  BY <2>3, <2>4, <2>5 DEF FromAt
  <2>7. ASSUME NEW i \in b .. n + 2  PROVE h[i] = FromAt(t, i, h)
    <3>1. CASE i = b
      BY <2>6, <3>1
    <3>2. CASE i \in b + 1 .. n + 2
      <4>1. g[i] = FromAt(t, i, g)
        BY <2>2, <2>3, <3>2
      <4> QED  BY <2>4, <2>6, <3>2, <4>1
    <3> QED  BY <2>3, <3>1, <3>2
  <2>8. IsFrom(h, b)
    BY <2>7
  <2>9. \E f : IsFrom(f, b)
    BY <2>8
  <2> QED  BY <2>9 DEF b
<1>3. n + 1 \in Defined
  <2>1. n + 1 \in Nat /\ Defined \in SUBSET Nat
    OBVIOUS
  <2> HIDE DEF Defined
  <2> QED  BY <1>1, <1>2, <2>1, Induction
<1>4. n + 2 - (n + 1) = 1
  OBVIOUS
<1>5. \E g : IsFrom(g, 1)
  BY <1>3, <1>4
<1> HIDE DEF IsFrom
<1>6. WrittenFrom(t) = CHOOSE g : IsFrom(g, 1)
  BY DEF WrittenFrom, IsFrom, FromAt
<1>7. IsFrom(WrittenFrom(t), 1)
  BY <1>5, <1>6
<1> QED  BY <1>7 DEF IsFrom

(* Statements are what Strip leaves of a stretch.                          *)
Stripped == {Strip(c) : c \in Seq(Characters)}

LEMMA PieceIsAStatement ==
  ASSUME NEW t \in Seq(Characters), NEW f \in Nat \ {0}, NEW j \in f - 1 .. Len(t)
  PROVE  /\ Piece(t, f, j) \in Seq(Stripped)
         /\ \A m \in Seq(Stripped) : Extended(m, SubSeq(t, f, j)) = m \o Piece(t, f, j)
<1> DEFINE c == Strip(SubSeq(t, f, j))
<1>1. c \in Stripped
  <2>1. SubSeq(t, f, j) \in Seq(Characters)
    OBVIOUS
  <2> QED  BY <2>1 DEF Stripped
<1>2. Piece(t, f, j) = IF c = <<>> THEN <<>> ELSE <<c>>
  BY DEF Piece
<1>3. \A m : Extended(m, SubSeq(t, f, j)) = IF c = <<>> THEN m ELSE Append(m, c)
  BY DEF Extended
<1> HIDE DEF c
<1>4. \A m \in Seq(Stripped) : m \o <<>> = m /\ m \o <<c>> = Append(m, c)
  BY <1>1
<1>5. <<>> \in Seq(Stripped) /\ <<c>> \in Seq(Stripped)
  BY <1>1
<1> QED  BY <1>2, <1>3, <1>4, <1>5, Zenon

LEMMA WrittenFromIsStatements ==
  ASSUME NEW t \in Seq(Characters), NEW i \in 1 .. Len(t) + 2
  PROVE  WrittenFrom(t)[i] \in Seq(Stripped)
<1> DEFINE
      n == Len(t)
      S == {q \in Nat : \A j \in 1 .. n + 2 : j + q >= n + 2 => WrittenFrom(t)[j] \in Seq(Stripped)}
<1>0. \A j \in 1 .. n + 2 : WrittenFrom(t)[j] = FromAt(t, j, WrittenFrom(t))
  BY WrittenFromIsDefined
<1>1. 0 \in S
  <2>1. \A j \in 1 .. n + 2 : j + 0 >= n + 2 => j = n + 2
    OBVIOUS
  <2>2. WrittenFrom(t)[n + 2] = <<>>
    BY <1>0, FromNothing
  <2>3. <<>> \in Seq(Stripped)
    OBVIOUS
  <2> QED  BY <2>1, <2>2, <2>3
<1>2. ASSUME NEW q \in S  PROVE q + 1 \in S
  <2>1. SUFFICES ASSUME NEW j \in 1 .. n + 1, j + q + 1 >= n + 2
                 PROVE  WrittenFrom(t)[j] \in Seq(Stripped)
    BY <1>1
  <2>2. Ending(t)[j] \in j .. n + 1
    BY EndingIsAPlace
  <2>3. WrittenFrom(t)[Ending(t)[j] + 1] \in Seq(Stripped)
    BY <2>1, <2>2
  <2>4. Piece(t, j, Ending(t)[j] - 1) \in Seq(Stripped)
    BY <2>2, PieceIsAStatement
  <2>5. WrittenFrom(t)[j] = Piece(t, j, Ending(t)[j] - 1) \o WrittenFrom(t)[Ending(t)[j] + 1]
    <3>1. j \in 1 .. n + 2
      OBVIOUS
    <3> QED  BY <1>0, <3>1, FromPlace
  <2> QED  BY <2>3, <2>4, <2>5
<1>3. n + 1 \in S
  <2>1. n + 1 \in Nat /\ S \in SUBSET Nat
    OBVIOUS
  <2> HIDE DEF S
  <2> QED  BY <1>1, <1>2, <2>1, Induction
<1> QED  BY <1>3

-----------------------------------------------------------------------------
LEMMA Associative ==
  ASSUME NEW a \in Seq(Stripped), NEW b \in Seq(Stripped), NEW c \in Seq(Stripped)
  PROVE  (a \o b) \o c = a \o (b \o c)
  OBVIOUS

(* At the end the scanner closes what it has collected.                    *)
LEMMA EndOfText ==
  ASSUME NEW t \in Seq(Characters), NEW f \in 1 .. Len(t) + 1, NEW m \in Seq(Stripped),
         AtEnd(t, f, m)
  PROVE  Split(t) = m \o Piece(t, f, Len(t))
<1>1. PICK mode, mark, p : Reached(t, Len(t), mode, mark, p, f, m)
  BY DEF AtEnd
<1> DEFINE c == SubSeq(t, f, Len(t))
           made == Extended(m, c)
<1>2. Scanned(t)[Len(t)] = State(mode, mark, p, c, m)
  BY <1>1 DEF Reached
<1>3. made = m \o Piece(t, f, Len(t))
  <2>1. f \in Nat \ {0} /\ Len(t) \in f - 1 .. Len(t)
    OBVIOUS
  <2> QED  BY <2>1, PieceIsAStatement
<1> HIDE DEF c
<1>4. Close(State(mode, mark, p, c, m)) = State(mode, mark, p, <<>>, made)
  BY Closing
<1>5. Split(t) = State(mode, mark, p, <<>>, made).made
  BY <1>2, <1>4 DEF Split
<1> HIDE DEF made
<1>6. State(mode, mark, p, <<>>, made).made = made
  BY Fields
<1> QED  BY <1>3, <1>5, <1>6

(* From the beginning of a word the scanner makes the statements that are  *)
(* written from there, if the rest of the text is plain.                   *)
Completes(t, i) ==
    FirstStrange(t)[i] = Len(t) + 1 =>
    \A f \in 1 .. i : \A m \in Seq(Stripped) :
        AtWord(t, i, f, m) =>
            Split(t) = m \o (Piece(t, f, Ending(t)[i] - 1) \o WrittenFrom(t)[Ending(t)[i] + 1])

LEMMA Completing ==
  ASSUME NEW t \in Seq(Characters), NEW i \in 1 .. Len(t) + 1,
         \A j \in i + 1 .. Len(t) + 1 : Completes(t, j)
  PROVE  Completes(t, i)
<1> DEFINE n == Len(t)
           w == WrittenFrom(t)
<1>0. /\ \A j \in 1 .. n + 1 : Ending(t)[j] = EndingAt(t, j, Ending(t))
      /\ \A j \in 1 .. n + 2 : w[j] = FromAt(t, j, w)
  BY EndingIsDefined, WrittenFromIsDefined
<1>1. SUFFICES ASSUME FirstStrange(t)[i] = n + 1,
                      NEW f \in 1 .. i, NEW m \in Seq(Stripped), AtWord(t, i, f, m)
               PROVE  Split(t) = m \o (Piece(t, f, Ending(t)[i] - 1) \o w[Ending(t)[i] + 1])
  BY DEF Completes
<1>2. w[n + 2] = <<>> /\ Ending(t)[n + 1] = n + 1 /\ n + 1 - 1 = n /\ n + 1 + 1 = n + 2
  <2>1. w[n + 2] = <<>>
    BY <1>0, FromNothing
  <2>2. Ending(t)[n + 1] = n + 1
    BY <1>0 DEF EndingAt
  <2> QED  BY <2>1, <2>2
<1>3. ASSUME AtEnd(t, f, m), Ending(t)[i] = n + 1
      PROVE  Split(t) = m \o (Piece(t, f, Ending(t)[i] - 1) \o w[Ending(t)[i] + 1])
  <2>1. Split(t) = m \o Piece(t, f, n)
    <3>1. f \in 1 .. n + 1
      OBVIOUS
    <3> QED  BY <1>1, <1>3, <3>1, EndOfText
  <2>2. Piece(t, f, n) \in Seq(Stripped)
    <3>1. f \in Nat \ {0} /\ n \in f - 1 .. n
      OBVIOUS
    <3> QED  BY <3>1, PieceIsAStatement
  <2>3. Piece(t, f, n) \o <<>> = Piece(t, f, n)
    BY <2>2
  <2>4. Ending(t)[i] - 1 = n /\ w[Ending(t)[i] + 1] = <<>>
    BY <1>2, <1>3
  <2>5. Piece(t, f, Ending(t)[i] - 1) \o w[Ending(t)[i] + 1] = Piece(t, f, n)
    BY <2>3, <2>4, Zenon
  <2> QED  BY <2>1, <2>5, Zenon
<1>4. CASE i = n + 1
  <2>1. AtEnd(t, f, m)
    BY <1>1, <1>4 DEF AtWord, AtEnd
  <2> QED  BY <1>2, <1>3, <1>4, <2>1
<1>5. CASE i \in 1 .. n /\ t[i] = "semi"
  <2> DEFINE k == Extended(m, SubSeq(t, f, i - 1))
             p == Piece(t, f, i - 1)
             q == Piece(t, i + 1, Ending(t)[i + 1] - 1)
             v == w[Ending(t)[i + 1] + 1]
  <2>1. Ending(t)[i] = i
    BY <1>0, <1>5 DEF EndingAt
  <2>2. AtWord(t, i + 1, i + 1, k)
    BY <1>1, <1>5, Semicolon
  <2>3. k = m \o p /\ p \in Seq(Stripped)
    <3>1. f \in Nat \ {0} /\ i - 1 \in f - 1 .. n
      BY <1>5
    <3> QED  BY <3>1, PieceIsAStatement
  <2>4. Ending(t)[i + 1] \in i + 1 .. n + 1
    BY <1>5, EndingIsAPlace
  <2>5. q \in Seq(Stripped) /\ v \in Seq(Stripped)
    <3>1. /\ i + 1 \in Nat \ {0} /\ Ending(t)[i + 1] - 1 \in i + 1 - 1 .. n
          /\ Ending(t)[i + 1] + 1 \in 1 .. n + 2
      BY <1>5, <2>4
    <3> QED  BY <3>1, PieceIsAStatement, WrittenFromIsStatements
  <2> HIDE DEF k, p
  <2>6. k \in Seq(Stripped)
    BY <2>3
  <2>7. Split(t) = k \o (q \o v)
    <3>1. Completes(t, i + 1) /\ i + 1 \in 1 .. i + 1
      BY <1>5
    <3>2. FirstStrange(t)[i + 1] = n + 1
      <4>1. WordEnd(t, i) = i
        <5>1. At(t, i) = "semi"
          BY <1>5 DEF At
        <5>2. ~ Occurs(<<"-", "-">>, t, i) /\ ~ Occurs(<<"/", "*">>, t, i) /\ ~ Escape(t, i)
          BY <5>1, OccursTwo DEF Escape
        <5> QED  BY <1>5, <5>2 DEF WordEnd, Letters
      <4> QED  BY <1>1, <1>5, <4>1, PlainGoesOn
    <3> QED  BY <2>2, <2>6, <3>1, <3>2 DEF Completes
  <2>8. w[i + 1] = q \o v
    <3>1. i + 1 \in 1 .. n + 2 /\ i + 1 \in 1 .. n + 1
      BY <1>5
    <3> QED  BY <1>0, <3>1, FromPlace
  <2> HIDE DEF q, v
  <2>9. (m \o p) \o (q \o v) = m \o (p \o (q \o v))
    <3>1. q \o v \in Seq(Stripped)
      BY <2>5
    <3> QED  BY <2>3, <3>1, Associative
  <2> QED  BY <2>1, <2>3, <2>7, <2>8, <2>9 DEF p
<1>6. CASE i \in 1 .. n /\ t[i] # "semi"
  <2> DEFINE e == WordEnd(t, i)
  <2>0. Ordinary(t, i) /\ FirstStrange(t)[e + 1] = n + 1
    BY <1>1, <1>6, PlainGoesOn
  <2>1. e \in i .. n /\ (AtWord(t, e + 1, f, m) \/ (e = n /\ AtEnd(t, f, m)))
    BY <1>1, <1>6, <2>0, Word
  <2>2. Ending(t)[i] = Ending(t)[e + 1]
    BY <1>0, <1>6 DEF EndingAt
  <2> HIDE DEF e
  <2>3. CASE AtWord(t, e + 1, f, m)
    <3>1. Completes(t, e + 1) /\ f \in 1 .. e + 1
      BY <2>1
    <3> QED  BY <2>0, <2>2, <2>3, <3>1 DEF Completes
  <2>4. CASE e = n /\ AtEnd(t, f, m)
    <3>1. Ending(t)[i] = n + 1
      BY <1>2, <2>2, <2>4
    <3> QED  BY <1>3, <2>4, <3>1
  <2> QED  BY <2>1, <2>3, <2>4
<1>7. i = n + 1 \/ (i \in 1 .. n /\ t[i] = "semi") \/ (i \in 1 .. n /\ t[i] # "semi")
  OBVIOUS
<1> QED  BY <1>4, <1>5, <1>6, <1>7, Zenon

(* run_airpay_migrations.py:23: the scanner splits a plain text as it is   *)
(* written.                                                                *)
LEMMA SplitIsWritten ==
  ASSUME NEW t \in Seq(Characters), Plain(t)
  PROVE  Split(t) = Written(t)
<1> DEFINE n == Len(t)
           S == {q \in Nat : \A j \in 1 .. n + 1 : j + q >= n + 1 => Completes(t, j)}
<1>1. 0 \in S
  <2>1. \A j \in n + 1 + 1 .. n + 1 : Completes(t, j)
    OBVIOUS
  <2>2. Completes(t, n + 1)
    BY <2>1, Completing
  <2> QED  BY <2>2
<1>2. ASSUME NEW q \in S  PROVE q + 1 \in S
  <2>1. SUFFICES ASSUME NEW j \in 1 .. n + 1, j + (q + 1) >= n + 1
                 PROVE  Completes(t, j)
    OBVIOUS
  <2>2. \A k \in j + 1 .. n + 1 : Completes(t, k)
    BY <2>1
  <2> QED  BY <2>2, Completing
<1>3. n \in S
  <2>1. n \in Nat /\ S \in SUBSET Nat
    OBVIOUS
  <2> HIDE DEF S
  <2> QED  BY <1>1, <1>2, <2>1, Induction
<1>4. Completes(t, 1)
  BY <1>3
<1>5. AtWord(t, 1, 1, <<>>)
  <2>1. 1 - 1 = 0
    OBVIOUS
  <2> QED  BY <2>1, StartIsReached DEF AtWord
<1>6. Split(t) = <<>> \o (Piece(t, 1, Ending(t)[1] - 1) \o WrittenFrom(t)[Ending(t)[1] + 1])
  <2>1. 1 \in 1 .. 1 /\ <<>> \in Seq(Stripped)
    OBVIOUS
  <2> QED  BY <1>4, <1>5, <2>1 DEF Completes, Plain
<1>7. WrittenFrom(t)[1] = Piece(t, 1, Ending(t)[1] - 1) \o WrittenFrom(t)[Ending(t)[1] + 1]
  <2>1. 1 \in 1 .. n + 2 /\ 1 \in 1 .. n + 1
    OBVIOUS
  <2> QED  BY <2>1, WrittenFromIsDefined, FromPlace
<1>8. WrittenFrom(t)[1] \in Seq(Stripped)
  BY WrittenFromIsStatements
<1> QED  BY <1>6, <1>7, <1>8 DEF Written

-----------------------------------------------------------------------------
(* run_airpay_migrations.py:23: of a file whose versions are plain texts,  *)
(* what a runner executes one by one are the statements that PostgreSQL    *)
(* reads there; other texts the theorem leaves open.                       *)
THEOREM StatementsAreSentAsWritten == Spec => []SentAsWritten
<1>1. \A v \in Versions : SplitAsWritten[v]
  BY TextsAssumption, SplitIsWritten DEF SplitAsWritten
<1>2. TypeOK => SentAsWritten
  BY <1>1 DEF TypeOK, SentAsWritten
<1> QED  BY <1>2, TypeCorrect, PTL
=============================================================================
