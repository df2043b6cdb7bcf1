--------------------------- MODULE AirpayMigrations --------------------------
(***************************************************************************)
(* The runner of Airpay's schema migrations: under an advisory lock it     *)
(* marks the old files as a baseline without executing them, then applies  *)
(* the runtime files in their order, each marked in a journal of names and *)
(* checksums.  It works with autocommit: a file's SQL and its mark are     *)
(* separate transactions, and a file that asks for none is executed        *)
(* statement by statement.  Runners die or fail anywhere, are started      *)
(* again, and files are edited between and during runs.  The statements of *)
(* such a file are CREATE INDEX CONCURRENTLY IF NOT EXISTS: cut short, one *)
(* leaves an invalid index behind, and the next time it finds the index    *)
(* there and does nothing.  A file that is one transaction either commits   *)
(* whole or leaves nothing, but some create a thing without looking whether *)
(* it is there: executed again after a death before its mark, it raises.   *)
(*                                                                         *)
(* Files are their places in the order of a run, Legacy ones first; a      *)
(* version of a file stands for its text and its checksum.  Waiting for    *)
(* the lock longer than lock_timeout is a start that does not happen.      *)
(*                                                                         *)
(* A definition named Slip_... is a plausible programming slip; it stands  *)
(* before the definition it would replace and no action uses it.           *)
(*                                                                         *)
(* Source: api/scripts/run_airpay_migrations.py.                           *)
(***************************************************************************)
EXTENDS Naturals

CONSTANTS
    Runners,        \* processes that run the script
    MaxFiles,       \* number of the files, legacy and runtime
    Legacy,         \* files that were applied by hand before there was a journal
    NoTransaction,  \* runtime files marked "migrate:no-transaction"
    MaxStatements,  \* number of the statements of one of these
    Once,           \* texts, as file and version, that raise when repeated
    MaxVersion,     \* bound on the versions of a file
    MaxFailures,    \* bound on dying runners and failing statements
    NoRunner

Files == 1 .. MaxFiles

ASSUME RunnersAssumption == NoRunner \notin Runners
ASSUME FilesAssumption ==
    /\ MaxFiles \in Nat
    /\ Legacy \subseteq Files
    /\ \A f \in Legacy, g \in Files \ Legacy : f < g
    /\ NoTransaction \subseteq Files \ Legacy
    /\ Once \subseteq (Files \ (Legacy \cup NoTransaction)) \X (1 .. MaxVersion)
ASSUME BoundsAssumption ==
    MaxStatements \in Nat \ {0} /\ MaxVersion \in Nat \ {0} /\ MaxFailures \in Nat

VARIABLES
    content,    \* the version of each file on the disk
    journal,    \* schema_migrations: the version marked for a file, or 0
    done,       \* statements that returned without error, as version and number
    invalid,    \* statements of a file that left their index invalid, by number
    executions, \* how many statements of a file were executed in all
    lock,       \* the runner whose session holds MIGRATIONS_LOCK
    pc,
    at,         \* the file a runner has come to
    text,       \* the version it has read
    statement,  \* the statement it executes next
    failures

runnerVars == <<pc, at, text, statement>>
dbVars == <<journal, done, invalid, executions>>
vars == <<content, dbVars, lock, runnerVars, failures>>

Versions == 1 .. MaxVersion
Unmarked == 0

(* What split_sql_statements makes of a file, or one transaction.          *)
Statements(f) == IF f \in NoTransaction THEN 1 .. MaxStatements ELSE {1}

TypeOK ==
    /\ content \in [Files -> Versions]
    /\ journal \in [Files -> Versions \cup {Unmarked}]
    /\ done \in [Files -> SUBSET (Versions \X Nat)]
    /\ invalid \in [Files -> SUBSET Nat]
    /\ executions \in [Files -> Nat]
    /\ lock \in Runners \cup {NoRunner}
    /\ pc \in [Runners -> {"idle", "reading", "applying", "marking"}]
    /\ at \in [Runners -> 1 .. MaxFiles + 1]
    /\ text \in [Runners -> Versions]
    /\ statement \in [Runners -> Nat \ {0}]
    /\ failures \in 0 .. MaxFailures

Init ==
    /\ content = [f \in Files |-> 1]
    /\ journal = [f \in Files |-> Unmarked]
    /\ done = [f \in Files |-> {}]
    /\ invalid = [f \in Files |-> {}]
    /\ executions = [f \in Files |-> 0]
    /\ lock = NoRunner
    /\ pc = [r \in Runners |-> "idle"]
    /\ at = [r \in Runners |-> 1]
    /\ text = [r \in Runners |-> 1]
    /\ statement = [r \in Runners |-> 1]
    /\ failures = 0

-----------------------------------------------------------------------------
Slip_NoLock == TRUE
Unlocked == lock = NoRunner

(* Every run begins with the first file, whatever an earlier run did.      *)
Begin(r) ==
    /\ pc[r] = "idle"
    /\ Unlocked
    /\ lock' = r
    /\ pc' = [pc EXCEPT ![r] = "reading"]
    /\ at' = [at EXCEPT ![r] = 1]
    /\ UNCHANGED <<content, dbVars, text, statement, failures>>

(* The run ends, and its session with it.                                  *)
End(r) ==
    /\ lock' = IF lock = r THEN NoRunner ELSE lock
    /\ pc' = [pc EXCEPT ![r] = "idle"]
    /\ UNCHANGED <<at, text, statement>>

Advance(r) ==
    /\ pc' = [pc EXCEPT ![r] = "reading"]
    /\ at' = [at EXCEPT ![r] = @ + 1]
    /\ UNCHANGED <<lock, text, statement>>

Mark(f, v) == journal' = [journal EXCEPT ![f] = v]

Finish(r) ==
    /\ pc[r] = "reading"
    /\ at[r] = MaxFiles + 1
    /\ End(r)
    /\ UNCHANGED <<content, dbVars, failures>>

(* A file that was changed after it was marked stops the run.              *)
Slip_MarkedTwice(f) == journal[f] = Unmarked
Unchanged(f) == journal[f] \in {Unmarked, content[f]}

RefuseChanged(r) ==
    /\ pc[r] = "reading"
    /\ at[r] \in Files
    /\ ~ Unchanged(at[r])
    /\ End(r)
    /\ UNCHANGED <<content, dbVars, failures>>

SkipMarked(r) ==
    /\ pc[r] = "reading"
    /\ at[r] \in Files
    /\ journal[at[r]] # Unmarked
    /\ Unchanged(at[r])
    /\ Advance(r)
    /\ UNCHANGED <<content, dbVars, failures>>

MarkBaseline(r) ==
    LET f == at[r] IN
    /\ pc[r] = "reading"
    /\ f \in Legacy
    /\ journal[f] = Unmarked
    /\ Mark(f, content[f])
    /\ Advance(r)
    /\ UNCHANGED <<content, done, invalid, executions, failures>>

BeginFile(r) ==
    LET f == at[r] IN
    /\ pc[r] = "reading"
    /\ f \in Files \ Legacy
    /\ journal[f] = Unmarked
    /\ text' = [text EXCEPT ![r] = content[f]]
    /\ statement' = [statement EXCEPT ![r] = 1]
    /\ pc' = [pc EXCEPT ![r] = "applying"]
    /\ UNCHANGED <<content, dbVars, lock, at, failures>>

(* CREATE TRIGGER without OR REPLACE, of a trigger that this file made.    *)
Clashes(f, v) ==
    <<f, v>> \in Once /\ \E w \in Versions : <<f, w>> \in Once /\ <<w, 1>> \in done[f]

(* An index that exists, invalid or not, lets its statement return.        *)
Execute(r) ==
    LET f == at[r] IN
    /\ pc[r] = "applying"
    /\ ~ Clashes(f, text[r])
    /\ done' = [done EXCEPT ![f] = @ \cup {<<text[r], statement[r]>>}]
    /\ executions' = [executions EXCEPT ![f] = @ + 1]
    /\ statement' = [statement EXCEPT ![r] = @ + 1]
    /\ pc' = [pc EXCEPT ![r] = IF statement[r] + 1 \in Statements(f) THEN @ ELSE "marking"]
    /\ UNCHANGED <<content, journal, invalid, lock, at, text, failures>>

(* The transaction is rolled back and the run ends: the file stays as it   *)
(* was, executed but not marked, and so does every file after it.          *)
RaiseClash(r) ==
    /\ pc[r] = "applying"
    /\ Clashes(at[r], text[r])
    /\ End(r)
    /\ UNCHANGED <<content, dbVars, failures>>

MarkApplied(r) ==
    /\ pc[r] = "marking"
    /\ Mark(at[r], text[r])
    /\ Advance(r)
    /\ UNCHANGED <<content, done, invalid, executions, failures>>

(* The process dies or a statement raises for a reason of its own; what it *)
(* committed stays.                                                        *)
Fail(r) ==
    /\ pc[r] # "idle"
    /\ failures < MaxFailures
    /\ failures' = failures + 1
    /\ End(r)
    /\ UNCHANGED <<content, dbVars>>

(* The process dies, or the statement times out, while an index is built   *)
(* that an earlier run did not build already.                              *)
Interrupt(r) ==
    LET f == at[r] IN
    /\ pc[r] = "applying"
    /\ f \in NoTransaction
    /\ \A v \in Versions : <<v, statement[r]>> \notin done[f]
    /\ failures < MaxFailures
    /\ failures' = failures + 1
    /\ invalid' = [invalid EXCEPT ![f] = @ \cup {statement[r]}]
    /\ End(r)
    /\ UNCHANGED <<content, journal, done, executions>>

Edit(f) ==
    /\ content[f] < MaxVersion
    /\ content' = [content EXCEPT ![f] = @ + 1]
    /\ UNCHANGED <<dbVars, lock, runnerVars, failures>>

-----------------------------------------------------------------------------
RunnerStep(r) ==
    \/ Finish(r) \/ RefuseChanged(r) \/ SkipMarked(r) \/ MarkBaseline(r)
    \/ BeginFile(r) \/ Execute(r) \/ RaiseClash(r) \/ MarkApplied(r)

Next ==
    \/ \E r \in Runners : Begin(r) \/ RunnerStep(r) \/ Fail(r) \/ Interrupt(r)
    \/ \E f \in Files : Edit(f)

Spec == Init /\ [][Next]_vars

(* Statements end (statement_timeout), and a deployment that failed is     *)
(* repeated.                                                               *)
FairSpec ==
    /\ Spec
    /\ \A r \in Runners : WF_vars(RunnerStep(r))
    /\ WF_vars(\E r \in Runners : Begin(r))
=============================================================================
