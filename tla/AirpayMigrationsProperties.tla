---------------------- MODULE AirpayMigrationsProperties ---------------------
(***************************************************************************)
(* What must hold of AirpayMigrations.                                     *)
(***************************************************************************)
EXTENDS AirpayMigrations

(* run_airpay_migrations.py:165, "keeps the mark only after its success":  *)
(* what is marked of a runtime file is the version of which every          *)
(* statement was executed, with every file before it already marked; and a *)
(* marked file is never executed again nor its mark revised, whoever died  *)
(* between the SQL and the mark and whoever edited the file.  (That a file *)
(* is executed once in all cannot be shown: see README.)                   *)
MarkHolds(f) ==
    IF journal[f] # Unmarked
    THEN journal'[f] = journal[f] /\ executions'[f] = executions[f]
    ELSE journal'[f] # Unmarked =>
         /\ \A g \in Files : g < f => journal[g] # Unmarked
         /\ f \notin Legacy => \A k \in Statements(f) : <<journal'[f], k>> \in done[f]

JournalHolds == [][\A f \in Files : MarkHolds(f)]_vars

(* The same line once more: what is marked left no index half built.       *)
MarkedIsWhole == \A f \in Files : journal[f] # Unmarked => invalid[f] = {}

(* run_airpay_migrations.py:214, "so that an incomplete first baseline     *)
(* recovers": however runs were interrupted, repeating the run marks every *)
(* file in the end, unless one was changed after it was marked, or a run   *)
(* died between the commit and the mark of a file that cannot be repeated. *)
(* The second is no mere premise: migrations/airpay/runtime/               *)
(* 20260923_05_airpay_events_and_resolution.sql:54 is such a file, and     *)
(* only an edit of it, or a hand on the journal, lets the runs go on.      *)
Stuck(f) == journal[f] = Unmarked /\ Clashes(f, content[f])

MigrationsEnd ==
    <>[](\A f \in Files : journal[f] \in {Unmarked, content[f]} /\ ~ Stuck(f))
    => <>(\A f \in Files : journal[f] # Unmarked)
=============================================================================
