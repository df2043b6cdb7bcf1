--------------------- MODULE AirpayDiagnosticsProperties ---------------------
(***************************************************************************)
(* What must hold of AirpayDiagnostics.                                    *)
(***************************************************************************)
EXTENDS AirpayDiagnostics

(* airpay_diagnostics.py:130, "finished and interrupted checks are not     *)
(* repeated": Airpay is asked about a position at most once, whatever      *)
(* handlers died or lost their connection, and never about one that the    *)
(* report still shows as pending.                                          *)
CheckedOnce ==
    \A r \in Runs : \A i \in Positions :
        /\ checks[r][i] <= 1
        /\ item[r][i] \in {"absent", "pending"} => checks[r][i] = 0

(* A run that was completed or cancelled stays so, although the last       *)
(* statement of a step writes the state without looking at it, and its     *)
(* report no longer changes; nor does, in any run, what a position's       *)
(* report says.                                                            *)
ReportStands(r) ==
    /\ run[r] \in {"completed", "cancelled"} => run'[r] = run[r] /\ item'[r] = item[r]
    /\ \A i \in Positions : item[r][i] \in Ended => item'[r][i] = item[r][i]

ReportsStand == [][\A r \in Runs : ReportStands(r)]_vars

(* A completed run has a report of every position: none is left pending, or*)
(* running for ever.                                                       *)
CompletedIsWhole ==
    \A r \in Runs : run[r] = "completed" =>
        \A i \in Positions : item[r][i] \notin {"pending", "running"}

(* A survey comes to its end, however many of its steps are interrupted.   *)
RunsEnd == \A r \in Runs : run[r] = "active" ~> run[r] \in {"completed", "cancelled"}

(* airpay_diagnostics.py:68, "one survey and one network step for all of   *)
(* Airpay; the lock is released even when the process dies".               *)
OneNetworkStep == \A g, h \in Handlers : pc[g] = "checking" /\ pc[h] = "checking" => g = h
=============================================================================
