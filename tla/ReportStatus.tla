----------------------------- MODULE ReportStatus -----------------------------
(***************************************************************************)
(* The status order of a report and its roll-up (internal/report/model.go) *)
(* together with the exit code main derives from it.  A check is reduced   *)
(* to its status; a bucket to the set of the statuses of its checks.       *)
(***************************************************************************)
EXTENDS Naturals

Status == {"PASS", "N/A", "SKIPPED", "WARN", "FAIL", "ERROR"}

\* What a bucket or a run may end with once Recompute has normalised it.
FinalStatus == {"PASS", "WARN", "FAIL", "ERROR"}

rank(s) == CASE s = "PASS"    -> 0
             [] s = "N/A"     -> 1
             [] s = "SKIPPED" -> 2
             [] s = "WARN"    -> 3
             [] s = "FAIL"    -> 4
             [] s = "ERROR"   -> 5
             [] OTHER         -> 6

Worse(s, other) == rank(s) > rank(other)

\* The fold of Recompute: start from PASS and take whatever is worse.
Worst(statuses) ==
  CHOOSE s \in statuses \cup {"PASS"} :
    \A t \in statuses \cup {"PASS"} : ~Worse(t, s)

Normalised(s) == IF s \in {"N/A", "SKIPPED"} THEN "PASS" ELSE s

BucketStatus(checks) == Normalised(Worst(checks))

OverallStatus(global, buckets) ==
  Normalised(Worst(global \cup {BucketStatus(checks) : checks \in buckets}))

\* main's exit: an error of Run is 2 whatever the report says.
ExitCode(status, runErr, failOnWarn) ==
  CASE runErr                              -> 2
    [] ~runErr /\ status = "PASS"          -> 0
    [] ~runErr /\ status = "WARN"          -> IF failOnWarn THEN 1 ELSE 0
    [] ~runErr /\ status = "FAIL"          -> 1
    [] OTHER                               -> 2
=============================================================================
