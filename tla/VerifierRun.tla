------------------------------ MODULE VerifierRun ------------------------------
(***************************************************************************)
(* One execution of migration-verify: main (cmd/migration-verify/main.go)  *)
(* parses and validates its command line (CommandLine), Run                *)
(* (internal/verify/verifier.go) pings both sides (client.go), takes the   *)
(* inventory, verifies the bucket pairs one after the other, recomputes    *)
(* the report (report/model.go), and main exits with its status.           *)
(*                                                                         *)
(* An interrupt cancels the context of every request still to be sent; no  *)
(* loop looks at it.  A bucket pair is its outcome, which VerifyBucket     *)
(* details.                                                                *)
(***************************************************************************)
EXTENDS CommandLine, ReportStatus, FiniteSets

CONSTANTS
  Names,    \* the names buckets may have
  Rights    \* what keys may allow: whether to list buckets, and which to read

ASSUME NamesAssumption ==
  /\ IsFiniteSet(Names) /\ Names \subseteq Seq(STRING)
  /\ \A n \in Names : Colon \notin Range(n)

ASSUME RightsAssumption == Rights \subseteq [list : BOOLEAN, read : SUBSET Names]

VARIABLES
  line,        \* the command line
  exists,      \* truth: the buckets of each side
  may,         \* truth: what the keys of each side allow
  phase,       \* where Run, or main after it, is
  reach,       \* what the ping of each side found
  visible,     \* srcBuckets and tgtBuckets
  checks,      \* the statuses of r.Checks
  pairs,       \* the pairs to verify
  results,     \* the statuses of r.Buckets, in the order of pairs
  status,      \* r.Status, once recomputed
  exit,        \* the exit code, -1 while running
  cancelled,   \* ctx has been cancelled
  cut,         \* history: it was while a bucket was still to be verified
  lost         \* history: the sides whose ping failed whatever its rights

ping   == <<reach, visible>>
report == <<checks, pairs, results, status>>
given  == <<line, exists, may>>
signal == <<cancelled, cut>>
vars   == <<given, phase, ping, report, exit, signal, lost>>

\* v.cfg
cfg == Validated(line)

Phases == {"flags", "ping", "inventory", "buckets", "aborted", "report", "exited"}

\* Types; what is running has been accepted, with a worker to do it and a
\* bound on every request.
TypeOK ==
  /\ line \in Lines
  /\ phase \notin {"flags", "exited"} =>
       /\ Accepted(line)
       /\ cfg.Concurrency \in Nat \ {0} /\ cfg.RequestTimeout \in Nat \ {0}
       /\ cfg.CheckVersions \in {"auto", "on", "off"}
  /\ may \in [Side -> Rights]
  /\ lost \subseteq Side
  /\ exists \in [Side -> SUBSET Names]
  /\ phase \in Phases
  /\ reach \in [Side -> {"none", "listed", "fallback", "failed"}]
  /\ visible \in [Side -> SUBSET Names]
  /\ checks \subseteq Status
  /\ pairs \in Seq([source : Seq(STRING), target : Seq(STRING)])
  /\ results \in Seq(FinalStatus) /\ Len(results) <= Len(pairs)
  /\ status \in FinalStatus \cup {"none"}
  /\ exit \in -1 .. 2
  /\ {cancelled, cut} \subseteq BOOLEAN

Init ==
  /\ line \in Lines
  /\ exists \in [Side -> SUBSET Names]
  /\ may \in [Side -> Rights]
  /\ phase = "flags"
  /\ reach = [s \in Side |-> "none"]
  /\ visible = [s \in Side |-> {}]
  /\ checks = {}
  /\ pairs = <<>>
  /\ results = <<>>
  /\ status = "none"
  /\ exit = -1
  /\ cancelled = FALSE
  /\ cut = FALSE
  /\ lost = {}

\* The handler is installed once the command line is accepted.
Interrupt ==
  /\ ~cancelled /\ phase \notin {"flags", "exited"}
  /\ cancelled' = TRUE
  /\ cut' = (phase \in {"ping", "inventory"} \/ (phase = "buckets" /\ Len(results) < Len(pairs)))
  /\ UNCHANGED <<given, phase, ping, report, exit, lost>>

-----------------------------------------------------------------------------
(* The command line.                                                       *)

Reject ==
  /\ phase = "flags" /\ ~Accepted(line)
  /\ exit' = 2 /\ phase' = "exited"
  /\ UNCHANGED <<given, ping, report, signal, lost>>

Accept ==
  /\ phase = "flags" /\ Accepted(line)
  /\ phase' = "ping"
  /\ UNCHANGED <<given, ping, report, exit, signal, lost>>

-----------------------------------------------------------------------------
(* Connectivity.                                                           *)

Pinged(s, outcome, found) ==
  /\ phase = "ping" /\ reach[s] = "none"
  /\ reach' = [reach EXCEPT ![s] = outcome]
  /\ visible' = [visible EXCEPT ![s] = found]
  /\ UNCHANGED <<given, phase, report, exit, signal>>

PingLists(s) ==
  /\ ~cancelled /\ may[s].list
  /\ Pinged(s, "listed", exists[s]) /\ UNCHANGED lost

\* The bucket both pings fall back on, whose name is the source's.
first == cfg.Buckets[1].source

\* The slip of taking "does not exist" for a failure.
FallbackFound(s) ==
  cfg.Buckets # <<>> /\ first \in may[s].read \cap exists[s]

\* BucketExists of the first bucket asked for is answered, whatever the answer.
FallbackAnswered(s) == cfg.Buckets # <<>> /\ first \in may[s].read

PingFallsBack(s) ==
  /\ ~cancelled /\ FallbackAnswered(s)
  /\ Pinged(s, "fallback", {}) /\ UNCHANGED lost

\* Both requests are denied, or there is no bucket to ask about.
PingDenied(s) ==
  /\ ~may[s].list /\ ~FallbackAnswered(s)
  /\ Pinged(s, "failed", {}) /\ UNCHANGED lost

\* Requests get no answer in 20 s, or are cancelled.
PingFails(s) == Pinged(s, "failed", {}) /\ lost' = lost \cup {s}

PingsDone == phase = "ping" /\ \A s \in Side : reach[s] # "none"

\* The slip of going on with one side.
UnreachableIfBoth == \A s \in Side : reach[s] = "failed"

Unreachable == \E s \in Side : reach[s] = "failed"

connCheck(s) == IF reach[s] = "failed" THEN "FAIL" ELSE "PASS"

\* Run returns an error beside a report of two checks.
Abort ==
  /\ PingsDone /\ Unreachable
  /\ checks' = {connCheck(s) : s \in Side}
  /\ status' = OverallStatus(checks', {})
  /\ phase' = "aborted"
  /\ UNCHANGED <<given, ping, pairs, results, exit, signal, lost>>

-----------------------------------------------------------------------------
(* The buckets to verify.                                                  *)

Connected ==
  /\ PingsDone /\ ~Unreachable
  /\ checks' = {connCheck(s) : s \in Side}
  /\ phase' = "inventory"
  /\ UNCHANGED <<given, ping, pairs, results, status, exit, signal, lost>>

SameName(b) == [source |-> b, target |-> b]

InventoryStatus ==
  IF visible["source"] \ visible["target"] # {} THEN "FAIL"
  ELSE IF visible["target"] \ visible["source"] # {} THEN "WARN" ELSE "PASS"

Inventory ==
  /\ phase = "inventory"
  /\ IF cfg.AllBuckets
     THEN /\ pairs' = SetToSeq({SameName(b) : b \in visible["source"]})
          /\ checks' = checks \cup {InventoryStatus}
     ELSE pairs' = cfg.Buckets /\ UNCHANGED checks
  /\ phase' = "buckets"
  /\ UNCHANGED <<given, ping, results, status, exit, signal, lost>>

\* What verifying a pair may end with: its first requests fail once the
\* context is cancelled or where the keys do not reach, and a bucket that is
\* not there is a FAIL.
Outcomes(p) ==
  IF cancelled \/ \E s \in Side : p[s] \notin may[s].read THEN {"ERROR"}
  ELSE IF \E s \in Side : p[s] \notin exists[s] THEN {"FAIL", "ERROR"}
  ELSE FinalStatus

\* A loop that gets stuck when the context is cancelled.
VerifyNextUnlessCancelled ==
  /\ phase = "buckets" /\ Len(results) < Len(pairs) /\ ~cancelled
  /\ \E st \in Outcomes(pairs[Len(results) + 1]) : results' = Append(results, st)
  /\ UNCHANGED <<given, phase, ping, checks, pairs, status, exit, signal, lost>>

\* verifyBucket comes back if the semaphore has room for a worker, and no
\* request waits for ever (CompareObjects!Terminates).
Returns == cfg.Concurrency > 0 /\ cfg.RequestTimeout > 0

VerifyNext ==
  /\ phase = "buckets" /\ Len(results) < Len(pairs) /\ Returns
  /\ \E st \in Outcomes(pairs[Len(results) + 1]) : results' = Append(results, st)
  /\ UNCHANGED <<given, phase, ping, checks, pairs, status, exit, signal, lost>>

\* The slip of taking the last bucket's status for the overall one.
RecomputeLastWins ==
  /\ phase = "buckets" /\ Len(results) = Len(pairs)
  /\ status' = IF results = <<>> THEN OverallStatus(checks, {}) ELSE Last(results)
  /\ phase' = "report"
  /\ UNCHANGED <<given, ping, checks, pairs, results, exit, signal, lost>>

\* A loop that is left when the context is cancelled.
RecomputeOnCancel ==
  /\ phase = "buckets" /\ (cancelled \/ Len(results) = Len(pairs))
  /\ status' = OverallStatus(checks, {{results[i]} : i \in DOMAIN results})
  /\ phase' = "report"
  /\ UNCHANGED <<given, ping, checks, pairs, results, exit, signal, lost>>

Recompute ==
  /\ phase = "buckets" /\ Len(results) = Len(pairs)
  /\ status' = OverallStatus(checks, {{results[i]} : i \in DOMAIN results})
  /\ phase' = "report"
  /\ UNCHANGED <<given, ping, checks, pairs, results, exit, signal, lost>>

\* main writes the reports, whose errors are only printed, and exits.
Exit ==
  /\ phase \in {"aborted", "report"}
  /\ exit' = ExitCode(status, phase = "aborted", cfg.FailOnWarn)
  /\ phase' = "exited"
  /\ UNCHANGED <<given, ping, report, signal, lost>>

Run ==
  \/ Accept \/ Reject
  \/ \E s \in Side : PingLists(s) \/ PingFallsBack(s) \/ PingDenied(s) \/ PingFails(s)
  \/ Abort \/ Connected \/ Inventory \/ VerifyNext \/ Recompute \/ Exit

Next == Run \/ Interrupt

\* Not a step of the program: it has exited.
Exited == phase = "exited" /\ UNCHANGED vars

\* Every request ends, so Run goes on.
Spec == Init /\ [][Next \/ Exited]_vars /\ WF_vars(Run)

-----------------------------------------------------------------------------
(* Correctness.                                                            *)

\* What an argument asks for: "use src:dst for a different target name"
\* (main.go).
Denotes(arg, src, dst) == arg = src \o <<Colon>> \o dst \/ (arg = src /\ src = dst)

Fine == IF line.FailOnWarn THEN {"PASS"} ELSE {"PASS", "WARN"}

Verified(src, dst) ==
  /\ src \in exists["source"] /\ dst \in exists["target"]
  /\ \E i \in DOMAIN results :
       pairs[i] = [source |-> src, target |-> dst] /\ results[i] \in Fine

AllVerified == \A b \in exists["source"] : Verified(b, b)

\* Exit code 0 is earned: every bucket that was asked for is on both sides
\* and was verified, provided the source let its buckets be listed.
ExitZeroIsEarned ==
  exit = 0 =>
    IF line.AllBuckets THEN reach["source"] = "listed" => AllVerified
    ELSE \A i \in DOMAIN line.Args :
           \E src, dst \in Names : Denotes(line.Args[i], src, dst) /\ Verified(src, dst)

\* Exit codes 1 and 2 tell a difference from a verification that was not
\* started or could not be carried out.
ExitCodesExplain ==
  /\ exit = 2 => \/ reach["source"] = "none"
                 \/ \E s \in Side : reach[s] = "failed"
                 \/ "ERROR" \in Range(results)
  /\ exit = 1 => /\ \A s \in Side : reach[s] # "failed"
                 /\ "ERROR" \notin Range(results)

\* A run that is interrupted while buckets are left never looks like one that
\* verified them, although nothing but failing requests tells it.
InterruptedNeverPasses == phase = "exited" /\ cut /\ pairs # <<>> => exit # 0

\* "so restricted credentials still work" (client.go): keys that may not list
\* the buckets but may read the one asked for first are not taken for an
\* unreachable side, whether or not the bucket is there.  It does not hold of
\* the target when the pair gives the bucket another name there, because the
\* target is asked for the source's name.
RestrictedCredentialsWork ==
  \A s \in Side \ lost :
    /\ cfg.Buckets # <<>> /\ cfg.Buckets[1][s] \in may[s].read
    /\ s = "target" => cfg.Buckets[1].source = cfg.Buckets[1].target
    => reach[s] # "failed"

\* The program ends, wherever requests fail and whenever it is interrupted.
Terminates == <>(phase = "exited")

-----------------------------------------------------------------------------
(* What the documentation says and the code does not do.                   *)

\* "--all-buckets  verify every bucket that exists on the source"
\* (README.md:116).
AllBucketsVerified == exit = 0 /\ line.AllBuckets => AllVerified
=============================================================================
