------------------------------- MODULE SmokeTest -------------------------------
(***************************************************************************)
(* smokeTest (internal/verify/smoke.go): one probe object is written to    *)
(* the target, read back in three ways and deleted by its exact version;   *)
(* whatever fails is followed by a best-effort deletion.                   *)
(*                                                                         *)
(* Requests fail, answers get lost although the target acts, now or later, *)
(* and the context all requests share is cancelled by an interrupt         *)
(* (cmd/migration-verify/main.go).  The client library may send an upload  *)
(* again whose answer it did not get.                                      *)
(***************************************************************************)
EXTENDS Naturals

CONSTANT MaxAttempts    \* bound on how often one upload is sent

ASSUME MaxAttemptsAssumption == MaxAttempts \in Nat \ {0}

VARIABLES
  versioning,  \* truth: the versioning of the target bucket
  locked,      \* truth: object lock refuses the deletion of a version
  step,        \* where smokeTest is
  versionID,   \* the variable of that name; Unnamed is ""
  check,       \* "none", or the status of the check returned
  stored,      \* what the bucket holds under the probe's key
  attempts,    \* how often the upload was sent
  late,        \* the uploads without an answer that may yet be carried out
  cancelled,   \* ctx has been cancelled
  unanswered,  \* history: the uploads that were sent and got no answer
  since,       \* history: those of them carried out since the last DELETE
  removed      \* history: a DELETE was carried out after an upload's answer

target == <<versioning, locked>>
bucket == <<stored, attempts, late, unanswered, since, removed>>
vars   == <<target, step, versionID, check, cancelled, bucket>>

Steps == {"PUT", "HEAD", "GET", "PRESIGNED-GET", "DELETE", "recheck", "cleanup", "done"}

\* Where a failure calls fail.
Failing == Steps \ {"recheck", "cleanup", "done"}

\* What the key may hold: the null version, which is also the one copy of a
\* bucket without versions, the versions numbered by their upload, and a
\* delete marker.
Null    == 0
Marker  == MaxAttempts + 1
Unnamed == MaxAttempts + 2

\* A suspended bucket stores the null version; a "silent" one does so without
\* naming it in the answer to the upload.
Versioning == {"off", "suspended", "silent", "enabled"}

TypeOK ==
  /\ versioning \in Versioning
  /\ locked \in BOOLEAN /\ (locked => versioning = "enabled")
  /\ step \in Steps
  /\ versionID \in Null .. MaxAttempts \cup {Unnamed}
  /\ check \in {"none", "PASS", "FAIL"}
  /\ stored \subseteq Null .. Marker
  /\ attempts \in 0 .. MaxAttempts
  /\ late \subseteq unanswered
  /\ unanswered \subseteq 1 .. attempts
  /\ since \subseteq unanswered \ late
  /\ {cancelled, removed} \subseteq BOOLEAN

Init ==
  /\ versioning \in Versioning
  /\ locked \in {FALSE, versioning = "enabled"}
  /\ step = "PUT"
  /\ versionID = Unnamed
  /\ check = "none"
  /\ stored = {}
  /\ attempts = 0
  /\ late = {}
  /\ cancelled = FALSE
  /\ unanswered = {}
  /\ since = {}
  /\ removed = FALSE

-----------------------------------------------------------------------------
(* The target and the network.                                             *)

Upload(n) == IF versioning = "enabled" THEN n ELSE Null

\* The version id in the answer to an upload.
Named(n) ==
  IF versioning = "enabled" THEN n
  ELSE IF versioning = "suspended" THEN Null ELSE Unnamed

\* A DELETE of one version removes it; one that names none removes the null
\* version or the only copy, and where there are versions puts a delete marker.
Without(id) ==
  IF id # Unnamed THEN stored \ {id}
  ELSE IF versioning = "enabled" THEN stored \cup {Marker}
  ELSE (stored \ {Null}) \cup (IF versioning = "off" THEN {} ELSE {Marker})

\* The library got the answer of the upload it sent last, and PutObject returned.
Answered == attempts > 0 /\ attempts \notin unanswered

\* A DELETE that reaches the target and is allowed there.
Remove(id) ==
  /\ ~cancelled
  /\ locked => id \notin stored
  /\ stored' = Without(id)
  /\ since' = {}
  /\ removed' = Answered
  /\ UNCHANGED <<attempts, late, unanswered>>

Interrupt ==
  /\ step # "done" /\ ~cancelled
  /\ cancelled' = TRUE
  /\ UNCHANGED <<target, step, versionID, check, bucket>>

\* An upload is sent and not answered.  It may be sent again.
UploadUnanswered ==
  /\ step = "PUT" /\ ~cancelled
  /\ attempts < MaxAttempts
  /\ attempts' = attempts + 1
  /\ late' = late \cup {attempts + 1}
  /\ unanswered' = unanswered \cup {attempts + 1}
  /\ UNCHANGED <<target, step, versionID, check, stored, cancelled, since, removed>>

\* The target carries out an upload nobody waits for, at any later time.
LateUpload ==
  /\ \E n \in late : /\ late' = late \ {n}
                     /\ stored' = stored \cup {Upload(n)}
                     /\ since' = since \cup {n}
  /\ UNCHANGED <<target, step, versionID, check, attempts, cancelled, unanswered, removed>>

-----------------------------------------------------------------------------
(* The steps of smokeTest.                                                 *)

PutAnswered ==
  /\ step = "PUT" /\ ~cancelled
  /\ attempts < MaxAttempts
  /\ attempts' = attempts + 1
  /\ stored' = stored \cup {Upload(attempts + 1)}
  /\ versionID' = Named(attempts + 1)
  /\ step' = "HEAD"
  /\ UNCHANGED <<target, check, late, cancelled, unanswered, since, removed>>

\* HEAD, GET and the presigned GET find the probe as it was written.
ReadBack(here, there) ==
  /\ step = here /\ ~cancelled
  /\ step' = there
  /\ UNCHANGED <<target, versionID, check, cancelled, bucket>>

\* Deleting the latest version instead of the one that was written.
DeleteLatest ==
  /\ step = "DELETE"
  /\ Remove(Unnamed)
  /\ step' \in {"recheck", "cleanup"}
  /\ UNCHANGED <<target, versionID, check, cancelled>>

\* The DELETE is carried out, with or without an answer.
Delete ==
  /\ step = "DELETE"
  /\ Remove(versionID)
  /\ step' \in {"recheck", "cleanup"}
  /\ UNCHANGED <<target, versionID, check, cancelled>>

\* The last HEAD still finds the version ...
StillPresent ==
  /\ step = "recheck" /\ ~cancelled
  /\ versionID \in stored \/ (versionID = Unnamed /\ versioning = "off" /\ stored # {})
  /\ step' = "cleanup"
  /\ UNCHANGED <<target, versionID, check, cancelled, bucket>>

\* An error of the last HEAD that is reported as one.
GoneOrError ==
  /\ step = "recheck"
  /\ step' = "done"
  /\ check' = IF cancelled THEN "ERROR" ELSE "PASS"
  /\ UNCHANGED <<target, versionID, cancelled, bucket>>

\* ... or fails, and any error of it is taken to mean that the probe is gone.
Gone ==
  /\ step = "recheck"
  /\ step' = "done"
  /\ check' = "PASS"
  /\ UNCHANGED <<target, versionID, cancelled, bucket>>

\* A step fails and fail is called.
Fail ==
  /\ step \in Failing
  /\ step' = "cleanup"
  /\ UNCHANGED <<target, versionID, check, cancelled, bucket>>

\* A deletion in fail that forgets the version, and one tried until it works.
CleanupLatest ==
  /\ step = "cleanup"
  /\ Remove(Unnamed) \/ UNCHANGED bucket
  /\ step' = "done"
  /\ check' = "FAIL"
  /\ UNCHANGED <<target, versionID, cancelled>>

CleanupUntilDone ==
  /\ step = "cleanup"
  /\ \/ Remove(versionID) /\ step' = "done" /\ check' = "FAIL"
     \/ UNCHANGED <<step, check, bucket>>
  /\ UNCHANGED <<target, versionID, cancelled>>

\* The deletion in fail: its error is dropped.
Cleanup ==
  /\ step = "cleanup"
  /\ Remove(versionID) \/ UNCHANGED bucket
  /\ step' = "done"
  /\ check' = "FAIL"
  /\ UNCHANGED <<target, versionID, cancelled>>

smokeTest ==
  \/ PutAnswered
  \/ ReadBack("HEAD", "GET") \/ ReadBack("GET", "PRESIGNED-GET") \/ ReadBack("PRESIGNED-GET", "DELETE")
  \/ Delete \/ StillPresent \/ Gone
  \/ Fail \/ Cleanup

Next == smokeTest \/ Interrupt \/ UploadUnanswered \/ LateUpload

\* Not a step of the program: the check has been returned.
Done == step = "done" /\ UNCHANGED vars

\* Every request ends in an answer or an error, so smokeTest goes on.
Spec == Init /\ [][Next \/ Done]_vars /\ WF_vars(smokeTest)

-----------------------------------------------------------------------------
(* Correctness.                                                            *)

\* What the uploads without an answer may leave under the key.  Each is a
\* version of its own where there are versions, which no deletion names; else
\* it is the one copy, gone unless it was stored after the last DELETE.
Leftovers == {Upload(n) : n \in IF versioning = "enabled" THEN unanswered \ late ELSE since}

\* A smoke test that passes has had its deletion carried out: whatever the
\* versioning and the lock of the bucket, the probe is gone and no delete
\* marker is there, also when uploads were repeated, whose copies are all that
\* may be left.  The exception is a suspended bucket that does not name its
\* null version.
PassMeansRemoved ==
  check = "PASS" =>
    /\ removed
    /\ versioning # "silent" => stored \subseteq Leftovers

\* Wherever a step fails after an upload was answered, one deletion that gets
\* through, be it the last step's or fail's, leaves nothing behind but copies
\* of uploads that got no answer, with the same exception.  A test whose upload
\* was answered at the first attempt leaves nothing at all.
RemovalSuffices ==
  step = "done" /\ removed /\ versioning # "silent" =>
    /\ stored \subseteq Leftovers
    /\ unanswered = {} => stored = {}

\* The smoke test ends, whatever fails and whenever it is interrupted.
Terminates == <>(step = "done")

=============================================================================
