----------------------------- MODULE VerifyBucket -----------------------------
(***************************************************************************)
(* verifyBucket (internal/verify/verifier.go) with bucketConfig and        *)
(* compareBucketConfig (internal/verify/bucket.go): the phases one bucket  *)
(* pair goes through, the checks each adds, and the numbers and objects    *)
(* the report lists beside them.                                           *)
(*                                                                         *)
(* The phases run one after the other; within a phase the requests to the  *)
(* two sides run in parallel and share nothing, so a phase is one step.    *)
(* What the storages hold is chosen when a phase first looks at it, and    *)
(* so is which of its requests fail.  compareObjects is its outcome: any   *)
(* complete observation of each common key.                                *)
(***************************************************************************)
EXTENDS ObjectVerdict, FiniteSets

CONSTANTS
  Keys,         \* the keys that may be on either side
  Settings      \* the bucket settings of both sides, and the answers for them

ASSUME KeysAssumption == IsFiniteSet(Keys)

ASSUME BucketConfigsAssumption ==
  \A cfg \in Configs : /\ cfg.CheckVersions \in {"auto", "on", "off"}
                       /\ {cfg.FailOnExtra, cfg.SmokeTest} \subseteq BOOLEAN

-----------------------------------------------------------------------------
(* The settings of a bucket.                                               *)

\* Two policies that differ in their layout only, and two sets of tags that
\* differ in where a "=" divides key and value ({"a=b": "c"}, {"a": "b=c"}),
\* stand for what the two conversions below do.
Values == [versioning |-> {"", "Enabled", "Suspended"},
           objectLock |-> {"", "Enabled"},
           tags       |-> {"", "tags", "tags regrouped"},
           policy     |-> {"", "policy", "policy laid out"},
           lifecycle  |-> {"", "rules"},
           encryption |-> {"", "AES256"}]

ConfigKeys == DOMAIN Values

\* Those whose error without an S3 code is dropped.
LenientKeys == {"objectLock"}

\* The answers to the request for one setting: its value ("" when it is not
\* set), an error with an S3 code, or one without.
SettingAnswers == {"ok", "coded", "uncoded"}

ASSUME SettingsAssumption ==
  \A c \in Settings, key \in ConfigKeys, s \in Side :
    c.value[key][s] \in Values[key] /\ c.answer[key][s] \in SettingAnswers

canonicalJSON(policy) == IF policy = "policy laid out" THEN "policy" ELSE policy

mapString(tags) == IF tags = "tags regrouped" THEN "tags" ELSE tags

Canonical(key, value) ==
  IF key = "policy" THEN canonicalJSON(value)
  ELSE IF key = "tags" THEN mapString(value) ELSE value

\* Truth: the settings whose meaning differs; tags that differ by grouping only
\* have a name of their own.
Meaning(key, value) == IF key = "policy" THEN canonicalJSON(value) ELSE value

Differs(key, value) == Meaning(key, value["source"]) # Meaning(key, value["target"])

DifferenceOf(key, value) ==
  IF key = "tags" /\ mapString(value["source"]) = mapString(value["target"]) THEN "grouping" ELSE key

Differences(value) ==
  {DifferenceOf(key, value[key]) : key \in {key \in ConfigKeys : Differs(key, value[key])}}

VARIABLES
  cfg,         \* v.cfg
  phase,       \* the next phase of verifyBucket
  checks,      \* br.Checks: the status of each check added so far
  versioned,   \* what compareBucketConfig says of the source
  differing,   \* truth: the settings that differ between the sides
  keeping,     \* truth: the source keeps versions, or kept them once
  keysOn,      \* truth: the keys present on each side
  pair,        \* truth: the two copies of each common key
  objects,     \* br.Objects: the status of each object listed
  summary,     \* br.Summary
  failed       \* history: the phases and settings with a failed request, and
               \* "recheck" for the HEAD that ends the smoke test

vars == <<cfg, phase, checks, versioned, differing, keeping, keysOn, pair, objects, summary, failed>>

NoSummary == [SourceObjects |-> 0, TargetObjects |-> 0, MatchedObjects |-> 0,
              MissingObjects |-> 0, ExtraObjects |-> 0, MismatchedObjects |-> 0,
              ErrorObjects |-> 0, ETagInconclusive |-> 0]

Phases == {"config", "listing", "compare", "versions", "smoke", "done"}

TypeOK ==
  /\ cfg \in Configs
  /\ phase \in Phases
  /\ \A name \in DOMAIN checks : checks[name] \in Status
  /\ versioned \in BOOLEAN
  /\ differing \subseteq ConfigKeys \cup {"grouping"}
  /\ keeping \in BOOLEAN
  /\ keysOn \in [Side -> SUBSET Keys]
  /\ \A k \in DOMAIN pair : pair[k] \in Pairs
  /\ \A k \in DOMAIN objects : objects[k] \in FinalStatus
  /\ summary \in [DOMAIN NoSummary -> Nat]
  /\ failed \subseteq Phases \cup ConfigKeys \cup {"recheck"}

Init ==
  /\ cfg \in Configs
  /\ phase = "config"
  /\ checks = <<>>
  /\ versioned = FALSE
  /\ differing = {}
  /\ keeping = FALSE
  /\ keysOn = [s \in Side |-> {}]
  /\ pair = <<>>
  /\ objects = <<>>
  /\ summary = NoSummary
  /\ failed = {}

\* The slip of assigning br.Checks where it should be appended to.
AddReplacing(new) == checks' = new

\* br.Checks is only appended to, and no name is added twice.
Add(new) == checks' = [name \in DOMAIN checks \cup DOMAIN new |->
                         IF name \in DOMAIN new THEN new[name] ELSE checks[name]]

Failing(names) == failed' = failed \cup names

-----------------------------------------------------------------------------
(* Bucket-level configuration.                                             *)

ExistsAnswers == {"yes", "no", "err"}

\* The settings some of the sides that are asked for them answer with an error.
FailedSettings(c, asked) == {n \in ConfigKeys : \E s \in asked : c.answer[n][s] # "ok"}

\* compareBucketConfig when BucketExists failed or a bucket is not there: the
\* one check it adds, with which verifyBucket ends.  A side that is there has
\* been asked for its settings all the same; nothing looks at the answers.
BucketMissing ==
  /\ phase = "config"
  /\ \E exists \in [Side -> ExistsAnswers] :
       LET err   == \E s \in Side : exists[s] = "err"
           asked == {s \in Side : exists[s] = "yes"}
       IN  /\ asked # Side
           /\ Add([n \in {"Bucket Exists"} |-> IF err THEN "ERROR" ELSE "FAIL"])
           /\ \E names \in {FailedSettings(c, asked) : c \in Settings} :
                Failing(names \cup (IF err THEN {phase} ELSE {}))
  /\ phase' = "done"
  /\ UNCHANGED <<cfg, versioned, differing, keeping, keysOn, pair, objects, summary>>

\* The slip of taking any error without an S3 code to mean "not set".
UnreadableIfCoded(key, answer) == answer = "coded"

\* A setting is in bc.Errors unless its error is taken to mean "not set".
Unreadable(key, answer) ==
  \/ answer = "coded"
  \/ answer = "uncoded" /\ key \notin LenientKeys

Seen(key, value, answer) == IF answer = "ok" THEN Canonical(key, value) ELSE ""

\* cfgCheck
SettingStatus(key, value, answer) ==
  IF \E s \in Side : Unreadable(key, answer[s]) THEN "ERROR"
  ELSE IF Seen(key, value["source"], answer["source"]) = Seen(key, value["target"], answer["target"])
  THEN "PASS"
  ELSE "FAIL"

\* The slip of taking only a bucket that still adds versions for a versioned one.
KeepsVersionsNow(versioning) == versioning = "Enabled"

KeepsVersions(versioning) == versioning \in {"Enabled", "Suspended"}

\* The settings checks of buckets that both exist.
SettingChecks(c) ==
  [n \in {"Bucket Exists"} \cup ConfigKeys |->
     IF n = "Bucket Exists" THEN "PASS" ELSE SettingStatus(n, c.value[n], c.answer[n])]

CompareConfig ==
  /\ phase = "config"
  /\ \E c \in Settings :
       LET source == Seen("versioning", c.value["versioning"]["source"], c.answer["versioning"]["source"])
       IN  /\ Add(SettingChecks(c))
           /\ versioned' = KeepsVersions(source)
           /\ keeping' = (c.value["versioning"]["source"] # "")
           /\ differing' = Differences(c.value)
           /\ Failing(FailedSettings(c, Side))
  /\ phase' = "listing"
  /\ UNCHANGED <<cfg, keysOn, pair, objects, summary>>

-----------------------------------------------------------------------------
(* Listing, names and counts.                                              *)

ListingFails ==
  /\ phase = "listing"
  /\ Add([n \in {"Object Listing"} |-> "ERROR"])
  /\ Failing({phase})
  /\ phase' = "done"
  /\ UNCHANGED <<cfg, versioned, differing, keeping, keysOn, pair, objects, summary>>

ExtraStatus == IF cfg.FailOnExtra THEN "FAIL" ELSE "WARN"

CountStatus(on) ==
  IF Cardinality(on["source"]) # Cardinality(on["target"]) THEN "FAIL" ELSE "PASS"

\* The slip of letting the status for extra keys replace that for missing ones.
NamesStatusLastWins(missing, extra) ==
  IF extra # {} THEN ExtraStatus
  ELSE IF missing # {} THEN "FAIL" ELSE "PASS"

NamesStatus(missing, extra) ==
  Worst((IF missing # {} THEN {"FAIL"} ELSE {}) \cup (IF extra # {} THEN {ExtraStatus} ELSE {}))

KeyChecks(on) ==
  [n \in {"Object Listing", "Object Count", "Object Names"} |->
     CASE n = "Object Listing" -> "PASS"
       [] n = "Object Count"   -> CountStatus(on)
       [] n = "Object Names"   -> NamesStatus(on["source"] \ on["target"], on["target"] \ on["source"])]

List ==
  /\ phase = "listing"
  /\ \E on \in [Side -> SUBSET Keys] :
       LET missing == on["source"] \ on["target"]
           extra   == on["target"] \ on["source"]
       IN  /\ keysOn' = on
           /\ objects' = [k \in missing \cup extra |-> IF k \in missing THEN "FAIL" ELSE ExtraStatus]
           /\ summary' = [summary EXCEPT !.SourceObjects = Cardinality(on["source"]),
                                         !.TargetObjects = Cardinality(on["target"]),
                                         !.MissingObjects = Cardinality(missing),
                                         !.ExtraObjects = Cardinality(extra)]
           /\ Add(KeyChecks(on))
  /\ phase' = "compare"
  /\ UNCHANGED <<cfg, versioned, differing, keeping, pair, failed>>

-----------------------------------------------------------------------------
(* The objects both sides have.                                            *)

Common == keysOn["source"] \cap keysOn["target"]

\* One common key after compareObjects: its copies and what was observed.
Outcomes == {w \in [p : Pairs, o : Observation] : Complete(cfg, w.p, w.o)}

\* What the workers' lists hold of one reason, which is in each at most twice.
Entries(w, r) == {e \in Common \X (1 .. 2) : e[2] <= Reasons(cfg, w[e[1]].p, w[e[1]].o)[r]}

\* The counter of one reason, incremented for every entry.
CountReason(w, r) == Cardinality(Entries(w, r))

StatusIn(w, k) == StatusOf(cfg, w[k].p, w[k].o)

\* The slip of tolerating one mismatch.
TalliedPastOne(w, r) == IF CountReason(w, r) > 1 THEN "FAIL" ELSE "PASS"

\* The counter of one reason decides one check.
Tallied(w, r) == IF CountReason(w, r) > 0 THEN "FAIL" ELSE "PASS"

TalliedIf(applicable, w, r) == IF applicable THEN Tallied(w, r) ELSE "SKIPPED"

ETagStatus(w) ==
  IF CountReason(w, "etag") > 0 THEN "FAIL"
  ELSE IF CountReason(w, "etag-inconclusive") > 0 THEN "WARN" ELSE "PASS"

ContentStatus(w) ==
  TalliedIf(cfg.Level >= 3 \/ \E k \in Common : Hashed(w[k].o), w, "content")

\* Counting as matched whatever has no mismatch, the errors included.
MatchedWithErrors(w) == Cardinality({k \in Common : StatusIn(w, k) \in {"PASS", "ERROR"}})

Matched(w) == Cardinality({k \in Common : StatusIn(w, k) = "PASS"})

Errors(w) == Cardinality({k \in Common : StatusIn(w, k) = "ERROR"})

ObjectChecks(w) ==
  [n \in {"Object Size", "Checksum / ETag", "Content Type", "Metadata", "Tags", "Content (SHA-256)"}
         \cup (IF Errors(w) > 0 THEN {"Object Inspection"} ELSE {}) |->
     CASE n = "Object Size"       -> Tallied(w, "size")
       [] n = "Checksum / ETag"   -> ETagStatus(w)
       [] n = "Content Type"      -> TalliedIf(cfg.Level >= 2, w, "contentType")
       [] n = "Metadata"          -> TalliedIf(cfg.Level >= 2, w, "metadata")
       [] n = "Tags"              -> TalliedIf(cfg.Level >= 2 /\ cfg.CheckTags, w, "tags")
       [] n = "Content (SHA-256)" -> ContentStatus(w)
       [] n = "Object Inspection" -> "ERROR"]

Compare ==
  /\ phase = "compare"
  /\ \E w \in [Common -> Outcomes] :
       LET listed == {k \in Common : Listed(cfg, w[k].p, w[k].o)}
       IN  /\ pair' = [k \in Common |-> w[k].p]
           /\ objects' = [k \in DOMAIN objects \cup listed |->
                            IF k \in listed THEN StatusIn(w, k) ELSE objects[k]]
           /\ summary' = [summary EXCEPT
                            !.MatchedObjects = Matched(w),
                            !.ErrorObjects = Errors(w),
                            !.MismatchedObjects = Cardinality(Common) - Matched(w) - Errors(w),
                            !.ETagInconclusive = CountReason(w, "etag-inconclusive")]
           /\ Add(ObjectChecks(w))
           /\ Failing(IF \E k \in Common : Errored(w[k].o) THEN {phase} ELSE {})
  /\ phase' = "versions"
  /\ UNCHANGED <<cfg, versioned, differing, keeping, keysOn>>

-----------------------------------------------------------------------------
(* Versions and the smoke test, by what they may end with.                 *)

doVersions ==
  \/ cfg.CheckVersions = "on"
  \/ cfg.CheckVersions = "auto" /\ versioned

VersionsStatuses == IF doVersions THEN {"PASS", "FAIL", "ERROR"} ELSE {"N/A"}

Versions ==
  /\ phase = "versions"
  /\ \E st \in VersionsStatuses :
       /\ Add([n \in {"Versions"} |-> st])
       /\ Failing(IF st = "ERROR" THEN {phase} ELSE {})
  /\ phase' = IF cfg.SmokeTest THEN "smoke" ELSE "done"
  /\ UNCHANGED <<cfg, versioned, differing, keeping, keysOn, pair, objects, summary>>

\* A request of the smoke test that fails ends it as FAIL, as a wrong answer
\* does; only the last HEAD may fail in a test that passes (SmokeTest).
SmokeStatuses == {"PASS", "FAIL"}

SmokeFailures(st) == {{}, IF st = "PASS" THEN {"recheck"} ELSE {phase}}

Smoke ==
  /\ phase = "smoke"
  /\ \E st \in SmokeStatuses : /\ Add([n \in {"App Smoke Test"} |-> st])
                             /\ \E names \in SmokeFailures(st) : Failing(names)
  /\ phase' = "done"
  /\ UNCHANGED <<cfg, versioned, differing, keeping, keysOn, pair, objects, summary>>

Next == \/ BucketMissing \/ CompareConfig
        \/ ListingFails \/ List
        \/ Compare \/ Versions \/ Smoke

\* Not a step of the program: the bucket is done.
Done == phase = "done" /\ UNCHANGED vars

Spec == Init /\ [][Next \/ Done]_vars

-----------------------------------------------------------------------------
(* Correctness.                                                            *)

Statuses == {checks[n] : n \in DOMAIN checks}

\* What Recompute will say of this bucket.
Overall == BucketStatus(Statuses)

\* The numbers of the report fit together in whatever way objects differ or
\* fail: every key is counted in exactly one way on each side.
NumbersAddUp ==
  phase \in {"versions", "smoke", "done"} =>
    /\ summary.SourceObjects = summary.MissingObjects + Cardinality(Common)
    /\ summary.TargetObjects = summary.ExtraObjects + Cardinality(Common)
    /\ summary.MismatchedObjects = Cardinality({k \in Common \cap DOMAIN objects :
                                                  objects[k] \in {"WARN", "FAIL"}})

\* A bucket that passes was migrated: both sides have the same keys, every
\* object is the same, and so is every setting, but for the grouping of tags
\* and for one whose request failed with an error that is dropped.
PassMeansMigrated ==
  phase = "done" /\ Overall = "PASS" =>
    /\ keysOn["source"] = keysOn["target"]
    /\ \A k \in DOMAIN pair : Equivalent(cfg, pair[k])
    /\ differing \subseteq (failed \cap LenientKeys) \cup {"grouping"}

\* The requests whose failure nothing reports: the lock without an S3 code
\* (bucket.go:46) and the HEAD after the smoke test's deletion (smoke.go:91).
Dropped == LenientKeys \cup {"recheck"}

\* Those reported as FAIL at most: the requests of the smoke test
\* (smoke.go:31-36), and the settings of one bucket when the other is not
\* there (bucket.go:135-144).
ReportedAsFail ==
  {"smoke"} \cup (IF "Bucket Exists" \in DOMAIN checks /\ checks["Bucket Exists"] = "FAIL"
                  THEN ConfigKeys ELSE {})

\* A request that failed is visible in the status of the bucket, not only in
\* a detail, whatever the later phases add: as an ERROR, but for the two kinds
\* that are reported as FAIL at most and the two whose failure is dropped.  So
\* none but those two leaves the bucket PASS or WARN.
FailuresSurface ==
  /\ failed \ (Dropped \cup ReportedAsFail) # {} => Overall = "ERROR"
  /\ failed \ Dropped # {} => Overall \in {"FAIL", "ERROR"}

\* The object list never shows something worse than the status of the bucket,
\* under the configurations in which an inconclusive ETag counts once; and an
\* object listed as PASS is one the source has, whose record WriteText reads
\* (render.go:68) without asking whether it is there.
ObjectsAreBacked ==
  /\ (cfg.Level = 3 /\ cfg.MaxDeepBytes > 0 => cfg.DeepOnInconclusive) =>
       \A k \in DOMAIN objects : ~Worse(objects[k], Overall)
  /\ \A k \in DOMAIN objects : objects[k] = "PASS" => k \in Common

\* The version histories of a bucket that has any are never passed over:
\* unless they are not to be compared, a bucket whose source keeps versions, or
\* kept them before they were suspended, ends without a failure only when the
\* histories matched, also when its versioning could not be read (bucket.go:147,
\* verifier.go:141).
HistoriesNeverSkipped ==
  (/\ phase = "done" /\ Overall \in {"PASS", "WARN"}
   /\ keeping /\ cfg.CheckVersions # "off")
  => checks["Versions"] = "PASS"

\* The status of a bucket only gets worse from phase to phase: no later check
\* takes back what an earlier one found.
NeverImproves == [][~Worse(Overall, Overall')]_vars

-----------------------------------------------------------------------------
(* What the documentation says and the code does not do.                   *)

\* "A bucket's status is the worst of its checks" (README.md:236-237), and an
\* object the report lists as FAIL is a verification failure.
ListedFailureFailsBucket ==
  phase = "done" /\ (\E k \in DOMAIN objects : objects[k] = "FAIL") => Overall \in {"FAIL", "ERROR"}
=============================================================================
