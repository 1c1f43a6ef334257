-------------------------- MODULE VerifyBucket_proofs --------------------------
(***************************************************************************)
(* Proofs about the verification of one bucket pair, for any finite set of *)
(* keys, any options, any settings and any outcome of every request.       *)
(***************************************************************************)
EXTENDS VerifyBucket, ObjectVerdict_proofs, FiniteSetTheorems

\* The names of the checks, by the phase that adds them.
SettingNames == {"Bucket Exists"} \cup ConfigKeys
KeyNames     == {"Object Listing", "Object Count", "Object Names"}
ObjectNames  == {"Object Size", "Checksum / ETag", "Content Type", "Metadata", "Tags",
                 "Content (SHA-256)", "Object Inspection"}

\* A phase adds its own checks, once.
ChecksInOrder ==
  /\ phase = "config"   => DOMAIN checks = {}
  /\ phase = "listing"  => DOMAIN checks \subseteq SettingNames
  /\ phase = "compare"  => DOMAIN checks \subseteq SettingNames \cup KeyNames
  /\ phase = "versions" => DOMAIN checks \subseteq SettingNames \cup KeyNames \cup ObjectNames
  /\ phase = "smoke"    => DOMAIN checks \subseteq SettingNames \cup KeyNames \cup ObjectNames
                                                   \cup {"Versions"}

\* What the report has of the objects before a phase ran.
ObjectsInOrder ==
  /\ phase \in {"config", "listing"} =>
       /\ keysOn = [s \in Side |-> {}]
       /\ DOMAIN objects = {} /\ summary = NoSummary
  /\ phase = "compare" => DOMAIN objects \cap Common = {} /\ summary["MismatchedObjects"] = 0
  /\ phase \in {"config", "listing", "compare"} => DOMAIN pair = {}

\* The numbers fit together at any time.
Numbers ==
  /\ summary["SourceObjects"] = summary["MissingObjects"] + Cardinality(Common)
  /\ summary["TargetObjects"] = summary["ExtraObjects"] + Cardinality(Common)
  /\ summary["MismatchedObjects"] = Cardinality({k \in Common \cap DOMAIN objects :
                                                   objects[k] \in {"WARN", "FAIL"}})

\* No check that is at least as bad.
NoError   == "ERROR" \notin Statuses
NoFailure == NoError /\ "FAIL" \notin Statuses
NoWarning == NoFailure /\ "WARN" \notin Statuses

\* The options with which an inconclusive ETag is one reason.
CountsOnce == cfg.Level = 3 /\ cfg.MaxDeepBytes > 0 => cfg.DeepOnInconclusive

\* What is found while the bucket is verified has its check by the end of the
\* phase that finds it: settings that differ, keys and objects that do, requests
\* that fail, versions that are kept, and every object listed.
SettingsSurface == NoFailure => differing \subseteq (failed \cap LenientKeys) \cup {"grouping"}

PairsSurface == NoWarning => /\ keysOn["source"] = keysOn["target"]
                             /\ \A k \in DOMAIN pair : Equivalent(cfg, pair[k])

RequestsSurface ==
  /\ NoError => failed \subseteq Dropped \cup ReportedAsFail
  /\ NoFailure => failed \subseteq Dropped

VersionsSurface ==
  /\ NoError /\ keeping => versioned
  /\ NoFailure /\ doVersions /\ phase \in {"smoke", "done"} =>
       "Versions" \in DOMAIN checks /\ checks["Versions"] = "PASS"

ObjectsSurface ==
  /\ CountsOnce =>
       \A k \in DOMAIN objects : /\ objects[k] = "ERROR" => ~NoError
                                 /\ objects[k] = "FAIL" => ~NoFailure
                                 /\ objects[k] = "WARN" => ~NoWarning
  /\ \A k \in DOMAIN objects : objects[k] = "PASS" => k \in Common

Surfaced == /\ SettingsSurface /\ PairsSurface /\ RequestsSurface
            /\ VersionsSurface /\ ObjectsSurface

BucketInv == ChecksInOrder /\ ObjectsInOrder /\ Numbers /\ Surfaced

-----------------------------------------------------------------------------
(* The checks.                                                             *)

\* The settings, one by one.
LEMMA ConfigKeysSpelled ==
  ConfigKeys = {"versioning", "objectLock", "tags", "policy", "lifecycle", "encryption"}
BY DEF ConfigKeys, Values

\* Checks under new names are added to those there are and take none away.
LEMMA Added ==
  ASSUME NEW new, DOMAIN new \cap DOMAIN checks = {}, Add(new)
  PROVE  /\ DOMAIN checks' = DOMAIN checks \cup DOMAIN new
         /\ \A n \in DOMAIN checks : checks'[n] = checks[n]
         /\ \A n \in DOMAIN new : checks'[n] = new[n]
         /\ Statuses' = Statuses \cup {new[n] : n \in DOMAIN new}
<1>1. /\ DOMAIN checks' = DOMAIN checks \cup DOMAIN new
      /\ \A n \in DOMAIN checks : checks'[n] = checks[n]
      /\ \A n \in DOMAIN new : checks'[n] = new[n]
  BY DEF Add
<1> QED
  BY <1>1 DEF Statuses

\* A setting is the same, different or unreadable.
LEMMA SettingStatusTyped ==
  ASSUME NEW key, NEW value, NEW answer
  PROVE  SettingStatus(key, value, answer) \in {"PASS", "FAIL", "ERROR"}
BY DEF SettingStatus

\* The status of one setting says so if it cannot be read or differs.
LEMMA SettingSurfaces ==
  ASSUME NEW c \in Settings, NEW key \in ConfigKeys
  PROVE  LET st == SettingStatus(key, c.value[key], c.answer[key])
         IN  /\ st # "ERROR" =>
                  key \in LenientKeys \/ (\A s \in Side : c.answer[key][s] = "ok")
             /\ st = "PASS" /\ Differs(key, c.value[key]) =>
                  DifferenceOf(key, c.value[key])
                    \in (FailedSettings(c, Side) \cap LenientKeys) \cup {"grouping"}
<1> DEFINE v == c.value[key]
           a == c.answer[key]
           st == SettingStatus(key, v, a)
<1>0. \A s \in Side : a[s] \in {"ok", "coded", "uncoded"}
  BY SettingsAssumption DEF SettingAnswers
<1>1. st # "ERROR" => key \in LenientKeys \/ (\A s \in Side : a[s] = "ok")
  BY <1>0 DEF SettingStatus, Unreadable
<1>2. ASSUME st = "PASS", Differs(key, v), \A s \in Side : a[s] = "ok"
      PROVE  DifferenceOf(key, v) = "grouping"
  <2>1. Seen(key, v["source"], a["source"]) = Seen(key, v["target"], a["target"])
    BY <1>2 DEF SettingStatus
  <2>2. Canonical(key, v["source"]) = Canonical(key, v["target"])
    BY <1>2, <2>1 DEF Seen, Side
  <2>3. key = "tags" /\ mapString(v["source"]) = mapString(v["target"])
    BY <1>2, <2>2 DEF Canonical, Differs, Meaning
  <2> QED
    BY <2>3 DEF DifferenceOf
<1>3. ASSUME st = "PASS", Differs(key, v), ~(\A s \in Side : a[s] = "ok")
      PROVE  DifferenceOf(key, v) \in FailedSettings(c, Side) \cap LenientKeys
  <2>1. key \in LenientKeys /\ key \in FailedSettings(c, Side)
    BY <1>1, <1>3 DEF FailedSettings
  <2> QED
    BY <2>1 DEF LenientKeys, DifferenceOf
<1> QED
  BY <1>1, <1>2, <1>3

\* The checks of the settings.
LEMMA SettingChecksSurface ==
  ASSUME NEW c \in Settings
  PROVE  LET found == {SettingChecks(c)[n] : n \in DOMAIN SettingChecks(c)}
         IN  /\ DOMAIN SettingChecks(c) = SettingNames
             /\ found \subseteq {"PASS", "FAIL", "ERROR"}
             /\ "ERROR" \notin found =>
                  \A key \in ConfigKeys \ LenientKeys, s \in Side : c.answer[key][s] = "ok"
             /\ found \cap {"ERROR", "FAIL"} = {} =>
                  Differences(c.value) \subseteq (FailedSettings(c, Side) \cap LenientKeys)
                                                   \cup {"grouping"}
<1> DEFINE F == SettingChecks(c)
           found == {F[n] : n \in DOMAIN F}
<1>1. /\ DOMAIN F = SettingNames
      /\ F["Bucket Exists"] = "PASS"
      /\ \A key \in ConfigKeys : F[key] = SettingStatus(key, c.value[key], c.answer[key])
  BY ConfigKeysSpelled DEF SettingChecks, SettingNames
<1> HIDE DEF F
<1>2. found \subseteq {"PASS", "FAIL", "ERROR"}
  <2>1. ASSUME NEW n \in SettingNames PROVE F[n] \in {"PASS", "FAIL", "ERROR"}
    <3>1. CASE n \in ConfigKeys
      BY <1>1, <3>1, SettingStatusTyped
    <3>2. CASE n = "Bucket Exists"
      BY <1>1, <3>2
    <3> QED
      BY <3>1, <3>2 DEF SettingNames
  <2> QED
    BY <1>1, <2>1
<1>3. \A key \in ConfigKeys : SettingStatus(key, c.value[key], c.answer[key]) \in found
  BY <1>1 DEF SettingNames
<1>4. ASSUME "ERROR" \notin found
      PROVE  \A key \in ConfigKeys \ LenientKeys, s \in Side : c.answer[key][s] = "ok"
  BY <1>3, <1>4, SettingSurfaces
<1>5. ASSUME found \cap {"ERROR", "FAIL"} = {}
      PROVE  Differences(c.value) \subseteq (FailedSettings(c, Side) \cap LenientKeys)
                                                \cup {"grouping"}
  <2>1. \A key \in ConfigKeys : SettingStatus(key, c.value[key], c.answer[key]) = "PASS"
    BY <1>2, <1>3, <1>5
  <2> QED
    BY <2>1, SettingSurfaces DEF Differences
<1> QED
  BY <1>1, <1>2, <1>4, <1>5 DEF F

-----------------------------------------------------------------------------
(* The counters.                                                           *)

\* There are finitely many keys.
LEMMA KeysFinite ==
  ASSUME TypeOK
  PROVE  /\ \A s \in Side : IsFiniteSet(keysOn[s])
         /\ IsFiniteSet(Common)
         /\ \A S \in SUBSET Common : IsFiniteSet(S) /\ Cardinality(S) \in Nat
<1>1. \A S \in SUBSET Keys : IsFiniteSet(S) /\ Cardinality(S) \in Nat
  BY KeysAssumption, FS_Subset, FS_CardinalityType
<1>2. /\ \A s \in Side : keysOn[s] \in SUBSET Keys
      /\ Common \in SUBSET Keys
  BY DEF TypeOK, Common, Side
<1> QED
  BY <1>1, <1>2

\* A counter is above zero exactly when some object has the reason.
LEMMA CounterCounts ==
  ASSUME TypeOK, NEW w, NEW r \in Reason
  PROVE  /\ CountReason(w, r) \in Nat
         /\ CountReason(w, r) > 0 <=> \E k \in Common : Reasons(cfg, w[k].p, w[k].o)[r] > 0
<1> DEFINE R(k) == Reasons(cfg, w[k].p, w[k].o)[r]
<1>1. \A k \in Common : R(k) \in Nat
  BY ReasonsTyped DEF TypeOK
<1>2. IsFiniteSet(Common \X (1 .. 2))
  <2>1. IsFiniteSet(1 .. 2)
    <3>1. 1 \in Int /\ 2 \in Int
      OBVIOUS
    <3> QED
      BY <3>1, FS_Interval, Zenon
  <2> QED
    BY <2>1, KeysFinite, FS_Product
<1>3. Entries(w, r) \in SUBSET (Common \X (1 .. 2))
  BY DEF Entries
<1>4. IsFiniteSet(Entries(w, r)) /\ CountReason(w, r) \in Nat
  BY <1>2, <1>3, FS_Subset, FS_CardinalityType DEF CountReason
<1>5. CountReason(w, r) = 0 <=> Entries(w, r) = {}
  BY <1>4, FS_EmptySet DEF CountReason
<1>6. ASSUME NEW k \in Common, R(k) > 0 PROVE Entries(w, r) # {}
  <2>1. <<k, 1>> \in Common \X (1 .. 2) /\ 1 <= R(k)
    BY <1>1, <1>6
  <2>2. <<k, 1>> \in Entries(w, r)
    BY <2>1 DEF Entries
  <2> QED
    BY <2>2
<1>7. ASSUME NEW e \in Entries(w, r) PROVE e[1] \in Common /\ R(e[1]) > 0
  BY <1>1, <1>7 DEF Entries
<1> QED
  BY <1>4, <1>5, <1>6, <1>7

\* Disjoint sets are counted separately.
LEMMA DisjointUnion ==
  ASSUME NEW A, NEW B, IsFiniteSet(A), IsFiniteSet(B), A \cap B = {}
  PROVE  Cardinality(A \cup B) = Cardinality(A) + Cardinality(B)
<1>1. Cardinality(A \cup B) = Cardinality(A) + Cardinality(B) - Cardinality(A \cap B)
  BY FS_Union, Zenon
<1>2. Cardinality(A \cap B) = 0
  BY FS_EmptySet
<1>3. Cardinality(A) \in Nat /\ Cardinality(B) \in Nat
  BY FS_CardinalityType
<1> QED
  BY <1>1, <1>2, <1>3

\* Every common key is counted once: as a match, as an error or as a mismatch.
LEMMA CountersPartition ==
  ASSUME TypeOK, NEW w
  PROVE  /\ Matched(w) \in Nat /\ Errors(w) \in Nat
         /\ Cardinality(Common) - Matched(w) - Errors(w)
              = Cardinality({k \in Common : StatusIn(w, k) \in {"WARN", "FAIL"}})
         /\ Errors(w) > 0 <=> \E k \in Common : StatusIn(w, k) = "ERROR"
<1> DEFINE P == {k \in Common : StatusIn(w, k) = "PASS"}
           E == {k \in Common : StatusIn(w, k) = "ERROR"}
           D == {k \in Common : StatusIn(w, k) \in {"WARN", "FAIL"}}
<1>1. \A k \in Common : StatusIn(w, k) \in {"PASS", "WARN", "FAIL", "ERROR"}
  BY StatusIsFinal DEF StatusIn, FinalStatus
<1>2. /\ IsFiniteSet(P) /\ IsFiniteSet(E) /\ IsFiniteSet(D) /\ IsFiniteSet(P \cup E)
      /\ Cardinality(P) \in Nat /\ Cardinality(E) \in Nat /\ Cardinality(D) \in Nat
      /\ Cardinality(P \cup E) \in Nat
  <2>1. P \in SUBSET Common /\ E \in SUBSET Common /\ D \in SUBSET Common
        /\ P \cup E \in SUBSET Common
    OBVIOUS
  <2> QED
    BY <2>1, KeysFinite
<1>3. P \cap E = {} /\ (P \cup E) \cap D = {}
  OBVIOUS
<1>4. (P \cup E) \cup D = Common
  BY <1>1
<1>5. Matched(w) = Cardinality(P) /\ Errors(w) = Cardinality(E)
  BY DEF Matched, Errors
<1> HIDE DEF P, E, D
<1>6. Cardinality(P \cup E) = Cardinality(P) + Cardinality(E)
  BY <1>2, <1>3, DisjointUnion
<1>7. Cardinality(Common) = Cardinality(P \cup E) + Cardinality(D)
  BY <1>2, <1>3, <1>4, DisjointUnion
<1>8. Cardinality(Common) - Matched(w) - Errors(w) = Cardinality(D)
  BY <1>2, <1>5, <1>6, <1>7
<1>9. Errors(w) > 0 <=> E # {}
  BY <1>2, <1>5, FS_EmptySet
<1> QED
  BY <1>2, <1>5, <1>8, <1>9 DEF D, E

-----------------------------------------------------------------------------
(* What the checks of a phase say of what it found.                        *)

\* The checks of the objects, one by one.
LEMMA ObjectChecksSpelled ==
  ASSUME NEW w
  PROVE  LET F == ObjectChecks(w)
         IN  /\ ObjectNames \ {"Object Inspection"} \subseteq DOMAIN F
             /\ DOMAIN F \subseteq ObjectNames
             /\ F["Object Size"] = Tallied(w, "size")
             /\ F["Checksum / ETag"] = ETagStatus(w)
             /\ F["Content Type"] = TalliedIf(cfg.Level >= 2, w, "contentType")
             /\ F["Metadata"] = TalliedIf(cfg.Level >= 2, w, "metadata")
             /\ F["Tags"] = TalliedIf(cfg.Level >= 2 /\ cfg.CheckTags, w, "tags")
             /\ F["Content (SHA-256)"] = ContentStatus(w)
             /\ Errors(w) > 0 => "Object Inspection" \in DOMAIN F
             /\ "Object Inspection" \in DOMAIN F => F["Object Inspection"] = "ERROR"
BY DEF ObjectChecks, ObjectNames

\* A reason some object has fails one of the checks, unless it is that the ETag
\* is inconclusive.
LEMMA ReasonSurfaces ==
  ASSUME TypeOK, NEW w \in [Common -> Outcomes], NEW k \in Common, NEW r \in Reason,
         Reasons(cfg, w[k].p, w[k].o)[r] > 0
  PROVE  LET found == {ObjectChecks(w)[n] : n \in DOMAIN ObjectChecks(w)}
         IN  /\ r # "etag-inconclusive" => "FAIL" \in found
             /\ found \cap {"WARN", "FAIL"} # {}
<1> DEFINE F == ObjectChecks(w)
           found == {F[n] : n \in DOMAIN F}
           o == w[k].o
           p == w[k].p
<1>0. /\ cfg \in Configs
      /\ Complete(cfg, p, o)
      /\ Common \subseteq Common
  BY DEF TypeOK, Outcomes
<1>1. CountReason(w, r) > 0
  BY CounterCounts
<1>2. Tallied(w, r) = "FAIL"
  BY <1>1 DEF Tallied
<1>3. /\ F["Object Size"] \in found /\ F["Checksum / ETag"] \in found
      /\ F["Content Type"] \in found /\ F["Metadata"] \in found /\ F["Tags"] \in found
      /\ F["Content (SHA-256)"] \in found
  BY ObjectChecksSpelled DEF ObjectNames
<1>4. Headed(o) => cfg.Level >= 2
  BY <1>0, InputsTyped DEF Complete, Headed, HeadOutcomes, Side
<1> HIDE DEF F, o, p
<1>5. CASE r = "size"
  BY <1>2, <1>3, <1>5, ObjectChecksSpelled DEF F
<1>6. CASE r = "contentType"
  <2>1. Headed(o)
    BY <1>6, ReasonsSpelled DEF One, o
  <2> QED
    BY <1>2, <1>3, <1>4, <1>6, <2>1, ObjectChecksSpelled DEF F, TalliedIf
<1>7. CASE r = "metadata"
  <2>1. Headed(o)
    BY <1>7, ReasonsSpelled DEF One, o
  <2> QED
    BY <1>2, <1>3, <1>4, <1>7, <2>1, ObjectChecksSpelled DEF F, TalliedIf
<1>8. CASE r = "tags"
  <2>1. Headed(o) /\ cfg.CheckTags
    BY <1>8, ReasonsSpelled DEF One, o
  <2> QED
    BY <1>2, <1>3, <1>4, <1>8, <2>1, ObjectChecksSpelled DEF F, TalliedIf
<1>9. CASE r = "etag"
  BY <1>1, <1>3, <1>9, ObjectChecksSpelled DEF F, ETagStatus
<1>10. CASE r = "etag-inconclusive"
  BY <1>1, <1>3, <1>10, ObjectChecksSpelled DEF F, ETagStatus
<1>11. CASE r = "content"
  <2>1. Hashed(o)
    BY <1>11, ReasonsSpelled DEF One, o
  <2>2. ContentStatus(w) = "FAIL"
    BY <1>2, <1>11, <2>1 DEF ContentStatus, TalliedIf, o
  <2> QED
    BY <1>3, <1>11, <2>2, ObjectChecksSpelled DEF F
<1> QED
  BY <1>5, <1>6, <1>7, <1>8, <1>9, <1>10, <1>11 DEF Reason, F

\* The checks of the objects are at least as bad as every object, under the
\* options in which an inconclusive ETag is one reason.
LEMMA ObjectChecksSurface ==
  ASSUME TypeOK, NEW w \in [Common -> Outcomes]
  PROVE  LET found == {ObjectChecks(w)[n] : n \in DOMAIN ObjectChecks(w)}
         IN  /\ found \subseteq Status
             /\ "ERROR" \notin found =>
                  \A k \in Common : ~Errored(w[k].o) /\ StatusIn(w, k) # "ERROR"
             /\ CountsOnce /\ found \cap {"ERROR", "FAIL"} = {} =>
                  \A k \in Common : StatusIn(w, k) # "FAIL"
             /\ found \cap {"ERROR", "FAIL", "WARN"} = {} =>
                  \A k \in Common : StatusIn(w, k) = "PASS"
<1> DEFINE F == ObjectChecks(w)
           found == {F[n] : n \in DOMAIN F}
<1>1. found \subseteq Status
  <2>1. \A r : Tallied(w, r) \in Status
    BY DEF Tallied, Status
  <2>2. \A b, r : TalliedIf(b, w, r) \in {Tallied(w, r), "SKIPPED"}
    BY Zenon DEF TalliedIf
  <2>3. ETagStatus(w) \in Status
    BY DEF ETagStatus, Status
  <2>4. ContentStatus(w) \in {Tallied(w, "content"), "SKIPPED"}
    BY <2>2 DEF ContentStatus
  <2>5. /\ F["Content Type"] \in {Tallied(w, "contentType"), "SKIPPED"}
        /\ F["Metadata"] \in {Tallied(w, "metadata"), "SKIPPED"}
        /\ F["Tags"] \in {Tallied(w, "tags"), "SKIPPED"}
    BY <2>2, ObjectChecksSpelled, Zenon
  <2>6. "SKIPPED" \in Status /\ "ERROR" \in Status
    BY DEF Status
  <2>7. /\ F["Object Size"] = Tallied(w, "size")
        /\ F["Checksum / ETag"] = ETagStatus(w)
        /\ F["Content (SHA-256)"] = ContentStatus(w)
        /\ "Object Inspection" \in DOMAIN F => F["Object Inspection"] = "ERROR"
        /\ DOMAIN F \subseteq ObjectNames
    BY ObjectChecksSpelled, Zenon
  <2> HIDE DEF F
  <2>8. ASSUME NEW n \in DOMAIN F PROVE F[n] \in Status
    <3>1. /\ F["Object Size"] \in Status /\ F["Checksum / ETag"] \in Status
          /\ F["Content (SHA-256)"] \in Status
      BY <2>1, <2>3, <2>4, <2>6, <2>7
    <3>2. /\ F["Content Type"] \in Status /\ F["Metadata"] \in Status /\ F["Tags"] \in Status
      BY <2>1, <2>5, <2>6
    <3> QED
      BY <2>6, <2>7, <2>8, <3>1, <3>2 DEF ObjectNames
  <2> QED
    BY <2>8
<1>2. ASSUME "ERROR" \notin found, NEW k \in Common
      PROVE  ~Errored(w[k].o) /\ StatusIn(w, k) # "ERROR"
  <2>1. ~(Errors(w) > 0)
    BY <1>2, ObjectChecksSpelled
  <2>2. StatusIn(w, k) # "ERROR"
    BY <2>1, CountersPartition
  <2> QED
    BY <2>2 DEF StatusIn, StatusOf
<1> HIDE DEF F
<1>3. ASSUME NEW k \in Common, StatusIn(w, k) # "ERROR", found \cap {"FAIL", "WARN"} = {}
      PROVE  StatusIn(w, k) = "PASS"
  <2>1. \A r \in Reason : ~(Reasons(cfg, w[k].p, w[k].o)[r] > 0)
    BY <1>3, ReasonSurfaces DEF F
  <2>2. \A r \in Reason : Reasons(cfg, w[k].p, w[k].o)[r] = 0
    BY <2>1, ReasonsTyped DEF TypeOK
  <2> QED
    BY <1>3, <2>2 DEF StatusIn, StatusOf
<1>4. ASSUME CountsOnce, NEW k \in Common, "FAIL" \notin found
      PROVE  StatusIn(w, k) # "FAIL"
  <2> DEFINE R == Reasons(cfg, w[k].p, w[k].o)
  <2>0. /\ cfg \in Configs /\ w[k].p \in Pairs /\ w[k].o \in Observation
        /\ Complete(cfg, w[k].p, w[k].o)
    BY DEF TypeOK, Outcomes
  <2>1. \A r \in Reason \ {"etag-inconclusive"} : R[r] = 0
    <3>1. \A r \in Reason \ {"etag-inconclusive"} : ~(R[r] > 0)
      BY <1>4, ReasonSurfaces DEF F
    <3> QED
      BY <2>0, <3>1, ReasonsTyped
  <2>2. R["etag-inconclusive"] \in 0 .. 1
    BY <1>4, <2>0, InconclusiveOnce DEF CountsOnce
  <2>3. CASE R["etag-inconclusive"] = 0
    BY <2>1, <2>3 DEF StatusIn, StatusOf
  <2>4. CASE R["etag-inconclusive"] = 1
    BY <2>1, <2>4 DEF StatusIn, StatusOf, OnlyInconclusive
  <2> QED
    BY <2>2, <2>3, <2>4
<1> QED
  BY <1>1, <1>2, <1>3, <1>4 DEF F

\* The checks of the keys.
LEMMA KeyChecksSurface ==
  ASSUME NEW on
  PROVE  LET found   == {KeyChecks(on)[n] : n \in DOMAIN KeyChecks(on)}
             missing == on["source"] \ on["target"]
             extra   == on["target"] \ on["source"]
         IN  /\ DOMAIN KeyChecks(on) = KeyNames
             /\ found \subseteq {"PASS", "WARN", "FAIL"}
             /\ missing # {} => "FAIL" \in found
             /\ extra # {} => ExtraStatus \in found \/ "FAIL" \in found
<1> DEFINE missing == on["source"] \ on["target"]
           extra   == on["target"] \ on["source"]
           F == KeyChecks(on)
           T == (IF missing # {} THEN {"FAIL"} ELSE {}) \cup (IF extra # {} THEN {ExtraStatus} ELSE {})
<1>1. /\ DOMAIN F = KeyNames
      /\ F["Object Listing"] = "PASS"
      /\ F["Object Count"] = CountStatus(on)
      /\ F["Object Names"] = NamesStatus(missing, extra)
  BY DEF KeyChecks, KeyNames
<1>2. CountStatus(on) \in {"PASS", "FAIL"}
  BY DEF CountStatus
<1>3. ExtraStatus \in {"FAIL", "WARN"}
  BY DEF ExtraStatus
<1>4. T \in SUBSET Status /\ T \subseteq {"FAIL", "WARN"}
  BY <1>3 DEF Status
<1>5. /\ NamesStatus(missing, extra) = Worst(T)
      /\ Worst(T) \in T \cup {"PASS"}
      /\ \A t \in T : ~Worse(t, Worst(T))
  <2>1. NamesStatus(missing, extra) = Worst(T)
    BY DEF NamesStatus
  <2> HIDE DEF T
  <2> QED
    BY <1>4, <2>1, WorstIsWorst
<1>6. /\ missing # {} => Worst(T) = "FAIL"
      /\ extra # {} => Worst(T) \in {ExtraStatus, "FAIL"}
  BY <1>3, <1>4, <1>5, RankSpelled DEF Worse
<1> HIDE DEF F, T
<1> QED
  BY <1>1, <1>2, <1>4, <1>5, <1>6 DEF KeyNames, F

\* The checks that are added can only make the bucket worse.
LEMMA Worsens ==
  ASSUME NEW new, DOMAIN new \cap DOMAIN checks = {}, Add(new)
  PROVE  LET found == {new[n] : n \in DOMAIN new}
         IN  /\ NoError' => NoError /\ "ERROR" \notin found
             /\ NoFailure' => NoFailure /\ found \cap {"ERROR", "FAIL"} = {}
             /\ NoWarning' => NoWarning /\ found \cap {"ERROR", "FAIL", "WARN"} = {}
             /\ "ERROR" \in found => ~NoError'
             /\ "FAIL" \in found => ~NoFailure'
             /\ "WARN" \in found => ~NoWarning'
<1> DEFINE found == {new[n] : n \in DOMAIN new}
<1>1. Statuses' = Statuses \cup found
  BY Added
<1> HIDE DEF found
<1> QED
  BY <1>1 DEF NoError, NoFailure, NoWarning, found

\* What the status of the bucket says of its checks.
LEMMA OverallSpelled ==
  ASSUME TypeOK
  PROVE  /\ Statuses \subseteq Status
         /\ Overall # "ERROR" <=> NoError
         /\ Overall \in {"PASS", "WARN"} <=> NoFailure
         /\ Overall = "PASS" <=> NoWarning
<1>1. Statuses \in SUBSET Status
  BY DEF Statuses, TypeOK
<1>2. Overall = IF "ERROR" \in Statuses THEN "ERROR"
                ELSE IF "FAIL" \in Statuses THEN "FAIL"
                ELSE IF "WARN" \in Statuses THEN "WARN" ELSE "PASS"
  BY <1>1, BucketStatusIsWorst DEF Overall
<1> QED
  BY <1>1, <1>2 DEF NoError, NoFailure, NoWarning

\* And it is one of those a report ends with.
LEMMA OverallIsFinal ==
  ASSUME TypeOK
  PROVE  Overall \in FinalStatus
<1>1. Statuses \in SUBSET Status
  BY OverallSpelled
<1> QED
  BY <1>1, BucketStatusIsFinal DEF Overall

-----------------------------------------------------------------------------
(* The types.                                                              *)

\* Checks with a status are added to checks with a status.
LEMMA AddTyped ==
  ASSUME TypeOK, NEW new, \A n \in DOMAIN new : new[n] \in Status, Add(new)
  PROVE  \A n \in DOMAIN checks' : checks'[n] \in Status
BY DEF Add, TypeOK

\* A bucket that is missing, or is not known to be there, adds one check; the
\* failures are that of BucketExists and those of settings.
LEMMA BucketMissingSpelled ==
  ASSUME BucketMissing
  PROVE  \E err \in BOOLEAN, names \in SUBSET ConfigKeys :
           /\ Add([n \in {"Bucket Exists"} |-> IF err THEN "ERROR" ELSE "FAIL"])
           /\ Failing(names \cup (IF err THEN {phase} ELSE {}))
<1>1. \A c, asked : FailedSettings(c, asked) \in SUBSET ConfigKeys
  BY DEF FailedSettings
<1>2. PICK exists \in [Side -> ExistsAnswers] :
        LET err   == \E s \in Side : exists[s] = "err"
            asked == {s \in Side : exists[s] = "yes"}
        IN  /\ Add([n \in {"Bucket Exists"} |-> IF err THEN "ERROR" ELSE "FAIL"])
            /\ \E names \in {FailedSettings(c, asked) : c \in Settings} :
                 Failing(names \cup (IF err THEN {phase} ELSE {}))
  BY DEF BucketMissing
<1> DEFINE err == \E s \in Side : exists[s] = "err"
<1>3. err \in BOOLEAN
  OBVIOUS
<1>4. PICK names \in SUBSET ConfigKeys : Failing(names \cup (IF err THEN {phase} ELSE {}))
  BY <1>1, <1>2
<1>5. Add([n \in {"Bucket Exists"} |-> IF err THEN "ERROR" ELSE "FAIL"])
  BY <1>2
<1> HIDE DEF err
<1> QED
  BY <1>3, <1>4, <1>5

\* Every action keeps the types.
LEMMA TypesHold == TypeOK /\ [Next \/ Done]_vars => TypeOK'
<1> SUFFICES ASSUME TypeOK, [Next \/ Done]_vars PROVE TypeOK'
  OBVIOUS
<1>0. /\ "PASS" \in Status /\ "WARN" \in Status /\ "FAIL" \in Status
      /\ "ERROR" \in Status /\ "N/A" \in Status
      /\ {"PASS", "WARN", "FAIL", "ERROR"} = FinalStatus
  BY DEF Status, FinalStatus
<1>1. CASE BucketMissing
  <2>1. PICK err \in BOOLEAN, names \in SUBSET ConfigKeys :
          /\ Add([n \in {"Bucket Exists"} |-> IF err THEN "ERROR" ELSE "FAIL"])
          /\ Failing(names \cup (IF err THEN {phase} ELSE {}))
    BY <1>1, BucketMissingSpelled
  <2>2. \A n \in DOMAIN checks' : checks'[n] \in Status
    BY <1>0, <2>1, AddTyped
  <2>3. failed' \subseteq Phases \cup ConfigKeys \cup {"recheck"}
    BY <2>1 DEF Failing, TypeOK
  <2> QED
    BY <1>1, <2>2, <2>3 DEF BucketMissing, TypeOK, Phases
<1>2. CASE CompareConfig
  <2>1. PICK c \in Settings :
          /\ Add(SettingChecks(c))
          /\ differing' = Differences(c.value)
          /\ Failing(FailedSettings(c, Side))
    BY <1>2 DEF CompareConfig
  <2>2. \A n \in DOMAIN checks' : checks'[n] \in Status
    <3>1. \A n \in DOMAIN SettingChecks(c) : SettingChecks(c)[n] \in Status
      BY <1>0, SettingChecksSurface
    <3> QED
      BY <2>1, <3>1, AddTyped
  <2>3. differing' \subseteq ConfigKeys \cup {"grouping"}
    BY <2>1 DEF Differences, DifferenceOf
  <2>4. failed' \subseteq Phases \cup ConfigKeys \cup {"recheck"}
    BY <2>1 DEF Failing, FailedSettings, TypeOK
  <2>5. versioned' \in BOOLEAN
    <3>1. \A v : KeepsVersions(v) \in BOOLEAN
      BY SMT DEF KeepsVersions
    <3> QED
      BY <1>2, <3>1, Zenon DEF CompareConfig
  <2>6. keeping' \in BOOLEAN
    BY <1>2 DEF CompareConfig
  <2> QED
    BY <1>2, <2>2, <2>3, <2>4, <2>5, <2>6 DEF CompareConfig, TypeOK, Phases
<1>3. CASE ListingFails
  <2>1. \A n \in DOMAIN checks' : checks'[n] \in Status
    BY <1>0, <1>3, AddTyped DEF ListingFails
  <2> QED
    BY <1>3, <2>1 DEF ListingFails, Failing, TypeOK, Phases
<1>4. CASE List
  <2>1. PICK on \in [Side -> SUBSET Keys] :
          LET missing == on["source"] \ on["target"]
              extra   == on["target"] \ on["source"]
          IN  /\ keysOn' = on
              /\ objects' = [k \in missing \cup extra |-> IF k \in missing THEN "FAIL" ELSE ExtraStatus]
              /\ summary' = [summary EXCEPT !.SourceObjects = Cardinality(on["source"]),
                                            !.TargetObjects = Cardinality(on["target"]),
                                            !.MissingObjects = Cardinality(missing),
                                            !.ExtraObjects = Cardinality(extra)]
              /\ Add(KeyChecks(on))
    BY <1>4 DEF List
  <2>2. \A n \in DOMAIN checks' : checks'[n] \in Status
    <3>1. \A n \in DOMAIN KeyChecks(on) : KeyChecks(on)[n] \in Status
      BY <1>0, KeyChecksSurface
    <3> QED
      BY <2>1, <3>1, AddTyped
  <2>3. \A k \in DOMAIN objects' : objects'[k] \in FinalStatus
    BY <1>0, <2>1 DEF ExtraStatus
  <2>4. summary' \in [DOMAIN NoSummary -> Nat]
    <3>1. \A S \in SUBSET Keys : Cardinality(S) \in Nat
      BY KeysAssumption, FS_Subset, FS_CardinalityType
    <3>2. on["source"] \subseteq Keys /\ on["target"] \subseteq Keys
      BY DEF Side
    <3> QED
      BY <2>1, <3>1, <3>2 DEF TypeOK, NoSummary
  <2>5. keysOn' \in [Side -> SUBSET Keys]
    BY <2>1
  <2> QED
    BY <1>4, <2>2, <2>3, <2>4, <2>5 DEF List, TypeOK, Phases
<1>5. CASE Compare
  <2>1. PICK w \in [Common -> Outcomes] :
          LET listed == {k \in Common : Listed(cfg, w[k].p, w[k].o)}
          IN  /\ pair' = [k \in Common |-> w[k].p]
              /\ objects' = [k \in DOMAIN objects \cup listed |->
                               IF k \in listed THEN StatusIn(w, k) ELSE objects[k]]
              /\ summary' = [summary EXCEPT
                               !.MatchedObjects = Matched(w),
                               !.ErrorObjects = Errors(w),
                               !.MismatchedObjects = Cardinality(Common) - Matched(w) - Errors(w),
                               !.ETagInconclusive = CountReason(w, "etag-inconclusive")]
              /\ Add(ObjectChecks(w))
              /\ Failing(IF \E k \in Common : Errored(w[k].o) THEN {phase} ELSE {})
    BY <1>5 DEF Compare
  <2>2. \A n \in DOMAIN checks' : checks'[n] \in Status
    <3>1. \A n \in DOMAIN ObjectChecks(w) : ObjectChecks(w)[n] \in Status
      BY ObjectChecksSurface
    <3> QED
      BY <2>1, <3>1, AddTyped
  <2>3. \A k \in DOMAIN objects' : objects'[k] \in FinalStatus
    BY <2>1, StatusIsFinal DEF StatusIn, TypeOK
  <2>4. \A k \in DOMAIN pair' : pair'[k] \in Pairs
    BY <2>1 DEF Outcomes
  <2>5. summary' \in [DOMAIN NoSummary -> Nat]
    <3>1. Matched(w) \in Nat /\ Errors(w) \in Nat
          /\ Cardinality(Common) - Matched(w) - Errors(w) \in Nat
      <4>1. Cardinality({k \in Common : StatusIn(w, k) \in {"WARN", "FAIL"}}) \in Nat
        BY KeysFinite
      <4> QED
        BY <4>1, CountersPartition
    <3>2. CountReason(w, "etag-inconclusive") \in Nat
      BY CounterCounts DEF Reason
    <3> QED
      BY <2>1, <3>1, <3>2 DEF TypeOK, NoSummary
  <2>6. failed' \subseteq Phases \cup ConfigKeys \cup {"recheck"}
    BY <2>1 DEF Failing, TypeOK
  <2> QED
    BY <1>5, <2>2, <2>3, <2>4, <2>5, <2>6 DEF Compare, TypeOK, Phases
<1>6. CASE Versions
  <2>1. PICK st \in VersionsStatuses : /\ Add([n \in {"Versions"} |-> st])
                                       /\ Failing(IF st = "ERROR" THEN {phase} ELSE {})
    BY <1>6 DEF Versions
  <2>2. st \in Status
    BY <1>0 DEF VersionsStatuses
  <2>3. \A n \in DOMAIN checks' : checks'[n] \in Status
    BY <2>1, <2>2, AddTyped
  <2>4. failed' \subseteq Phases \cup ConfigKeys \cup {"recheck"}
    BY <2>1 DEF Failing, TypeOK
  <2> QED
    BY <1>6, <2>3, <2>4 DEF Versions, TypeOK, Phases
<1>7. CASE Smoke
  <2>1. PICK st \in SmokeStatuses : /\ Add([n \in {"App Smoke Test"} |-> st])
                                    /\ \E names \in SmokeFailures(st) : Failing(names)
    BY <1>7 DEF Smoke
  <2>2. \A n \in DOMAIN checks' : checks'[n] \in Status
    BY <1>0, <2>1, AddTyped DEF SmokeStatuses
  <2>3. failed' \subseteq Phases \cup ConfigKeys \cup {"recheck"}
    BY <2>1 DEF SmokeFailures, Failing, TypeOK
  <2> QED
    BY <1>7, <2>2, <2>3 DEF Smoke, TypeOK, Phases
<1>8. CASE UNCHANGED vars
  BY <1>8 DEF vars, TypeOK
<1> QED
  BY <1>1, <1>2, <1>3, <1>4, <1>5, <1>6, <1>7, <1>8 DEF Next, Done

\* The types hold in every state.
THEOREM TypeCorrect == Spec => []TypeOK
<1>1. ASSUME Init PROVE TypeOK
  <2>1. DOMAIN checks = {} /\ DOMAIN pair = {} /\ DOMAIN objects = {}
    BY <1>1 DEF Init
  <2>2. versioned \in BOOLEAN /\ keeping \in BOOLEAN
    BY <1>1 DEF Init
  <2>3. NoSummary \in [DOMAIN NoSummary -> Nat]
    BY DEF NoSummary
  <2> QED
    BY <1>1, <2>1, <2>2, <2>3 DEF Init, TypeOK, Phases
<1> QED
  BY <1>1, TypesHold, PTL DEF Spec

-----------------------------------------------------------------------------
(* The inductive invariant, one lemma per action.                          *)

\* The phases use different names for their checks.
LEMMA NamesApart ==
  /\ SettingNames \cap KeyNames = {} /\ SettingNames \cap ObjectNames = {}
  /\ KeyNames \cap ObjectNames = {}
  /\ "Versions" \notin SettingNames \cup KeyNames \cup ObjectNames
  /\ "App Smoke Test" \notin SettingNames \cup KeyNames \cup ObjectNames \cup {"Versions"}
BY ConfigKeysSpelled DEF SettingNames, KeyNames, ObjectNames

\* A failure that is reported as FAIL at most stays one: no later check takes
\* the place of the one that says a bucket is missing.
LEMMA ReportedStays ==
  ASSUME NEW new, DOMAIN new \cap DOMAIN checks = {}, Add(new)
  PROVE  ReportedAsFail \subseteq ReportedAsFail'
BY Added DEF ReportedAsFail

\* A bucket that is missing ends with the check that says so.
LEMMA BucketMissingKeeps ==
  ASSUME TypeOK, BucketInv, BucketMissing
  PROVE  BucketInv'
<1>1. PICK err \in BOOLEAN, names \in SUBSET ConfigKeys :
        /\ Add([n \in {"Bucket Exists"} |-> IF err THEN "ERROR" ELSE "FAIL"])
        /\ Failing(names \cup (IF err THEN {phase} ELSE {}))
  BY BucketMissingSpelled
<1> DEFINE new == [n \in {"Bucket Exists"} |-> IF err THEN "ERROR" ELSE "FAIL"]
           found == {new[n] : n \in DOMAIN new}
<1>2. /\ phase = "config" /\ phase' = "done" /\ DOMAIN checks = {}
      /\ UNCHANGED <<cfg, versioned, differing, keeping, keysOn, pair, objects, summary>>
  BY DEF BucketMissing, BucketInv, ChecksInOrder
<1>3. found = {IF err THEN "ERROR" ELSE "FAIL"}
  OBVIOUS
<1>4. /\ NoError' => NoError /\ "ERROR" \notin found
      /\ ~NoFailure' /\ ~NoWarning'
  <2>1. /\ NoError' => NoError /\ "ERROR" \notin found
        /\ NoFailure' => found \cap {"ERROR", "FAIL"} = {}
        /\ NoWarning' => found \cap {"ERROR", "FAIL", "WARN"} = {}
    BY <1>1, <1>2, Worsens, Zenon
  <2> QED
    BY <1>3, <2>1
<1>5. RequestsSurface'
  <2>1. ASSUME NoError' PROVE failed' \subseteq Dropped \cup ReportedAsFail'
    <3>1. ~err /\ failed \subseteq Dropped \cup ReportedAsFail
      BY <1>3, <1>4, <2>1 DEF BucketInv, Surfaced, RequestsSurface
    <3>2. failed' = failed \cup names
      BY <1>1, <3>1 DEF Failing
    <3>3. "Bucket Exists" \in DOMAIN checks' /\ checks'["Bucket Exists"] = "FAIL"
      BY <1>1, <1>2, <3>1 DEF Add
    <3>4. ReportedAsFail' = {"smoke"} \cup ConfigKeys
      BY <3>3 DEF ReportedAsFail
    <3>5. ReportedAsFail \subseteq {"smoke"} \cup ConfigKeys
      BY DEF ReportedAsFail
    <3> QED
      BY <3>1, <3>2, <3>4, <3>5
  <2> QED
    BY <1>4, <2>1 DEF RequestsSurface
<1>6. ChecksInOrder' /\ ObjectsInOrder' /\ Numbers'
  BY <1>2 DEF BucketInv, ChecksInOrder, ObjectsInOrder, Numbers, Common
<1>7. SettingsSurface' /\ PairsSurface' /\ VersionsSurface' /\ ObjectsSurface'
  BY <1>2, <1>4 DEF BucketInv, ObjectsInOrder, Surfaced, SettingsSurface, PairsSurface,
                    VersionsSurface, ObjectsSurface
<1> QED
  BY <1>5, <1>6, <1>7 DEF BucketInv, Surfaced

\* A setting that differs or cannot be read has a check that says so, and a
\* versioning that can be read says whether versions are kept.
LEMMA CompareConfigKeeps ==
  ASSUME TypeOK, BucketInv, CompareConfig
  PROVE  BucketInv'
<1>1. PICK c \in Settings :
        LET source == Seen("versioning", c.value["versioning"]["source"],
                           c.answer["versioning"]["source"])
        IN  /\ Add(SettingChecks(c))
            /\ versioned' = KeepsVersions(source)
            /\ keeping' = (c.value["versioning"]["source"] # "")
            /\ differing' = Differences(c.value)
            /\ Failing(FailedSettings(c, Side))
  BY DEF CompareConfig
<1> DEFINE found == {SettingChecks(c)[n] : n \in DOMAIN SettingChecks(c)}
<1>2. /\ phase = "config" /\ phase' = "listing" /\ DOMAIN checks = {}
      /\ UNCHANGED <<cfg, keysOn, pair, objects, summary>>
  BY DEF CompareConfig, BucketInv, ChecksInOrder
<1>3. /\ NoError' => NoError /\ "ERROR" \notin found
      /\ NoFailure' => NoFailure /\ found \cap {"ERROR", "FAIL"} = {}
      /\ NoWarning' => NoWarning
      /\ DOMAIN checks' = SettingNames
  <2>1. DOMAIN SettingChecks(c) = SettingNames
    BY SettingChecksSurface
  <2> QED
    BY <1>1, <1>2, <2>1, Worsens, Added
<1>4. /\ "ERROR" \notin found =>
           \A key \in ConfigKeys \ LenientKeys, s \in Side : c.answer[key][s] = "ok"
      /\ found \cap {"ERROR", "FAIL"} = {} =>
           Differences(c.value) \subseteq (FailedSettings(c, Side) \cap LenientKeys)
                                            \cup {"grouping"}
  BY SettingChecksSurface
<1> HIDE DEF found
<1>5. SettingsSurface'
  BY <1>1, <1>3, <1>4 DEF SettingsSurface, Failing
<1>6. RequestsSurface'
  <2>1. failed' = failed \cup FailedSettings(c, Side)
    BY <1>1 DEF Failing
  <2>2. "ERROR" \notin found => FailedSettings(c, Side) \subseteq Dropped
    BY <1>4 DEF FailedSettings, Dropped
  <2>3. ReportedAsFail \subseteq ReportedAsFail'
    BY <1>2 DEF ReportedAsFail
  <2>4. NoFailure' => NoError'
    BY DEF NoFailure
  <2> QED
    BY <1>3, <2>1, <2>2, <2>3, <2>4 DEF BucketInv, Surfaced, RequestsSurface
<1>7. VersionsSurface'
  <2>1. ASSUME NoError', keeping' PROVE versioned'
    <3> DEFINE v == c.value["versioning"]["source"]
    <3>1. c.answer["versioning"]["source"] = "ok"
      BY <1>3, <1>4, <2>1, ConfigKeysSpelled DEF LenientKeys, Side
    <3>2. v \in {"", "Enabled", "Suspended"}
      BY SettingsAssumption, ConfigKeysSpelled DEF Values, Side
    <3>3. v \in {"Enabled", "Suspended"}
      BY <1>1, <2>1, <3>2
    <3>4. Seen("versioning", v, c.answer["versioning"]["source"]) = v
      BY <3>1 DEF Seen, Canonical
    <3>5. KeepsVersions(v)
      BY <3>3 DEF KeepsVersions
    <3> HIDE DEF v
    <3> QED
      BY <1>1, <3>4, <3>5 DEF v
  <2> QED
    BY <1>2, <2>1 DEF VersionsSurface
<1>8. ChecksInOrder' /\ ObjectsInOrder' /\ Numbers'
  BY <1>2, <1>3 DEF BucketInv, ChecksInOrder, ObjectsInOrder, Numbers, Common
<1>9. PairsSurface' /\ ObjectsSurface'
  BY <1>2, <1>3 DEF BucketInv, ObjectsInOrder, Surfaced, PairsSurface, ObjectsSurface, Common
<1> QED
  BY <1>5, <1>6, <1>7, <1>8, <1>9 DEF BucketInv, Surfaced

\* A bucket that cannot be listed ends with an error.
LEMMA ListingFailsKeeps ==
  ASSUME TypeOK, BucketInv, ListingFails
  PROVE  BucketInv'
<1> DEFINE new == [n \in {"Object Listing"} |-> "ERROR"]
           found == {new[n] : n \in DOMAIN new}
<1>1. /\ phase = "listing" /\ phase' = "done" /\ DOMAIN checks \subseteq SettingNames
      /\ UNCHANGED <<cfg, versioned, differing, keeping, keysOn, pair, objects, summary>>
      /\ Add(new)
  BY DEF ListingFails, BucketInv, ChecksInOrder
<1>2. ~NoError'
  <2>1. DOMAIN new \cap DOMAIN checks = {}
    BY <1>1, NamesApart DEF KeyNames
  <2>2. "ERROR" \in found
    OBVIOUS
  <2> QED
    BY <1>1, <2>1, <2>2, Worsens, Zenon
<1>3. ~NoFailure' /\ ~NoWarning'
  BY <1>2 DEF NoFailure, NoWarning
<1>4. ChecksInOrder' /\ ObjectsInOrder' /\ Numbers'
  BY <1>1 DEF BucketInv, ChecksInOrder, ObjectsInOrder, Numbers, Common
<1>5. Surfaced'
  BY <1>1, <1>2, <1>3 DEF BucketInv, ObjectsInOrder, Surfaced, SettingsSurface, PairsSurface,
                          RequestsSurface, VersionsSurface, ObjectsSurface
<1> QED
  BY <1>4, <1>5 DEF BucketInv

\* A key that one side lacks is listed and has a check as bad as its status,
\* and the keys of each side are those of one side only and the common ones.
LEMMA ListKeeps ==
  ASSUME TypeOK, BucketInv, List
  PROVE  BucketInv'
<1>1. PICK on \in [Side -> SUBSET Keys] :
        LET missing == on["source"] \ on["target"]
            extra   == on["target"] \ on["source"]
        IN  /\ keysOn' = on
            /\ objects' = [k \in missing \cup extra |-> IF k \in missing THEN "FAIL" ELSE ExtraStatus]
            /\ summary' = [summary EXCEPT !.SourceObjects = Cardinality(on["source"]),
                                          !.TargetObjects = Cardinality(on["target"]),
                                          !.MissingObjects = Cardinality(missing),
                                          !.ExtraObjects = Cardinality(extra)]
            /\ Add(KeyChecks(on))
  BY DEF List
<1> DEFINE missing == on["source"] \ on["target"]
           extra   == on["target"] \ on["source"]
           both    == on["source"] \cap on["target"]
           found   == {KeyChecks(on)[n] : n \in DOMAIN KeyChecks(on)}
<1>2. /\ phase = "listing" /\ phase' = "compare" /\ DOMAIN checks \subseteq SettingNames
      /\ DOMAIN pair = {} /\ summary = NoSummary
      /\ UNCHANGED <<cfg, versioned, differing, keeping, pair, failed>>
  BY DEF List, BucketInv, ChecksInOrder, ObjectsInOrder
<1>3. /\ DOMAIN KeyChecks(on) = KeyNames
      /\ found \subseteq {"PASS", "WARN", "FAIL"}
      /\ missing # {} => "FAIL" \in found
      /\ extra # {} => ExtraStatus \in found \/ "FAIL" \in found
  BY KeyChecksSurface
<1>4. /\ NoError' => NoError
      /\ NoFailure' => NoFailure /\ found \cap {"ERROR", "FAIL"} = {}
      /\ NoWarning' => NoWarning /\ found \cap {"ERROR", "FAIL", "WARN"} = {}
      /\ "FAIL" \in found => ~NoFailure'
      /\ DOMAIN checks' = DOMAIN checks \cup KeyNames
      /\ ReportedAsFail \subseteq ReportedAsFail'
  <2>1. DOMAIN KeyChecks(on) \cap DOMAIN checks = {}
    BY <1>2, <1>3, NamesApart
  <2> QED
    BY <1>1, <1>3, <2>1, Worsens, Added, ReportedStays
<1> HIDE DEF found
<1>5. ExtraStatus \in {"WARN", "FAIL"} /\ ExtraStatus' = ExtraStatus
  BY <1>2 DEF ExtraStatus
<1>6. Common' = both /\ DOMAIN objects' = missing \cup extra
  BY <1>1 DEF Common
<1>7. Numbers'
  <2>1. /\ IsFiniteSet(missing) /\ IsFiniteSet(extra) /\ IsFiniteSet(both)
    <3>1. missing \in SUBSET Keys /\ extra \in SUBSET Keys /\ both \in SUBSET Keys
      BY DEF Side
    <3> QED
      BY <3>1, KeysAssumption, FS_Subset
  <2>2. on["source"] = missing \cup both /\ on["target"] = extra \cup both
    OBVIOUS
  <2>3. missing \cap both = {} /\ extra \cap both = {}
    OBVIOUS
  <2>4. /\ Cardinality(on["source"]) = Cardinality(missing) + Cardinality(both)
        /\ Cardinality(on["target"]) = Cardinality(extra) + Cardinality(both)
    <3> HIDE DEF missing, extra, both
    <3> QED
      BY <2>1, <2>2, <2>3, DisjointUnion
  <2>5. {k \in Common' \cap DOMAIN objects' : objects'[k] \in {"WARN", "FAIL"}} = {}
    BY <1>6
  <2>6. Cardinality({k \in Common' \cap DOMAIN objects' : objects'[k] \in {"WARN", "FAIL"}}) = 0
    BY <2>5, FS_EmptySet
  <2>7. /\ summary'["SourceObjects"] = Cardinality(on["source"])
        /\ summary'["TargetObjects"] = Cardinality(on["target"])
        /\ summary'["MissingObjects"] = Cardinality(missing)
        /\ summary'["ExtraObjects"] = Cardinality(extra)
        /\ summary'["MismatchedObjects"] = 0
    BY <1>1, <1>2 DEF NoSummary
  <2> HIDE DEF missing, extra, both
  <2> QED
    BY <1>6, <2>4, <2>6, <2>7 DEF Numbers
<1>8. ObjectsInOrder'
  BY <1>1, <1>2, <1>6 DEF ObjectsInOrder, NoSummary
<1>9. ChecksInOrder'
  BY <1>2, <1>4 DEF ChecksInOrder
<1>10. PairsSurface'
  <2>1. NoWarning' => missing = {} /\ extra = {}
    BY <1>3, <1>4, <1>5
  <2>2. missing = {} /\ extra = {} => keysOn'["source"] = keysOn'["target"]
    BY <1>1
  <2> QED
    BY <1>2, <2>1, <2>2 DEF PairsSurface
<1>11. ObjectsSurface'
  <2>1. ASSUME NEW k \in DOMAIN objects'
        PROVE  /\ objects'[k] = "FAIL" => ~NoFailure'
               /\ objects'[k] = "WARN" => ~NoWarning'
               /\ objects'[k] \notin {"PASS", "ERROR"}
    <3>1. CASE k \in missing
      <4>1. objects'[k] = "FAIL"
        BY <1>1, <3>1
      <4> QED
        BY <1>3, <1>4, <3>1, <4>1
    <3>2. CASE k \in extra
      <4>1. objects'[k] = ExtraStatus
        BY <1>1, <3>2
      <4> QED
        BY <1>3, <1>4, <1>5, <3>2, <4>1
    <3> QED
      BY <1>6, <2>1, <3>1, <3>2
  <2> QED
    BY <2>1 DEF ObjectsSurface
<1>12. SettingsSurface' /\ RequestsSurface' /\ VersionsSurface'
  BY <1>2, <1>4 DEF BucketInv, Surfaced, SettingsSurface, RequestsSurface, VersionsSurface
<1> QED
  BY <1>7, <1>8, <1>9, <1>10, <1>11, <1>12 DEF BucketInv, Surfaced

\* Every common key is counted in one way, and listed if it is not a match; a
\* key that is none has a check as bad as its status.
LEMMA CompareKeeps ==
  ASSUME TypeOK, BucketInv, Compare
  PROVE  BucketInv'
<1>1. PICK w \in [Common -> Outcomes] :
        LET listed == {k \in Common : Listed(cfg, w[k].p, w[k].o)}
        IN  /\ pair' = [k \in Common |-> w[k].p]
            /\ objects' = [k \in DOMAIN objects \cup listed |->
                             IF k \in listed THEN StatusIn(w, k) ELSE objects[k]]
            /\ summary' = [summary EXCEPT
                             !.MatchedObjects = Matched(w),
                             !.ErrorObjects = Errors(w),
                             !.MismatchedObjects = Cardinality(Common) - Matched(w) - Errors(w),
                             !.ETagInconclusive = CountReason(w, "etag-inconclusive")]
            /\ Add(ObjectChecks(w))
            /\ Failing(IF \E k \in Common : Errored(w[k].o) THEN {phase} ELSE {})
  BY DEF Compare
<1> DEFINE listed == {k \in Common : Listed(cfg, w[k].p, w[k].o)}
           found  == {ObjectChecks(w)[n] : n \in DOMAIN ObjectChecks(w)}
<1>2. /\ phase = "compare" /\ phase' = "versions"
      /\ DOMAIN checks \subseteq SettingNames \cup KeyNames
      /\ DOMAIN objects \cap Common = {}
      /\ UNCHANGED <<cfg, versioned, differing, keeping, keysOn>>
  BY DEF Compare, BucketInv, ChecksInOrder, ObjectsInOrder
<1>3. Common' = Common /\ (CountsOnce' <=> CountsOnce)
  BY <1>2 DEF Common, CountsOnce
<1>4. /\ "ERROR" \notin found =>
           \A k \in Common : ~Errored(w[k].o) /\ StatusIn(w, k) # "ERROR"
      /\ CountsOnce /\ found \cap {"ERROR", "FAIL"} = {} =>
           \A k \in Common : StatusIn(w, k) # "FAIL"
      /\ found \cap {"ERROR", "FAIL", "WARN"} = {} =>
           \A k \in Common : StatusIn(w, k) = "PASS"
  BY ObjectChecksSurface
<1>5. /\ NoError' => NoError /\ "ERROR" \notin found
      /\ NoFailure' => NoFailure /\ found \cap {"ERROR", "FAIL"} = {}
      /\ NoWarning' => NoWarning /\ found \cap {"ERROR", "FAIL", "WARN"} = {}
      /\ DOMAIN checks' \subseteq SettingNames \cup KeyNames \cup ObjectNames
      /\ ReportedAsFail \subseteq ReportedAsFail'
  <2>1. DOMAIN ObjectChecks(w) \subseteq ObjectNames
    BY ObjectChecksSpelled
  <2>2. DOMAIN ObjectChecks(w) \cap DOMAIN checks = {}
    BY <1>2, <2>1, NamesApart
  <2>3. Add(ObjectChecks(w))
    BY <1>1
  <2>4. DOMAIN checks' = DOMAIN checks \cup DOMAIN ObjectChecks(w)
    BY <2>2, <2>3, Added, Zenon
  <2>5. /\ NoError' => NoError /\ "ERROR" \notin found
        /\ NoFailure' => NoFailure /\ found \cap {"ERROR", "FAIL"} = {}
        /\ NoWarning' => NoWarning /\ found \cap {"ERROR", "FAIL", "WARN"} = {}
    BY <2>2, <2>3, Worsens, Zenon
  <2>6. ReportedAsFail \subseteq ReportedAsFail'
    BY <2>2, <2>3, ReportedStays, Zenon
  <2> QED
    BY <1>2, <2>1, <2>4, <2>5, <2>6
<1> HIDE DEF found
<1>6. /\ DOMAIN objects' = DOMAIN objects \cup listed
      /\ \A k \in listed : objects'[k] = StatusIn(w, k)
      /\ \A k \in DOMAIN objects \ Common : objects'[k] = objects[k]
      /\ listed \subseteq Common
  BY <1>1
<1>7. \A k \in Common : StatusIn(w, k) # "PASS" => k \in listed
  BY DEF StatusIn, Listed
<1> HIDE DEF listed
<1>8. Numbers'
  <2>1. {k \in Common : StatusIn(w, k) \in {"WARN", "FAIL"}}
          = {k \in Common \cap DOMAIN objects' : objects'[k] \in {"WARN", "FAIL"}}
    BY <1>2, <1>6, <1>7
  <2>2. Cardinality(Common) - Matched(w) - Errors(w)
          = Cardinality({k \in Common : StatusIn(w, k) \in {"WARN", "FAIL"}})
    BY CountersPartition
  <2>3. /\ summary'["SourceObjects"] = summary["SourceObjects"]
        /\ summary'["TargetObjects"] = summary["TargetObjects"]
        /\ summary'["MissingObjects"] = summary["MissingObjects"]
        /\ summary'["ExtraObjects"] = summary["ExtraObjects"]
        /\ summary'["MismatchedObjects"] = Cardinality(Common) - Matched(w) - Errors(w)
    BY <1>1 DEF TypeOK, NoSummary
  <2> QED
    BY <1>3, <2>1, <2>2, <2>3 DEF BucketInv, Numbers
<1>9. ChecksInOrder' /\ ObjectsInOrder'
  BY <1>2, <1>5 DEF ChecksInOrder, ObjectsInOrder
<1>10. PairsSurface'
  <2>1. ASSUME NoWarning', NEW k \in DOMAIN pair' PROVE Equivalent(cfg', pair'[k])
    <3>1. k \in Common /\ pair'[k] = w[k].p /\ cfg' = cfg
      BY <1>1, <1>2, <2>1
    <3>2. StatusIn(w, k) = "PASS"
      BY <1>4, <1>5, <2>1, <3>1
    <3>3. /\ cfg \in Configs /\ w[k].p \in Pairs /\ w[k].o \in Observation
          /\ Complete(cfg, w[k].p, w[k].o)
      BY <3>1 DEF TypeOK, Outcomes
    <3> QED
      BY <3>1, <3>2, <3>3, PassMeansEquivalent DEF StatusIn
  <2> QED
    BY <1>2, <1>5, <2>1 DEF BucketInv, Surfaced, PairsSurface
<1>11. RequestsSurface'
  <2>1. NoError' => failed' = failed
    BY <1>1, <1>4, <1>5 DEF Failing
  <2> QED
    BY <1>5, <2>1 DEF BucketInv, Surfaced, RequestsSurface, NoFailure
<1>12. ObjectsSurface'
  <2>1. ASSUME CountsOnce, NEW k \in DOMAIN objects'
        PROVE  /\ objects'[k] = "ERROR" => ~NoError'
               /\ objects'[k] = "FAIL" => ~NoFailure'
               /\ objects'[k] = "WARN" => ~NoWarning'
    <3>1. CASE k \in listed
      <4>1. objects'[k] = StatusIn(w, k) /\ k \in Common
        BY <1>6, <3>1
      <4> QED
        BY <1>4, <1>5, <2>1, <4>1
    <3>2. CASE k \in DOMAIN objects
      <4>1. objects'[k] = objects[k]
        BY <1>2, <1>6, <3>2
      <4> QED
        BY <1>5, <2>1, <3>2, <4>1 DEF BucketInv, Surfaced, ObjectsSurface
    <3> QED
      BY <1>6, <2>1, <3>1, <3>2
  <2>2. ASSUME NEW k \in DOMAIN objects', objects'[k] = "PASS" PROVE k \in Common
    BY <1>2, <1>6, <2>2 DEF BucketInv, Surfaced, ObjectsSurface
  <2> QED
    BY <1>3, <2>1, <2>2 DEF ObjectsSurface
<1>13. SettingsSurface' /\ VersionsSurface'
  <2>1. failed \subseteq failed'
    BY <1>1 DEF Failing
  <2> QED
    BY <1>2, <1>5, <2>1 DEF BucketInv, Surfaced, SettingsSurface, VersionsSurface
<1> QED
  BY <1>8, <1>9, <1>10, <1>11, <1>12, <1>13 DEF BucketInv, Surfaced

\* Histories that are to be compared and do not match fail the bucket.
LEMMA VersionsKeeps ==
  ASSUME TypeOK, BucketInv, Versions
  PROVE  BucketInv'
<1>1. PICK st \in VersionsStatuses : /\ Add([n \in {"Versions"} |-> st])
                                     /\ Failing(IF st = "ERROR" THEN {phase} ELSE {})
  BY DEF Versions
<1> DEFINE new == [n \in {"Versions"} |-> st]
           found == {new[n] : n \in DOMAIN new}
<1>2. /\ phase = "versions" /\ phase' \in {"smoke", "done"}
      /\ DOMAIN checks \subseteq SettingNames \cup KeyNames \cup ObjectNames
      /\ UNCHANGED <<cfg, versioned, differing, keeping, keysOn, pair, objects, summary>>
  BY DEF Versions, BucketInv, ChecksInOrder
<1>3. DOMAIN new = {"Versions"} /\ new["Versions"] = st /\ found = {st}
  OBVIOUS
<1>4. /\ NoError' => NoError /\ "ERROR" \notin found
      /\ NoFailure' => NoFailure /\ found \cap {"ERROR", "FAIL"} = {}
      /\ NoWarning' => NoWarning
      /\ DOMAIN checks' = DOMAIN checks \cup {"Versions"} /\ checks'["Versions"] = st
      /\ ReportedAsFail \subseteq ReportedAsFail'
  <2>1. DOMAIN new \cap DOMAIN checks = {}
    BY <1>2, <1>3, NamesApart
  <2>2. Add(new)
    BY <1>1
  <2> HIDE DEF new
  <2>3. DOMAIN checks' = DOMAIN checks \cup {"Versions"} /\ checks'["Versions"] = st
    BY <1>3, <2>1, <2>2, Added
  <2>4. /\ NoError' => NoError /\ "ERROR" \notin found
        /\ NoFailure' => NoFailure /\ found \cap {"ERROR", "FAIL"} = {}
        /\ NoWarning' => NoWarning
    BY <2>1, <2>2, Worsens, Zenon
  <2>5. ReportedAsFail \subseteq ReportedAsFail'
    BY <2>1, <2>2, ReportedStays
  <2> QED
    BY <2>3, <2>4, <2>5
<1> HIDE DEF found
<1>5. VersionsSurface'
  <2>1. doVersions' <=> doVersions
    BY <1>2 DEF doVersions
  <2>2. NoFailure' /\ doVersions => st = "PASS"
    BY <1>3, <1>4 DEF VersionsStatuses
  <2> QED
    BY <1>2, <1>4, <2>1, <2>2 DEF BucketInv, Surfaced, VersionsSurface
<1>6. RequestsSurface' /\ failed \subseteq failed'
  <2>1. NoError' => failed' = failed
    BY <1>1, <1>3, <1>4 DEF Failing
  <2>2. failed \subseteq failed'
    BY <1>1 DEF Failing
  <2> QED
    BY <1>4, <2>1, <2>2 DEF BucketInv, Surfaced, RequestsSurface, NoFailure
<1>7. ChecksInOrder' /\ ObjectsInOrder' /\ Numbers'
  BY <1>2, <1>4 DEF BucketInv, ChecksInOrder, ObjectsInOrder, Numbers, Common
<1>8. SettingsSurface' /\ PairsSurface' /\ ObjectsSurface'
  BY <1>2, <1>4, <1>6 DEF BucketInv, Surfaced, SettingsSurface, PairsSurface, ObjectsSurface,
                          CountsOnce, Common
<1> QED
  BY <1>5, <1>6, <1>7, <1>8 DEF BucketInv, Surfaced

\* The smoke test takes nothing back, and is failed by its requests, all but
\* the last.
LEMMA SmokeKeeps ==
  ASSUME TypeOK, BucketInv, Smoke
  PROVE  BucketInv'
<1>1. PICK st \in SmokeStatuses : /\ Add([n \in {"App Smoke Test"} |-> st])
                                  /\ \E names \in SmokeFailures(st) : Failing(names)
  BY DEF Smoke
<1> DEFINE new == [n \in {"App Smoke Test"} |-> st]
           found == {new[n] : n \in DOMAIN new}
<1>2. /\ phase = "smoke" /\ phase' = "done"
      /\ DOMAIN checks \subseteq SettingNames \cup KeyNames \cup ObjectNames \cup {"Versions"}
      /\ UNCHANGED <<cfg, versioned, differing, keeping, keysOn, pair, objects, summary>>
  BY DEF Smoke, BucketInv, ChecksInOrder
<1>3. found = {st}
  OBVIOUS
<1>4. /\ NoError' => NoError
      /\ NoFailure' => NoFailure /\ found \cap {"ERROR", "FAIL"} = {}
      /\ NoWarning' => NoWarning
      /\ DOMAIN checks \subseteq DOMAIN checks'
      /\ \A n \in DOMAIN checks : checks'[n] = checks[n]
      /\ ReportedAsFail \subseteq ReportedAsFail'
  <2>1. DOMAIN new \cap DOMAIN checks = {}
    BY <1>2, NamesApart
  <2>2. Add(new)
    BY <1>1
  <2> HIDE DEF new
  <2> QED
    BY <2>1, <2>2, Worsens, Added, ReportedStays
<1> HIDE DEF found
<1>5. RequestsSurface' /\ failed \subseteq failed'
  <2>1. PICK names \in SmokeFailures(st) : failed' = failed \cup names
    BY <1>1 DEF Failing
  <2>2. names \subseteq {"recheck", "smoke"} /\ (st = "PASS" => names \subseteq {"recheck"})
    BY <1>2, <2>1 DEF SmokeFailures
  <2>3. NoFailure' => st = "PASS"
    BY <1>3, <1>4 DEF SmokeStatuses
  <2>4. "recheck" \in Dropped /\ "smoke" \in ReportedAsFail'
    BY DEF Dropped, ReportedAsFail
  <2> QED
    BY <1>4, <2>1, <2>2, <2>3, <2>4 DEF BucketInv, Surfaced, RequestsSurface
<1>6. VersionsSurface'
  BY <1>2, <1>4 DEF BucketInv, Surfaced, VersionsSurface, doVersions
<1>7. ChecksInOrder' /\ ObjectsInOrder' /\ Numbers'
  BY <1>2 DEF BucketInv, ChecksInOrder, ObjectsInOrder, Numbers, Common
<1>8. SettingsSurface' /\ PairsSurface' /\ ObjectsSurface'
  BY <1>2, <1>4, <1>5 DEF BucketInv, Surfaced, SettingsSurface, PairsSurface,
                          ObjectsSurface, CountsOnce, Common
<1> QED
  BY <1>5, <1>6, <1>7, <1>8 DEF BucketInv, Surfaced

\* What was found has its check in every state.
LEMMA BucketInvHolds == Spec => [](TypeOK /\ BucketInv)
<1>1. ASSUME Init PROVE BucketInv
  <2>1. DOMAIN checks = {} /\ DOMAIN pair = {} /\ DOMAIN objects = {} /\ Common = {}
    <3>1. keysOn["source"] = {}
      BY <1>1 DEF Init, Side
    <3>2. DOMAIN checks = {} /\ DOMAIN pair = {} /\ DOMAIN objects = {}
      BY <1>1 DEF Init
    <3> QED
      BY <3>1, <3>2 DEF Common
  <2>2. \A S : {k \in Common \cap DOMAIN objects : objects[k] \in S} = {}
    BY <2>1
  <2>3. Numbers
    BY <1>1, <2>1, <2>2, FS_EmptySet DEF Init, Numbers, NoSummary
  <2>4. ChecksInOrder /\ ObjectsInOrder
    BY <1>1, <2>1 DEF Init, ChecksInOrder, ObjectsInOrder
  <2>5. Surfaced
    BY <1>1, <2>1 DEF Init, Surfaced, SettingsSurface, PairsSurface, RequestsSurface,
                      VersionsSurface, ObjectsSurface, Side
  <2> QED
    BY <2>3, <2>4, <2>5 DEF BucketInv
<1>2. TypeOK /\ BucketInv /\ [Next \/ Done]_vars => BucketInv'
  <2>1. ASSUME BucketInv, UNCHANGED vars PROVE BucketInv'
    <3>1. /\ UNCHANGED <<cfg, phase, checks, versioned, differing, keeping, keysOn, pair, objects>>
          /\ UNCHANGED <<summary, failed>>
          /\ UNCHANGED <<ReportedAsFail, NoError, NoFailure, NoWarning, Common, CountsOnce, doVersions>>
      BY <2>1 DEF vars, ReportedAsFail, NoWarning, NoFailure, NoError, Statuses, Common,
                  CountsOnce, doVersions
    <3>2. ChecksInOrder' /\ ObjectsInOrder' /\ Numbers'
      BY <2>1, <3>1 DEF BucketInv, ChecksInOrder, ObjectsInOrder, Numbers
    <3>3. SettingsSurface' /\ PairsSurface' /\ RequestsSurface'
      BY <2>1, <3>1 DEF BucketInv, Surfaced, SettingsSurface, PairsSurface, RequestsSurface
    <3>4. VersionsSurface' /\ ObjectsSurface'
      BY <2>1, <3>1 DEF BucketInv, Surfaced, VersionsSurface, ObjectsSurface
    <3> QED
      BY <3>2, <3>3, <3>4 DEF BucketInv, Surfaced
  <2> QED
    BY <2>1, BucketMissingKeeps, CompareConfigKeeps, ListingFailsKeeps, ListKeeps, CompareKeeps,
       VersionsKeeps, SmokeKeeps DEF Next, Done
<1> QED
  BY <1>1, <1>2, TypeCorrect, PTL DEF Spec

-----------------------------------------------------------------------------
(* What the report says of a bucket.                                       *)

\* Every key is counted in exactly one way on each side.
THEOREM NumbersFit == Spec => []NumbersAddUp
<1>1. BucketInv => NumbersAddUp
  BY DEF BucketInv, Numbers, NumbersAddUp
<1> QED
  BY <1>1, BucketInvHolds, PTL

\* A bucket that passes was migrated.
THEOREM PassIsMigrated == Spec => []PassMeansMigrated
<1>1. TypeOK /\ BucketInv => PassMeansMigrated
  <2> SUFFICES ASSUME TypeOK, BucketInv, Overall = "PASS" PROVE PassMeansMigrated
    BY DEF PassMeansMigrated
  <2>1. NoWarning /\ NoFailure
    BY OverallSpelled DEF NoWarning
  <2> QED
    BY <2>1 DEF BucketInv, Surfaced, SettingsSurface, PairsSurface, PassMeansMigrated
<1> QED
  BY <1>1, BucketInvHolds, PTL

\* A request that failed makes the bucket an error, whatever comes after it, or
\* a failure where nothing more is reported; only the lock's error without a
\* code and that of the HEAD after the smoke test's deletion may pass.
THEOREM FailedRequestsSurface == Spec => []FailuresSurface
<1>1. TypeOK /\ BucketInv => FailuresSurface
  <2> SUFFICES ASSUME TypeOK, BucketInv PROVE FailuresSurface
    OBVIOUS
  <2>1. /\ NoError => failed \subseteq Dropped \cup ReportedAsFail
        /\ NoFailure => failed \subseteq Dropped
    BY DEF BucketInv, Surfaced, RequestsSurface
  <2>2. /\ Overall # "ERROR" => NoError
        /\ Overall \notin {"FAIL", "ERROR"} => NoFailure
    <3>1. Overall \in {"PASS", "WARN", "FAIL", "ERROR"}
      BY OverallIsFinal DEF FinalStatus
    <3> QED
      BY <3>1, OverallSpelled
  <2> QED
    BY <2>1, <2>2 DEF FailuresSurface
<1> QED
  BY <1>1, BucketInvHolds, PTL

\* No object listed is worse than the bucket, and one listed as PASS is common.
THEOREM ListedIsBacked == Spec => []ObjectsAreBacked
<1>1. TypeOK /\ BucketInv => ObjectsAreBacked
  <2> SUFFICES ASSUME TypeOK, BucketInv PROVE ObjectsAreBacked
    OBVIOUS
  <2>1. /\ Overall = "ERROR" \/ NoError
        /\ Overall \in {"FAIL", "ERROR"} \/ NoFailure
        /\ Overall \in {"WARN", "FAIL", "ERROR"} \/ NoWarning
        /\ Overall \in Status
    <3>1. Overall \in {"PASS", "WARN", "FAIL", "ERROR"}
      BY OverallIsFinal DEF FinalStatus
    <3> QED
      BY <3>1, OverallSpelled DEF Status
  <2>2. ASSUME CountsOnce, NEW k \in DOMAIN objects PROVE ~Worse(objects[k], Overall)
    <3>1. objects[k] \in {"PASS", "WARN", "FAIL", "ERROR"}
      BY <2>2 DEF TypeOK, FinalStatus
    <3>2. /\ objects[k] = "ERROR" => Overall = "ERROR"
          /\ objects[k] = "FAIL" => Overall \in {"FAIL", "ERROR"}
          /\ objects[k] = "WARN" => Overall \in {"WARN", "FAIL", "ERROR"}
      BY <2>1, <2>2 DEF BucketInv, Surfaced, ObjectsSurface
    <3> QED
      BY <2>1, <3>1, <3>2, RankSpelled, RankOrdersStatus DEF Worse
  <2> QED
    BY <2>2 DEF BucketInv, Surfaced, ObjectsSurface, ObjectsAreBacked, CountsOnce
<1> QED
  BY <1>1, BucketInvHolds, PTL

\* A bucket whose source keeps or kept versions does not end well unless its
\* histories matched or were not to be compared.
THEOREM HistoriesAreCompared == Spec => []HistoriesNeverSkipped
<1>1. TypeOK /\ BucketInv => HistoriesNeverSkipped
  <2> SUFFICES ASSUME TypeOK, BucketInv, phase = "done", Overall \in {"PASS", "WARN"},
                      keeping, cfg.CheckVersions # "off"
               PROVE  checks["Versions"] = "PASS"
    BY DEF HistoriesNeverSkipped
  <2>1. NoFailure /\ NoError
    BY OverallSpelled DEF NoFailure
  <2>2. doVersions
    BY <2>1, BucketConfigsAssumption
       DEF BucketInv, Surfaced, VersionsSurface, doVersions, TypeOK
  <2> QED
    BY <2>1, <2>2 DEF BucketInv, Surfaced, VersionsSurface
<1> QED
  BY <1>1, BucketInvHolds, PTL

\* No phase takes back what an earlier one found.
THEOREM StatusNeverImproves == Spec => NeverImproves
<1>1. TypeOK /\ TypeOK' /\ BucketInv /\ [Next \/ Done]_vars => [~Worse(Overall, Overall')]_vars
  <2> SUFFICES ASSUME TypeOK, TypeOK', BucketInv, Next PROVE ~Worse(Overall, Overall')
    BY DEF Done
  <2>1. Statuses \subseteq Statuses'
    <3>1. ASSUME NEW new, DOMAIN new \cap DOMAIN checks = {}, Add(new)
          PROVE  Statuses \subseteq Statuses'
      BY <3>1, Added
    <3>2. CASE BucketMissing
      BY <3>1, <3>2 DEF BucketMissing, BucketInv, ChecksInOrder
    <3>3. CASE CompareConfig
      BY <3>1, <3>3 DEF CompareConfig, BucketInv, ChecksInOrder
    <3>4. CASE ListingFails
      <4>1. DOMAIN [n \in {"Object Listing"} |-> "ERROR"] \cap DOMAIN checks = {}
        BY <3>4, NamesApart DEF ListingFails, BucketInv, ChecksInOrder, KeyNames
      <4> QED
        BY <3>1, <3>4, <4>1 DEF ListingFails
    <3>5. CASE List
      <4>1. PICK on : Add(KeyChecks(on))
        BY <3>5 DEF List
      <4>2. DOMAIN KeyChecks(on) \cap DOMAIN checks = {}
        BY <3>5, NamesApart, KeyChecksSurface DEF List, BucketInv, ChecksInOrder
      <4> QED
        BY <3>1, <4>1, <4>2
    <3>6. CASE Compare
      <4>1. PICK w : Add(ObjectChecks(w))
        BY <3>6 DEF Compare
      <4>2. DOMAIN ObjectChecks(w) \cap DOMAIN checks = {}
        BY <3>6, NamesApart, ObjectChecksSpelled DEF Compare, BucketInv, ChecksInOrder
      <4> QED
        BY <3>1, <4>1, <4>2
    <3>7. CASE Versions
      <4>1. PICK st : Add([n \in {"Versions"} |-> st])
        BY <3>7 DEF Versions
      <4>2. DOMAIN [n \in {"Versions"} |-> st] \cap DOMAIN checks = {}
        BY <3>7, NamesApart DEF Versions, BucketInv, ChecksInOrder
      <4> QED
        BY <3>1, <4>1, <4>2
    <3>8. CASE Smoke
      <4>1. PICK st : Add([n \in {"App Smoke Test"} |-> st])
        BY <3>8 DEF Smoke
      <4>2. DOMAIN [n \in {"App Smoke Test"} |-> st] \cap DOMAIN checks = {}
        BY <3>8, NamesApart DEF Smoke, BucketInv, ChecksInOrder
      <4> QED
        BY <3>1, <4>1, <4>2
    <3> QED
      BY <3>2, <3>3, <3>4, <3>5, <3>6, <3>7, <3>8 DEF Next
  <2>2. Statuses \in SUBSET Status /\ Statuses' \in SUBSET Status
    BY DEF Statuses, TypeOK
  <2> QED
    BY <2>1, <2>2, BucketStatusIsMonotone DEF Overall
<1> QED
  BY <1>1, BucketInvHolds, PTL DEF Spec, NeverImproves
=============================================================================
