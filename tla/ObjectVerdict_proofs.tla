------------------------- MODULE ObjectVerdict_proofs -------------------------
(***************************************************************************)
(* What the roll-up of a report makes of any statuses, and what the        *)
(* verdict of one worker is worth, for any options, any copies and any     *)
(* outcome of its requests.  The worker pool, the bucket, the run and the  *)
(* object that moves are proved from these facts.                          *)
(***************************************************************************)
EXTENDS ObjectVerdict, TLAPS

-----------------------------------------------------------------------------
(* The roll-up.                                                            *)

\* The rank of each status.
LEMMA RankSpelled ==
  /\ rank("PASS") = 0 /\ rank("N/A") = 1 /\ rank("SKIPPED") = 2
  /\ rank("WARN") = 3 /\ rank("FAIL") = 4 /\ rank("ERROR") = 5
BY Zenon DEF rank

\* No two statuses have the same rank, and PASS has the lowest.
LEMMA RankOrdersStatus ==
  /\ \A s \in Status : rank(s) \in 0 .. 5
  /\ \A s, t \in Status : rank(s) = rank(t) => s = t
  /\ \A s \in Status : ~Worse("PASS", s)
  /\ "PASS" \in Status
BY RankSpelled DEF Status, Worse

\* Among statuses there is one that nothing is worse than.
LEMMA WorstExists ==
  ASSUME NEW S \in SUBSET Status
  PROVE  \E s \in S \cup {"PASS"} : \A t \in S \cup {"PASS"} : ~Worse(t, s)
<1> DEFINE T == S \cup {"PASS"}
<1>1. CASE "ERROR" \in T
  BY <1>1, RankSpelled DEF Status, Worse
<1>2. CASE "ERROR" \notin T /\ "FAIL" \in T
  BY <1>2, RankSpelled DEF Status, Worse
<1>3. CASE {"ERROR", "FAIL"} \cap T = {} /\ "WARN" \in T
  BY <1>3, RankSpelled DEF Status, Worse
<1>4. CASE {"ERROR", "FAIL", "WARN"} \cap T = {} /\ "SKIPPED" \in T
  BY <1>4, RankSpelled DEF Status, Worse
<1>5. CASE {"ERROR", "FAIL", "WARN", "SKIPPED"} \cap T = {} /\ "N/A" \in T
  BY <1>5, RankSpelled DEF Status, Worse
<1>6. CASE {"ERROR", "FAIL", "WARN", "SKIPPED", "N/A"} \cap T = {}
  BY <1>6, RankSpelled DEF Status, Worse
<1> QED
  BY <1>1, <1>2, <1>3, <1>4, <1>5, <1>6

\* The fold takes one of the statuses, or PASS, and none is worse.
LEMMA WorstIsWorst ==
  ASSUME NEW S \in SUBSET Status
  PROVE  /\ Worst(S) \in S \cup {"PASS"}
         /\ Worst(S) \in Status
         /\ \A t \in S \cup {"PASS"} : ~Worse(t, Worst(S))
BY WorstExists, RankOrdersStatus DEF Worst

\* The status of a bucket, spelled out: the first of ERROR, FAIL and WARN that
\* one of its checks has, and PASS if none has.
THEOREM BucketStatusIsWorst ==
  ASSUME NEW S \in SUBSET Status
  PROVE  BucketStatus(S) = IF "ERROR" \in S THEN "ERROR"
                           ELSE IF "FAIL" \in S THEN "FAIL"
                           ELSE IF "WARN" \in S THEN "WARN" ELSE "PASS"
<1>1. Worst(S) \in S \cup {"PASS"} /\ Worst(S) \in Status
  BY WorstIsWorst
<1>2. \A t \in S : ~Worse(t, Worst(S))
  BY WorstIsWorst
<1>3. \A t \in S : rank(t) <= rank(Worst(S))
  BY <1>1, <1>2, RankOrdersStatus DEF Worse
<1>4. CASE "ERROR" \in S
  <2>1. Worst(S) = "ERROR"
    BY <1>1, <1>3, <1>4, RankSpelled DEF Status
  <2> QED
    BY <1>4, <2>1 DEF BucketStatus, Normalised
<1>5. CASE "ERROR" \notin S /\ "FAIL" \in S
  <2>1. Worst(S) = "FAIL"
    BY <1>1, <1>3, <1>5, RankSpelled DEF Status
  <2> QED
    BY <1>5, <2>1 DEF BucketStatus, Normalised
<1>6. CASE "ERROR" \notin S /\ "FAIL" \notin S /\ "WARN" \in S
  <2>1. Worst(S) = "WARN"
    BY <1>1, <1>3, <1>6, RankSpelled DEF Status
  <2> QED
    BY <1>6, <2>1 DEF BucketStatus, Normalised
<1>7. CASE "ERROR" \notin S /\ "FAIL" \notin S /\ "WARN" \notin S
  BY <1>1, <1>7 DEF BucketStatus, Normalised, Status
<1> QED
  BY <1>4, <1>5, <1>6, <1>7

\* A bucket ends with one of the four statuses the exit code knows.
LEMMA BucketStatusIsFinal ==
  ASSUME NEW S \in SUBSET Status
  PROVE  BucketStatus(S) \in FinalStatus
BY BucketStatusIsWorst DEF FinalStatus

\* Another check never improves the status of a bucket.
LEMMA BucketStatusIsMonotone ==
  ASSUME NEW S \in SUBSET Status, NEW T \in SUBSET Status, S \subseteq T
  PROVE  ~Worse(BucketStatus(S), BucketStatus(T))
<1>1. /\ BucketStatus(S) = IF "ERROR" \in S THEN "ERROR" ELSE IF "FAIL" \in S THEN "FAIL"
                           ELSE IF "WARN" \in S THEN "WARN" ELSE "PASS"
      /\ BucketStatus(T) = IF "ERROR" \in T THEN "ERROR" ELSE IF "FAIL" \in T THEN "FAIL"
                           ELSE IF "WARN" \in T THEN "WARN" ELSE "PASS"
  BY BucketStatusIsWorst
<1> QED
  BY <1>1, RankSpelled DEF Worse

\* The status of a run is the worst of its own checks and of all the checks of
\* its buckets: normalising bucket by bucket hides nothing.
THEOREM OverallStatusIsWorst ==
  ASSUME NEW G \in SUBSET Status, NEW B \in SUBSET (SUBSET Status)
  PROVE  OverallStatus(G, B) = BucketStatus(G \cup UNION B)
<1> DEFINE S == {BucketStatus(c) : c \in B}
           A == G \cup UNION B
<1>1. S \in SUBSET Status /\ A \in SUBSET Status
  BY BucketStatusIsFinal DEF FinalStatus, Status
<1>2. OverallStatus(G, B) = BucketStatus(G \cup S)
  BY DEF OverallStatus, BucketStatus
<1>3. \A c \in B : BucketStatus(c) = IF "ERROR" \in c THEN "ERROR" ELSE IF "FAIL" \in c THEN "FAIL"
                                     ELSE IF "WARN" \in c THEN "WARN" ELSE "PASS"
  BY BucketStatusIsWorst
<1>4. BucketStatus(G \cup S) = IF "ERROR" \in G \cup S THEN "ERROR"
                               ELSE IF "FAIL" \in G \cup S THEN "FAIL"
                               ELSE IF "WARN" \in G \cup S THEN "WARN" ELSE "PASS"
  <2>1. G \cup S \in SUBSET Status
    BY <1>1
  <2> QED
    BY <2>1, BucketStatusIsWorst
<1>5. BucketStatus(A) = IF "ERROR" \in A THEN "ERROR" ELSE IF "FAIL" \in A THEN "FAIL"
                        ELSE IF "WARN" \in A THEN "WARN" ELSE "PASS"
  BY <1>1, BucketStatusIsWorst
<1>6. /\ "ERROR" \in S <=> "ERROR" \in UNION B
      /\ "FAIL" \in S => "FAIL" \in UNION B
      /\ "WARN" \in S => "WARN" \in UNION B
  BY <1>3
<1>7. /\ "FAIL" \in UNION B => {"ERROR", "FAIL"} \cap S # {}
      /\ "WARN" \in UNION B => {"ERROR", "FAIL", "WARN"} \cap S # {}
  BY <1>3
<1> QED
  BY <1>2, <1>4, <1>5, <1>6, <1>7

-----------------------------------------------------------------------------
(* The verdict.                                                            *)

\* Every component of an option record and of a pair has the type the
\* assumptions on the constants give it.
LEMMA InputsTyped ==
  /\ \A c \in Configs : /\ c.Level \in 1 .. 3
                        /\ c.Concurrency \in Nat \ {0}
                        /\ c.MaxDeepBytes \in Int
                        /\ c.DeepOnInconclusive \in BOOLEAN
                        /\ c.CheckTags \in BOOLEAN
  /\ \A p \in Pairs : p["source"].size \in Nat /\ p["target"].size \in Nat
BY ConfigsAssumption, PairsAssumption DEF Side

\* The reasons of a worker are a bag: how often each is in its list.
LEMMA ReasonsTyped ==
  ASSUME NEW c \in Configs, NEW p, NEW o
  PROVE  Reasons(c, p, o) \in [Reason -> Nat]
BY DEF Reasons, Reason, One

\* What a HEAD request may end with at a level is an outcome.
LEMMA HeadOutcomesTyped ==
  ASSUME NEW c \in Configs
  PROVE  HeadOutcomes(c) \subseteq HeadOutcome
BY DEF HeadOutcomes, HeadOutcome

\* Whether a download is needed depends on the HEAD answers alone.
LEMMA NeedDeepOfHead ==
  ASSUME NEW c, NEW p, NEW o1, NEW o2, o1.head = o2.head
  PROVE  NeedDeep(c, p, o1) <=> NeedDeep(c, p, o2)
BY DEF NeedDeep, compareETags, SeenEncrypted, HeadFailed

\* The reasons of a worker, one by one.
LEMMA ReasonsSpelled ==
  ASSUME NEW c, NEW p, NEW o
  PROVE  /\ Reasons(c, p, o)["size"] = One(~SameSize(p))
         /\ Reasons(c, p, o)["contentType"]
              = One(Headed(o) /\ p["source"].contentType # p["target"].contentType)
         /\ Reasons(c, p, o)["metadata"]
              = One(Headed(o) /\ diffMaps(Metadata(c, p["source"]), Metadata(c, p["target"])))
         /\ Reasons(c, p, o)["tags"]
              = One(Headed(o) /\ c.CheckTags /\ diffMaps(p["source"].tags, p["target"].tags))
         /\ Reasons(c, p, o)["etag"] = One(compareETags(p, o) = "mismatch")
         /\ Reasons(c, p, o)["etag-inconclusive"]
              = IF compareETags(p, o) # "inconclusive" THEN 0
                ELSE One(SameSize(p) /\ ~c.DeepOnInconclusive) + One(o.deep = "denied")
         /\ Reasons(c, p, o)["content"] = One(Hashed(o) /\ ~SameContent(p))
BY DEF Reasons, Reason

\* A worker that did not fail has both HEAD answers, from level 2 on, and both
\* hashes of a download that was granted.
LEMMA JudgedIsHeaded ==
  ASSUME NEW c \in Configs, NEW p, NEW o \in Observation, Complete(c, p, o), ~Errored(o)
  PROVE  /\ c.Level >= 2 => Headed(o)
         /\ ~HeadFailed(o)
         /\ o.deep = "granted" => Hashed(o)
<1>1. \A s \in Side : o.head[s] \in HeadOutcomes(c) /\ o.head[s] \notin {"statErr", "tagErr"}
  BY DEF Complete, Errored, HeadFailed
<1>2. c.Level >= 2 => Headed(o)
  BY <1>1, InputsTyped DEF HeadOutcomes, Headed
<1>3. ~HeadFailed(o)
  BY DEF Errored
<1>4. o.deep = "granted" => \A s \in Side : o.get[s] # "none" /\ o.get[s] # "err"
  BY DEF Complete, Errored
<1>5. o.deep = "granted" => Hashed(o)
  BY <1>4 DEF Observation, Hashed
<1> QED
  BY <1>2, <1>3, <1>5

\* What a PASS says of the copies as they were seen: the same size and, from
\* level 2 on, attributes; and either the same ETag or the same hash.
LEMMA PassIsExplained ==
  ASSUME NEW c \in Configs, NEW p, NEW o \in Observation,
         Complete(c, p, o), StatusOf(c, p, o) = "PASS"
  PROVE  /\ c.Level >= 2 => Headed(o) /\ SameAttributes(c, p)
         /\ \/ compareETags(p, o) = "match"
            \/ Hashed(o) /\ SameContent(p)
<1>1. ~Errored(o) /\ \A r \in Reason : Reasons(c, p, o)[r] = 0
  BY DEF StatusOf
<1>2. /\ c.Level >= 2 => Headed(o)
      /\ ~HeadFailed(o)
      /\ o.deep = "granted" => Hashed(o)
  BY <1>1, JudgedIsHeaded
<1>3. SameSize(p)
  <2>1. One(~SameSize(p)) = 0
    BY <1>1, ReasonsSpelled DEF Reason
  <2> QED
    BY <2>1 DEF One
<1>4. c.Level >= 2 => SameAttributes(c, p)
  <2>1. /\ One(Headed(o) /\ p["source"].contentType # p["target"].contentType) = 0
        /\ One(Headed(o) /\ diffMaps(Metadata(c, p["source"]), Metadata(c, p["target"]))) = 0
        /\ One(Headed(o) /\ c.CheckTags /\ diffMaps(p["source"].tags, p["target"].tags)) = 0
    BY <1>1, ReasonsSpelled DEF Reason
  <2> QED
    BY <1>2, <2>1 DEF One, diffMaps, SameAttributes
<1>5. compareETags(p, o) # "mismatch"
  <2>1. One(compareETags(p, o) = "mismatch") = 0
    BY <1>1, ReasonsSpelled DEF Reason
  <2> QED
    BY <2>1 DEF One
<1>6. ASSUME compareETags(p, o) = "inconclusive" PROVE Hashed(o) /\ SameContent(p)
  <2>1. One(SameSize(p) /\ ~c.DeepOnInconclusive) + One(o.deep = "denied") = 0
    BY <1>1, <1>6, ReasonsSpelled DEF Reason
  <2>2. c.DeepOnInconclusive /\ o.deep # "denied"
    BY <1>3, <2>1, InputsTyped DEF One
  <2>3. NeedDeep(c, p, o)
    BY <1>2, <1>3, <1>6, <2>2 DEF NeedDeep
  <2>4. Hashed(o)
    BY <1>2, <2>2, <2>3 DEF Complete, Observation
  <2>5. One(Hashed(o) /\ ~SameContent(p)) = 0
    BY <1>1, ReasonsSpelled DEF Reason
  <2> QED
    BY <2>4, <2>5 DEF One
<1> QED
  BY <1>2, <1>4, <1>5, <1>6 DEF compareETags

\* No reason at all is left for a PASS.
LEMMA PassMeansEquivalent ==
  ASSUME NEW c \in Configs, NEW p \in Pairs, NEW o \in Observation,
         Complete(c, p, o), StatusOf(c, p, o) = "PASS"
  PROVE  Equivalent(c, p)
<1>1. SameContent(p)
  BY PassIsExplained, ETagFidelity DEF compareETags
<1> QED
  BY <1>1, PassIsExplained DEF Equivalent

\* At level 2 and above the HEAD answers have told which ETags are digests.
LEMMA VerdictOfETags ==
  ASSUME NEW c \in Configs, NEW p \in Pairs, NEW o \in Observation,
         Headed(o)
  PROVE  /\ compareETags(p, o) = "match" <=> p["source"].etag = p["target"].etag
         /\ compareETags(p, o) = "inconclusive" <=> Incomparable(p)
BY DEF Headed, SeenEncrypted, Incomparable, compareETags

\* Unless all objects are downloaded within a cap and not because they are
\* inconclusive, an inconclusive ETag is given as a reason once at most.
LEMMA InconclusiveOnce ==
  ASSUME NEW c \in Configs, NEW p, NEW o \in Observation, Complete(c, p, o),
         c.Level = 3 /\ c.MaxDeepBytes > 0 => c.DeepOnInconclusive
  PROVE  Reasons(c, p, o)["etag-inconclusive"] \in 0 .. 1
<1>0. c.Level \in 1 .. 3 /\ c.MaxDeepBytes \in Int
  BY InputsTyped
<1>1. CASE compareETags(p, o) # "inconclusive"
  BY <1>1, ReasonsSpelled
<1>2. ASSUME o.deep = "denied", ~c.DeepOnInconclusive PROVE FALSE
  BY <1>0, <1>2, InputsTyped DEF Complete, NeedDeep
<1>3. One(SameSize(p) /\ ~c.DeepOnInconclusive) + One(o.deep = "denied") \in 0 .. 1
  BY <1>2 DEF One
<1> QED
  BY <1>1, <1>3, ReasonsSpelled

\* Under a sound configuration two reasons of which one is inconclusive
\* include a difference that was seen, and so does one that is not inconclusive.
LEMMA FailIsExplained ==
  ASSUME NEW c \in Configs, NEW p, NEW o \in Observation,
         Complete(c, p, o), SoundConfig(c), StatusOf(c, p, o) = "FAIL"
  PROVE  /\ Headed(o)
         /\ \/ ~SameSize(p) \/ ~SameAttributes(c, p)
            \/ compareETags(p, o) = "mismatch"
            \/ Hashed(o) /\ ~SameContent(p)
<1> DEFINE R == Reasons(c, p, o)
<1>1. Headed(o)
  BY InputsTyped, JudgedIsHeaded DEF SoundConfig, StatusOf
<1>2. R["etag-inconclusive"] \in 0 .. 1
  BY InconclusiveOnce DEF SoundConfig
<1>3. ASSUME SameSize(p), SameAttributes(c, p), compareETags(p, o) # "mismatch",
             ~(Hashed(o) /\ ~SameContent(p))
      PROVE  FALSE
  <2>1. R["size"] = 0 /\ R["content"] = 0 /\ R["etag"] = 0
    BY <1>3, ReasonsSpelled DEF One
  <2>2. R["contentType"] = 0 /\ R["metadata"] = 0 /\ R["tags"] = 0
    BY <1>3, ReasonsSpelled DEF One, SameAttributes, diffMaps
  <2>3. \A r \in Reason \ {"etag-inconclusive"} : R[r] = 0
    BY <2>1, <2>2 DEF Reason
  <2>4. CASE R["etag-inconclusive"] = 0
    BY <2>3, <2>4 DEF StatusOf
  <2>5. CASE R["etag-inconclusive"] = 1
    BY <2>3, <2>5 DEF StatusOf, OnlyInconclusive
  <2> QED
    BY <1>2, <2>4, <2>5
<1> QED
  BY <1>1, <1>3

\* So a FAIL is about a difference, and a WARN about an ETag that tells nothing.
LEMMA SoundVerdict ==
  ASSUME NEW c \in Configs, NEW p \in Pairs, NEW o \in Observation,
         Complete(c, p, o), SoundConfig(c)
  PROVE  /\ StatusOf(c, p, o) = "FAIL" => ~Equivalent(c, p)
         /\ StatusOf(c, p, o) = "WARN" => /\ Incomparable(p) /\ SameSize(p) /\ SameAttributes(c, p)
                                          /\ ~c.DeepOnInconclusive \/ c.MaxDeepBytes > 0
<1> DEFINE R == Reasons(c, p, o)
<1>1. ASSUME StatusOf(c, p, o) = "FAIL", Equivalent(c, p) PROVE FALSE
  <2>1. SameContent(p) /\ SameSize(p) /\ SameAttributes(c, p)
    BY <1>1, ETagFidelity DEF Equivalent, SoundConfig
  <2>2. compareETags(p, o) = "mismatch" /\ Headed(o)
    BY <1>1, <2>1, FailIsExplained
  <2> QED
    BY <2>1, <2>2, ETagFidelity, VerdictOfETags DEF compareETags
<1>2. ASSUME StatusOf(c, p, o) = "WARN"
      PROVE  /\ Incomparable(p) /\ SameSize(p) /\ SameAttributes(c, p)
             /\ ~c.DeepOnInconclusive \/ c.MaxDeepBytes > 0
  <2>1. OnlyInconclusive(R) /\ ~Errored(o)
    BY <1>2 DEF StatusOf
  <2>2. Headed(o)
    BY <2>1, InputsTyped, JudgedIsHeaded DEF SoundConfig
  <2>3. R["size"] = 0 /\ R["contentType"] = 0 /\ R["metadata"] = 0 /\ R["tags"] = 0
    BY <2>1 DEF OnlyInconclusive, Reason
  <2>4. SameSize(p)
    BY <2>3, ReasonsSpelled DEF One
  <2>5. SameAttributes(c, p)
    BY <2>2, <2>3, ReasonsSpelled DEF One, SameAttributes, diffMaps
  <2>6. compareETags(p, o) = "inconclusive"
    BY <2>1, ReasonsSpelled DEF OnlyInconclusive
  <2>7. ~c.DeepOnInconclusive \/ o.deep = "denied"
    BY <2>1, <2>6, ReasonsSpelled DEF OnlyInconclusive, One
  <2>8. ~c.DeepOnInconclusive \/ c.MaxDeepBytes > 0
    BY <2>7 DEF Complete
  <2> QED
    BY <2>2, <2>4, <2>5, <2>6, <2>8, VerdictOfETags
<1> QED
  BY <1>1, <1>2

\* A reason other than etag-inconclusive is given at most once.
LEMMA ReasonsOnce ==
  ASSUME NEW c, NEW p, NEW o, NEW r \in Reason \ {"etag-inconclusive"}
  PROVE  Reasons(c, p, o)[r] = One(Reasons(c, p, o)[r] > 0)
<1>1. \A b \in BOOLEAN : One(b) = One(One(b) > 0)
  BY DEF One
<1>2. Reasons(c, p, o)[r] \in {0, 1}
  BY DEF Reasons, Reason, One
<1> QED
  BY <1>2 DEF One

\* A status is one of the four an object can end with.
LEMMA StatusIsFinal ==
  ASSUME NEW c, NEW p, NEW o
  PROVE  StatusOf(c, p, o) \in FinalStatus
BY DEF StatusOf, FinalStatus
=============================================================================
