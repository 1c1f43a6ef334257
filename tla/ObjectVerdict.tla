----------------------------- MODULE ObjectVerdict -----------------------------
(***************************************************************************)
(* What the worker of compareObjects concludes about one key               *)
(* (internal/verify/objects.go), as operators over                         *)
(*   cfg : the options of the run,                                         *)
(*   p   : the two copies of the object, p["source"] and p["target"],      *)
(*   o   : what the requests of the worker observed of them:               *)
(*         o.head[s]  the HEAD (and tagging) request of side s,            *)
(*         o.deep     whether the hash was not wanted, denied by the       *)
(*                    --max-deep-bytes budget, or granted,                 *)
(*         o.get[s]   the download of side s.                              *)
(* A copy is the record of what the storage holds: size, etag, headers (a  *)
(* function from lower-case header names to values), contentType, tags and *)
(* content, which stands for its SHA-256.  Buckets do not change while     *)
(* they are verified, so every request of one side sees the same copy.     *)
(***************************************************************************)
EXTENDS Integers, Functions, ReportStatus

CONSTANTS
  Configs,          \* the option records a run may be started with
  Pairs,            \* the pairs of copies an object may have
  Md5ETags,         \* the ETags that match md5Hex
  SSEHeaders,       \* x-amz-server-side-encryption and those it prefixes
  SeparateHeaders   \* content-type, tagging count and storage class

Side == {"source", "target"}

Reason == {"size", "contentType", "metadata", "tags", "etag",
           "etag-inconclusive", "content"}

\* What Config.Validate leaves.  A MaxDeepBytes of 0 or below is unlimited.
ASSUME ConfigsAssumption ==
  \A cfg \in Configs :
    /\ cfg.Level \in 1 .. 3
    /\ cfg.Concurrency \in Nat \ {0}
    /\ cfg.MaxDeepBytes \in Int
    /\ {cfg.DeepOnInconclusive, cfg.CheckTags, cfg.ListMatched} \subseteq BOOLEAN

ASSUME PairsAssumption ==
  \A p \in Pairs : /\ DOMAIN p = Side
                   /\ \A s \in Side : p[s].size \in Nat

-----------------------------------------------------------------------------
(* What a request reveals.                                                 *)

HeadOutcome == {"none", "ok", "statErr", "tagErr"}

\* Only an x-amz-server-side-encryption* header of a HEAD that came back
\* sets Encrypted; a failed tagging request comes after it.
Encrypted(c) == DOMAIN c.headers \cap SSEHeaders # {}

SeenEncrypted(p, o, s) == o.head[s] \in {"ok", "tagErr"} /\ Encrypted(p[s])

\* The headers that are compared: the switch takes the SSE and the separately
\* compared ones out before the ignore list is consulted.
Metadata(cfg, c) ==
  Restrict(c.headers,
           DOMAIN c.headers \ (SSEHeaders \cup SeparateHeaders \cup cfg.IgnoreMetaKeys))

HeadFailed(o) == \E s \in Side : o.head[s] \in {"statErr", "tagErr"}

Headed(o) == \A s \in Side : o.head[s] = "ok"

Hashed(o) == o.deep = "granted" /\ \A s \in Side : o.get[s] = "ok"

SameSize(p) == p["source"].size = p["target"].size

SameContent(p) == p["source"].content = p["target"].content

\* diffMaps returns "" exactly when the two maps are equal.
diffMaps(a, b) == a # b

-----------------------------------------------------------------------------
(* The comparison.                                                         *)

\* The slip of trusting a digest-shaped ETag whatever the SSE headers say.
compareETagsBlindToSSE(p, o) ==
  IF p["source"].etag = p["target"].etag THEN "match"
  ELSE IF \E s \in Side : p[s].etag \notin Md5ETags THEN "inconclusive"
  ELSE "mismatch"

compareETags(p, o) ==
  IF p["source"].etag = p["target"].etag THEN "match"
  ELSE IF \E s \in Side : SeenEncrypted(p, o, s) \/ p[s].etag \notin Md5ETags
       THEN "inconclusive"
  ELSE "mismatch"

NeedDeep(cfg, p, o) ==
  /\ \/ cfg.Level >= 3
     \/ compareETags(p, o) = "inconclusive" /\ cfg.DeepOnInconclusive
  /\ SameSize(p)
  /\ ~HeadFailed(o)

One(b) == IF b THEN 1 ELSE 0

\* How often each reason is in the worker's list.  etag-inconclusive is
\* appended in two places, which do not exclude each other.
Reasons(cfg, p, o) ==
  [r \in Reason |->
     CASE r = "size"        -> One(~SameSize(p))
       [] r = "contentType" -> One(Headed(o) /\ p["source"].contentType # p["target"].contentType)
       [] r = "metadata"    -> One(/\ Headed(o)
                                   /\ diffMaps(Metadata(cfg, p["source"]), Metadata(cfg, p["target"])))
       [] r = "tags"        -> One(/\ Headed(o) /\ cfg.CheckTags
                                   /\ diffMaps(p["source"].tags, p["target"].tags))
       [] r = "etag"        -> One(compareETags(p, o) = "mismatch")
       [] r = "etag-inconclusive" ->
            IF compareETags(p, o) # "inconclusive" THEN 0
            ELSE One(SameSize(p) /\ ~cfg.DeepOnInconclusive) + One(o.deep = "denied")
       [] r = "content"     -> One(Hashed(o) /\ ~SameContent(p))]

\* The slip of overlooking a download that failed.
ErroredOnHead(o) == HeadFailed(o)

Errored(o) == HeadFailed(o) \/ \E s \in Side : o.get[s] = "err"

OnlyInconclusive(reasons) ==
  /\ reasons["etag-inconclusive"] = 1
  /\ \A r \in Reason \ {"etag-inconclusive"} : reasons[r] = 0

StatusOf(cfg, p, o) ==
  LET reasons == Reasons(cfg, p, o)
  IN  IF Errored(o) THEN "ERROR"
      ELSE IF \A r \in Reason : reasons[r] = 0 THEN "PASS"
      ELSE IF OnlyInconclusive(reasons) THEN "WARN"
      ELSE "FAIL"

\* Whether the report lists the object: a match is listed when it was asked
\* for, or to explain a download on demand.
Listed(cfg, p, o) ==
  \/ StatusOf(cfg, p, o) # "PASS"
  \/ cfg.ListMatched
  \/ Hashed(o) /\ cfg.Level < 3

-----------------------------------------------------------------------------
(* Every observation a worker can end with: the worker pool is shown to    *)
(* stay within it, and the bucket level starts from it.                    *)

Observation == [head : [Side -> HeadOutcome],
                deep : {"none", "denied", "granted"},
                get  : [Side -> {"none", "ok", "err"}]]

NothingRequested == [head |-> [s \in Side |-> "none"],
                     deep |-> "none",
                     get  |-> [s \in Side |-> "none"]]

HeadOutcomes(cfg) ==
  IF cfg.Level < 2 THEN {"none"}
  ELSE {"ok", "statErr"} \cup (IF cfg.CheckTags THEN {"tagErr"} ELSE {})

Complete(cfg, p, o) ==
  /\ \A s \in Side : o.head[s] \in HeadOutcomes(cfg)
  /\ IF o.deep = "granted" THEN \A s \in Side : o.get[s] # "none"
                           ELSE \A s \in Side : o.get[s] = "none"
  /\ o.deep # "none" <=> NeedDeep(cfg, p, o)
  /\ o.deep = "denied" => cfg.MaxDeepBytes > 0

-----------------------------------------------------------------------------
(* What the verdicts are about: the truth about two copies.                *)

SameAttributes(cfg, p) ==
  /\ p["source"].contentType = p["target"].contentType
  /\ Metadata(cfg, p["source"]) = Metadata(cfg, p["target"])
  /\ cfg.CheckTags => p["source"].tags = p["target"].tags

\* Same bytes, and at the levels that send HEAD requests the same attributes.
Equivalent(cfg, p) ==
  /\ SameContent(p)
  /\ cfg.Level >= 2 => SameAttributes(cfg, p)

\* The ETags differ and one of them is not the MD5 of its content.
Incomparable(p) ==
  /\ p["source"].etag # p["target"].etag
  /\ \E s \in Side : Encrypted(p[s]) \/ p[s].etag \notin Md5ETags

\* What S3 guarantees of ETags (README of the tool, "ETag rules"): equal ETags
\* mean equal content, an MD5 ETag of an unencrypted object is its MD5.
ASSUME ETagFidelity ==
  \A p \in Pairs :
    /\ SameContent(p) => SameSize(p)
    /\ p["source"].etag = p["target"].etag => SameContent(p)
    /\ p["source"].etag # p["target"].etag /\ ~Incomparable(p) => ~SameContent(p)

\* The option sets for which a verdict means what the report says it means.
\* At level 1 encryption is never seen, and at level 3 without
\* DeepOnInconclusive one inconclusive ETag can be reported twice.
SoundConfig(cfg) ==
  /\ cfg.Level >= 2
  /\ cfg.Level = 3 /\ cfg.MaxDeepBytes > 0 => cfg.DeepOnInconclusive
=============================================================================
