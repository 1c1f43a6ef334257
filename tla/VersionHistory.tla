---------------------------- MODULE VersionHistory ----------------------------
(***************************************************************************)
(* The version histories of one key: how listObjects orders them           *)
(* (internal/verify/objects.go) and what compareVersions makes of them     *)
(* (internal/verify/versions.go; each key is compared on its own).         *)
(*                                                                         *)
(* Each side is written to until its listing runs: the source by its       *)
(* application, the target by the migration tool, which may lose, repeat   *)
(* or reorder versions.  Two versions written within the clock's           *)
(* resolution have the same LastModified.                                  *)
(***************************************************************************)
EXTENDS Integers, Sequences, SequencesExt, FiniteSets

CONSTANTS
  Contents,     \* what a version may hold: records [marker, size, etag]
  Md5ETags,     \* the ETags that match md5Hex
  MaxVersions   \* bound on the length of a history

Side == {"source", "target"}

\* A delete marker has no size of its own: its objInfo holds Go's zero value.
ASSUME ContentsAssumption ==
  \A c \in Contents : /\ c.marker \in BOOLEAN /\ c.size \in Nat
                      /\ c.marker => c.size = 0

ASSUME MaxVersionsAssumption == MaxVersions \in Nat

\* ETags of versions are compared as those of objects no HEAD was sent for.
Verdict == INSTANCE ObjectVerdict
             WITH Configs <- {}, Pairs <- {}, SSEHeaders <- {}, SeparateHeaders <- {}

VARIABLES
  history,   \* the versions of each side, oldest first
  seen,      \* the sides whose listing has run
  listed,    \* the versions in the order compareVersions sees them
  compared,  \* compareVersions has run
  reasons    \* d.Reasons

vars == <<history, seen, listed, compared, reasons>>

Version == [content : Contents, time : 1 .. MaxVersions]

Reason == [kind : {"count", "markers"}]
            \cup [kind : {"delete-marker", "size", "etag"}, at : 1 .. MaxVersions]

TypeOK ==
  /\ history \in [Side -> Seq(Version)]
  /\ \A s \in Side : Len(history[s]) <= MaxVersions
  /\ seen \subseteq Side
  /\ listed \in [Side -> Seq(Version)]
  /\ compared \in BOOLEAN
  /\ reasons \subseteq Reason

Init ==
  /\ history = [s \in Side |-> <<>>]
  /\ seen = {}
  /\ listed = [s \in Side |-> <<>>]
  /\ compared = FALSE
  /\ reasons = {}

-----------------------------------------------------------------------------
(* The storages.                                                           *)

\* LastModified never decreases from one version to the next.
NextTimes(h) == IF h = <<>> THEN {1} ELSE {Last(h).time, Last(h).time + 1}

Write(s) ==
  /\ Len(history[s]) < MaxVersions
  /\ s \notin seen
  /\ \E c \in Contents, t \in NextTimes(history[s]) :
       history' = [history EXCEPT ![s] = Append(@, [content |-> c, time |-> t])]
  /\ UNCHANGED <<seen, listed, compared, reasons>>

\* S3 lists the versions of a key from the newest to the oldest.
Listing(h) == Reverse(h)

-----------------------------------------------------------------------------
(* The tool.                                                               *)

\* sort.SliceStable by LastModified: a version is placed after those of an
\* earlier time and those of the same time that were listed before it.
Place(vs, i) ==
  Cardinality({j \in DOMAIN vs : \/ vs[j].time < vs[i].time
                                 \/ vs[j].time = vs[i].time /\ j <= i})

SortByTime(vs) == [n \in DOMAIN vs |-> vs[CHOOSE i \in DOMAIN vs : Place(vs, i) = n]]

\* One of the two parallel calls of listObjects.
List(s) ==
  /\ s \notin seen
  /\ seen' = seen \cup {s}
  /\ listed' = [listed EXCEPT ![s] = SortByTime(Listing(history[s]))]
  /\ UNCHANGED <<history, compared, reasons>>

Markers(vs) == Cardinality({i \in DOMAIN vs : vs[i].content.marker})

\* The slip of taking ETags that prove nothing for different.
VersionReasonsStrict(a, b) ==
  IF a.marker # b.marker THEN {"delete-marker"}
  ELSE IF a.marker THEN {}
  ELSE {r \in {"size", "etag"} : /\ r = "size" => a.size # b.size
                                 /\ r = "etag" => a.etag # b.etag}

\* The reasons one pair of versions gives; a delete marker has neither size
\* nor ETag.
VersionReasons(a, b) ==
  IF a.marker # b.marker THEN {"delete-marker"}
  ELSE IF a.marker THEN {}
  ELSE {r \in {"size", "etag"} :
          /\ r = "size" => a.size # b.size
          /\ r = "etag" => Verdict!compareETags([source |-> a, target |-> b],
                                                Verdict!NothingRequested) = "mismatch"}

\* Comparing up to the shorter history and saying nothing of the rest.
DiffOfPrefix(sv, tv) ==
  [kind : IF Markers(sv) # Markers(tv) THEN {"markers"} ELSE {}]
    \cup UNION {[kind : VersionReasons(sv[i].content, tv[i].content), at : {i}] :
                  i \in DOMAIN sv \cap DOMAIN tv}

\* Numbering the versions from one where the report numbers them from zero.
DiffShifted(sv, tv) ==
  [kind : IF Len(sv) # Len(tv) THEN {"count"} ELSE {}]
    \cup UNION {[kind : VersionReasons(sv[i].content, tv[i].content), at : {i + 1}] :
                  i \in IF Len(sv) = Len(tv) THEN DOMAIN sv ELSE {}}

\* The body of the loop over keys; versions are matched up only when there
\* are as many on either side.
Diff(sv, tv) ==
  [kind : {r \in {"count", "markers"} : /\ r = "count"   => Len(sv) # Len(tv)
                                        /\ r = "markers" => Markers(sv) # Markers(tv)}]
    \cup UNION {[kind : VersionReasons(sv[i].content, tv[i].content), at : {i}] :
                  i \in IF Len(sv) = Len(tv) THEN DOMAIN sv ELSE {}}

CompareVersions ==
  /\ seen = Side
  /\ ~compared
  /\ compared' = TRUE
  /\ reasons' = Diff(listed["source"], listed["target"])
  /\ UNCHANGED <<history, seen, listed>>

Next == CompareVersions \/ \E s \in Side : Write(s) \/ List(s)

\* Not a step of the program: the key has been compared.
Compared == compared /\ UNCHANGED vars

Spec == Init /\ [][Next \/ Compared]_vars

-----------------------------------------------------------------------------
(* Correctness.                                                            *)

DistinctTimes(h) == \A i, j \in DOMAIN h : h[i].time = h[j].time => i = j

\* Two contents nothing the tool looks at tells apart.
Alike(a, b) ==
  IF a.marker \/ b.marker THEN a.marker = b.marker
  ELSE /\ a.size = b.size
       /\ {a.etag, b.etag} \subseteq Md5ETags => a.etag = b.etag

SameHistory(g, h) ==
  Len(g) = Len(h) /\ \A i \in DOMAIN g : Alike(g[i].content, h[i].content)

\* When every version has a time of its own, the comparison says of two
\* histories exactly whether they are the same, although the storages list
\* them in the opposite of the order in which they were written.
OrderedHistoriesSettled ==
  compared /\ (\A s \in Side : DistinctTimes(history[s]))
    => (reasons = {} <=> SameHistory(history["source"], history["target"]))

Count(h, marker, size) ==
  Cardinality({i \in DOMAIN h : h[i].content.marker = marker /\ h[i].content.size = size})

\* Whatever the times: a version that was lost, added, resized or replaced by
\* a delete marker never goes unnoticed.
NothingLostUnseen ==
  compared /\ reasons = {} =>
    \A c \in Contents :
      Count(history["source"], c.marker, c.size) = Count(history["target"], c.marker, c.size)

-----------------------------------------------------------------------------
(* What the documentation says and the code does not do.                   *)

\* "This catches missing versions, extra versions, re-ordered histories and
\* missing delete markers" (versions.go:14-15).
ReorderingIsCaught ==
  compared /\ reasons = {} => SameHistory(history["source"], history["target"])
=============================================================================
