------------------------- MODULE VersionHistory_proofs -------------------------
(***************************************************************************)
(* Proofs about the comparison of version histories, for any contents and  *)
(* histories of any length.                                                *)
(***************************************************************************)
EXTENDS VersionHistory, FiniteSetTheorems, TLAPS

\* A storage dates its versions in the order in which they are written.
Dated(h) ==
  /\ \A i \in DOMAIN h : h[i].time <= i
  /\ \A i, j \in DOMAIN h : i <= j => h[i].time <= h[j].time

\* A side that has been listed is not written to any more, and what is compared
\* is what was listed.
HistoryInv ==
  /\ \A s \in Side : Dated(history[s])
  /\ \A s \in seen : listed[s] = SortByTime(Listing(history[s]))
  /\ compared => seen = Side /\ reasons = Diff(listed["source"], listed["target"])

-----------------------------------------------------------------------------
(* Sorting.                                                                *)

\* A version has a content and a time.
LEMMA VersionTyped ==
  ASSUME NEW v \in Version
  PROVE  v.content \in Contents /\ v.time \in 1 .. MaxVersions /\ v.time \in Int
<1>1. v.content \in Contents /\ v.time \in 1 .. MaxVersions
  BY DEF Version
<1> QED
  BY <1>1, MaxVersionsAssumption

\* The versions a stable sort puts up to version i of a listing.
UpTo(vs, i) == {j \in DOMAIN vs : \/ vs[j].time < vs[i].time
                                  \/ vs[j].time = vs[i].time /\ j <= i}

\* A position is one of the listing.
LEMMA PlaceTyped ==
  ASSUME NEW vs \in Seq(Version), NEW i \in DOMAIN vs
  PROVE  /\ IsFiniteSet(UpTo(vs, i))
         /\ Place(vs, i) = Cardinality(UpTo(vs, i))
         /\ Place(vs, i) \in DOMAIN vs
<1>1. DOMAIN vs = 1 .. Len(vs) /\ Len(vs) \in Nat
  OBVIOUS
<1>2. IsFiniteSet(DOMAIN vs) /\ Cardinality(DOMAIN vs) = Len(vs)
  <2>1. /\ IsFiniteSet(1 .. Len(vs))
        /\ Cardinality(1 .. Len(vs)) = IF 1 > Len(vs) THEN 0 ELSE Len(vs) - 1 + 1
    BY <1>1, FS_Interval
  <2> QED
    BY <1>1, <2>1
<1>3. UpTo(vs, i) \in SUBSET (DOMAIN vs)
  BY DEF UpTo
<1>4. IsFiniteSet(UpTo(vs, i)) /\ Cardinality(UpTo(vs, i)) <= Len(vs)
  BY <1>2, <1>3, FS_Subset
<1>5. i \in UpTo(vs, i)
  BY <1>1 DEF UpTo
<1>6. Cardinality(UpTo(vs, i)) \in Nat /\ Cardinality(UpTo(vs, i)) # 0
  BY <1>4, <1>5, FS_CardinalityType, FS_EmptySet
<1>7. Place(vs, i) = Cardinality(UpTo(vs, i))
  BY DEF Place, UpTo
<1> QED
  BY <1>1, <1>4, <1>6, <1>7

\* No two versions are put at the same position: of two, one comes first.
LEMMA PlaceInjective ==
  ASSUME NEW vs \in Seq(Version), NEW i \in DOMAIN vs, NEW j \in DOMAIN vs,
         Place(vs, i) = Place(vs, j)
  PROVE  i = j
<1>1. /\ DOMAIN vs = 1 .. Len(vs) /\ Len(vs) \in Nat
      /\ \A k \in DOMAIN vs : vs[k].time \in Int
  BY VersionTyped
<1>2. ASSUME NEW a \in DOMAIN vs, NEW b \in DOMAIN vs, a # b,
             vs[a].time < vs[b].time \/ (vs[a].time = vs[b].time /\ a <= b)
      PROVE  Place(vs, a) # Place(vs, b)
  <2>1. UpTo(vs, a) \subseteq UpTo(vs, b)
    BY <1>1, <1>2 DEF UpTo
  <2>2. b \in UpTo(vs, b) /\ b \notin UpTo(vs, a)
    BY <1>1, <1>2 DEF UpTo
  <2>3. IsFiniteSet(UpTo(vs, b))
    BY PlaceTyped
  <2>4. Cardinality(UpTo(vs, b)) # Cardinality(UpTo(vs, a))
    BY <2>1, <2>2, <2>3, FS_Subset
  <2> QED
    BY <2>4, PlaceTyped
<1>3. \/ vs[i].time < vs[j].time \/ (vs[i].time = vs[j].time /\ i <= j)
      \/ vs[j].time < vs[i].time \/ (vs[j].time = vs[i].time /\ j <= i)
  BY <1>1
<1> QED
  BY <1>2, <1>3

\* One sequence is another in a different order.
Permutes(g, u, v) ==
  /\ DOMAIN u = DOMAIN v
  /\ g \in Bijection(DOMAIN v, DOMAIN v)
  /\ \A n \in DOMAIN v : u[n] = v[g[n]]

\* Sorting a listing orders it anew and loses nothing.
LEMMA SortPermutes ==
  ASSUME NEW vs \in Seq(Version)
  PROVE  /\ SortByTime(vs) \in Seq(Version) /\ Len(SortByTime(vs)) = Len(vs)
         /\ \E g : Permutes(g, SortByTime(vs), vs)
<1> DEFINE D == DOMAIN vs
           f == [i \in D |-> Place(vs, i)]
           at(n) == CHOOSE i \in D : Place(vs, i) = n
           g == [n \in D |-> at(n)]
<1>1. D = 1 .. Len(vs) /\ Len(vs) \in Nat /\ IsFiniteSet(D)
  BY FS_Interval
<1>2. f \in Injection(D, D)
  BY PlaceTyped, PlaceInjective DEF Injection, IsInjective
<1>3. f \in Surjection(D, D)
  BY <1>1, <1>2, FS_Injection, Zenon
<1>4. \A n \in D : \E i \in D : Place(vs, i) = n
  BY <1>3 DEF Surjection
<1>5. \A n \in D : at(n) \in D /\ Place(vs, at(n)) = n
  BY <1>4
<1>6. g \in Injection(D, D)
  <2>1. g \in [D -> D]
    BY <1>5
  <2>2. \A m, n \in D : g[m] = g[n] => m = n
    BY <1>5
  <2> QED
    BY <2>1, <2>2 DEF Injection, IsInjective
<1>7. g \in Surjection(D, D)
  BY <1>1, <1>6, FS_Injection, Zenon
<1>8. SortByTime(vs) = [n \in D |-> vs[g[n]]]
  BY DEF SortByTime
<1>9. \A n \in D : vs[g[n]] \in Version
  BY <1>5
<1>10. SortByTime(vs) \in [1 .. Len(vs) -> Version]
  BY <1>1, <1>8, <1>9
<1>11. SortByTime(vs) \in Seq(Version) /\ Len(SortByTime(vs)) = Len(vs)
  BY <1>1, <1>10
<1>12. Permutes(g, SortByTime(vs), vs)
  BY <1>6, <1>7, <1>8 DEF Permutes, Bijection
<1> QED
  BY <1>11, <1>12

\* A storage lists its history backwards.
LEMMA ListingPermutes ==
  ASSUME NEW h \in Seq(Version)
  PROVE  /\ Listing(h) \in Seq(Version) /\ Len(Listing(h)) = Len(h)
         /\ \A n \in DOMAIN h : Listing(h)[n] = h[Len(h) - n + 1]
         /\ \E g : Permutes(g, Listing(h), h)
<1> DEFINE D == 1 .. Len(h)
           g == [n \in D |-> Len(h) - n + 1]
<1>1. DOMAIN h = D /\ Len(h) \in Nat /\ h \in [D -> Version]
  OBVIOUS
<1>2. Listing(h) = [n \in D |-> h[(Len(h) - n) + 1]]
  BY DEF Listing, Reverse
<1>3. \A n \in D : Len(h) - n + 1 \in D
  BY <1>1
<1>4. Listing(h) \in [D -> Version]
  BY <1>1, <1>2, <1>3
<1>5. Listing(h) \in Seq(Version) /\ Len(Listing(h)) = Len(h)
  BY <1>1, <1>4
<1>6. g \in Bijection(D, D)
  <2>1. g \in [D -> D]
    BY <1>3
  <2>2. \A m, n \in D : g[m] = g[n] => m = n
    BY <1>1
  <2>3. \A n \in D : \E m \in D : g[m] = n
    <3>1. \A n \in D : g[Len(h) - n + 1] = n
      BY <1>1, <1>3
    <3> QED
      BY <1>3, <3>1
  <2> QED
    BY <2>1, <2>2, <2>3 DEF Bijection, Injection, IsInjective, Surjection
<1>7. Permutes(g, Listing(h), h)
  BY <1>1, <1>2, <1>6 DEF Permutes
<1> QED
  BY <1>1, <1>2, <1>5, <1>7

\* Counting does not depend on the order.
LEMMA PermutedCount ==
  ASSUME NEW u \in Seq(Version), NEW v \in Seq(Version), NEW g, Permutes(g, u, v),
         NEW marker, NEW size
  PROVE  Count(u, marker, size) = Count(v, marker, size)
<1> DEFINE D == DOMAIN v
           U == {i \in D : u[i].content.marker = marker /\ u[i].content.size = size}
           V == {i \in D : v[i].content.marker = marker /\ v[i].content.size = size}
           r == [i \in U |-> g[i]]
<1>1. DOMAIN u = D /\ g \in [D -> D] /\ \A n \in D : u[n] = v[g[n]]
  BY DEF Permutes, Bijection, Injection
<1>2. \A m, n \in D : g[m] = g[n] => m = n
  BY <1>1 DEF Permutes, Bijection, Injection, IsInjective
<1>3. \A n \in D : \E m \in D : g[m] = n
  BY DEF Permutes, Bijection, Surjection
<1>4. r \in [U -> V]
  BY <1>1
<1>5. r \in Bijection(U, V)
  <2>1. \A m, n \in U : r[m] = r[n] => m = n
    BY <1>2
  <2>2. \A n \in V : \E m \in U : r[m] = n
    BY <1>1, <1>3
  <2> QED
    BY <1>4, <2>1, <2>2 DEF Bijection, Injection, IsInjective, Surjection
<1>6. IsFiniteSet(U)
  <2>1. IsFiniteSet(D)
    BY FS_Interval
  <2> QED
    BY <2>1, FS_Subset
<1>7. Cardinality(V) = Cardinality(U)
  BY <1>5, <1>6, FS_Bijection, Zenon DEF ExistsBijection
<1> QED
  BY <1>1, <1>7 DEF Count

\* What compareVersions sees of a history has every version the history has.
LEMMA SortedCount ==
  ASSUME NEW h \in Seq(Version), NEW marker, NEW size
  PROVE  Count(SortByTime(Listing(h)), marker, size) = Count(h, marker, size)
<1> DEFINE l == Listing(h)
           v == SortByTime(l)
<1>1. l \in Seq(Version) /\ \E g : Permutes(g, l, h)
  BY ListingPermutes
<1>2. v \in Seq(Version) /\ \E g : Permutes(g, v, l)
  BY <1>1, SortPermutes
<1> HIDE DEF l, v
<1>3. Count(v, marker, size) = Count(l, marker, size)
  BY <1>1, <1>2, PermutedCount
<1>4. Count(l, marker, size) = Count(h, marker, size)
  BY <1>1, PermutedCount
<1> QED
  BY <1>3, <1>4 DEF l, v

\* Where no two versions have the same time, sorting restores the history.
LEMMA SortedIsHistory ==
  ASSUME NEW h \in Seq(Version), Dated(h), DistinctTimes(h)
  PROVE  SortByTime(Listing(h)) = h
<1> DEFINE D == 1 .. Len(h)
           l == Listing(h)
<1>1. /\ DOMAIN h = D /\ Len(h) \in Nat /\ h \in [D -> Version]
      /\ \A i \in D : h[i].time \in Int
  BY VersionTyped
<1>2. /\ l \in Seq(Version) /\ Len(l) = Len(h) /\ DOMAIN l = D
      /\ \A n \in D : l[n] = h[Len(h) - n + 1]
  <2>1. l \in Seq(Version) /\ Len(l) = Len(h) /\ \A n \in DOMAIN h : l[n] = h[Len(h) - n + 1]
    BY ListingPermutes
  <2> QED
    BY <1>1, <2>1
<1> HIDE DEF l
<1>3. \A i, j \in D : h[i].time < h[j].time <=> i < j
  BY <1>1 DEF Dated, DistinctTimes
<1>4. \A i, j \in D : l[i].time < l[j].time <=> j < i
  <2> SUFFICES ASSUME NEW i \in D, NEW j \in D
               PROVE  l[i].time < l[j].time <=> j < i
    OBVIOUS
  <2> DEFINE m == Len(h) - i + 1
             n == Len(h) - j + 1
  <2>1. m \in D /\ n \in D
    BY <1>1
  <2>2. m < n <=> j < i
    BY <1>1
  <2>3. l[i] = h[m] /\ l[j] = h[n]
    BY <1>2
  <2> HIDE DEF m, n
  <2>4. h[m].time < h[n].time <=> m < n
    BY <1>3, <2>1
  <2> QED
    BY <2>2, <2>3, <2>4
<1>5. \A i \in D : UpTo(l, i) = i .. Len(h)
  <2> SUFFICES ASSUME NEW i \in D PROVE UpTo(l, i) = i .. Len(h)
    OBVIOUS
  <2>1. \A j \in D : l[j].time \in Int
    BY <1>2, VersionTyped
  <2>2. \A j \in D : l[j].time = l[i].time => j = i
    BY <1>1, <1>4, <2>1
  <2>3. \A j \in D : j \in UpTo(l, i) <=> i <= j
    BY <1>1, <1>2, <1>4, <2>1, <2>2 DEF UpTo
  <2>4. UpTo(l, i) \subseteq D
    BY <1>2 DEF UpTo
  <2>5. \A j \in i .. Len(h) : j \in D /\ i <= j
    BY <1>1
  <2>6. \A j \in D : i <= j => j \in i .. Len(h)
    BY <1>1
  <2> QED
    BY <2>3, <2>4, <2>5, <2>6, Zenon
<1>6. \A i \in D : Place(l, i) = Len(h) - i + 1
  <2> SUFFICES ASSUME NEW i \in D PROVE Place(l, i) = Len(h) - i + 1
    OBVIOUS
  <2>1. Place(l, i) = Cardinality(i .. Len(h))
    BY <1>2, <1>5, PlaceTyped
  <2> QED
    BY <1>1, <2>1, FS_Interval
<1>7. \A n \in D : (CHOOSE i \in DOMAIN l : Place(l, i) = n) = Len(h) - n + 1
  <2> SUFFICES ASSUME NEW n \in D
               PROVE  (CHOOSE i \in DOMAIN l : Place(l, i) = n) = Len(h) - n + 1
    OBVIOUS
  <2>1. Len(h) - n + 1 \in DOMAIN l /\ Place(l, Len(h) - n + 1) = n
    BY <1>1, <1>2, <1>6
  <2>2. \A i \in DOMAIN l : Place(l, i) = n => i = Len(h) - n + 1
    <3>1. \A i \in DOMAIN l : Len(h) - i + 1 = n => i = Len(h) - n + 1
      BY <1>1, <1>2
    <3> QED
      BY <1>2, <1>6, <3>1
  <2> QED
    BY <2>1, <2>2
<1>8. \A n \in D : l[Len(h) - n + 1] = h[n]
  <2> SUFFICES ASSUME NEW n \in D PROVE l[Len(h) - n + 1] = h[n]
    OBVIOUS
  <2>1. Len(h) - n + 1 \in D /\ Len(h) - (Len(h) - n + 1) + 1 = n
    BY <1>1
  <2> QED
    BY <1>2, <2>1
<1>9. SortByTime(l) = [n \in DOMAIN l |-> h[n]]
  <2>1. SortByTime(l) = [n \in DOMAIN l |-> l[CHOOSE i \in DOMAIN l : Place(l, i) = n]]
    BY Zenon DEF SortByTime
  <2>2. \A n \in DOMAIN l : l[CHOOSE i \in DOMAIN l : Place(l, i) = n] = h[n]
    BY <1>2, <1>7, <1>8
  <2> QED
    BY <2>1, <2>2, Zenon
<1> QED
  BY <1>1, <1>2, <1>9 DEF l

-----------------------------------------------------------------------------
(* Comparing.                                                              *)

\* Two versions give no reason exactly if nothing the tool looks at tells them
\* apart.
LEMMA NoReasonMeansAlike ==
  ASSUME NEW a \in Contents, NEW b \in Contents
  PROVE  VersionReasons(a, b) = {} <=> Alike(a, b)
<1> DEFINE p == [source |-> a, target |-> b]
           o == Verdict!NothingRequested
<1>1. a.marker \in BOOLEAN /\ b.marker \in BOOLEAN
  BY ContentsAssumption
<1>2. \A s \in Side : o.head[s] = "none"
  BY DEF Verdict!NothingRequested, Side, Verdict!Side
<1>3. Verdict!compareETags(p, o) = "mismatch"
        <=> a.etag # b.etag /\ a.etag \in Md5ETags /\ b.etag \in Md5ETags
  <2>1. \A s \in Side : ~Verdict!SeenEncrypted(p, o, s)
    BY <1>2 DEF Verdict!SeenEncrypted
  <2> HIDE DEF o
  <2>2. p["source"] = a /\ p["target"] = b
    OBVIOUS
  <2> HIDE DEF p
  <2> QED
    BY <2>1, <2>2 DEF Verdict!compareETags, Side, Verdict!Side
<1> HIDE DEF p, o
<1>4. CASE a.marker # b.marker
  <2>1. VersionReasons(a, b) = {"delete-marker"}
    BY <1>4 DEF VersionReasons
  <2> QED
    BY <1>1, <1>4, <2>1 DEF Alike
<1>5. CASE a.marker = b.marker /\ a.marker
  <2>1. VersionReasons(a, b) = {}
    BY <1>5 DEF VersionReasons
  <2> QED
    BY <1>5, <2>1 DEF Alike
<1>6. CASE a.marker = b.marker /\ ~a.marker
  <2>1. VersionReasons(a, b) =
          {r \in {"size", "etag"} : /\ r = "size" => a.size # b.size
                                    /\ r = "etag" => Verdict!compareETags(p, o) = "mismatch"}
    BY <1>6 DEF VersionReasons, p, o
  <2>2. VersionReasons(a, b) = {}
          <=> a.size = b.size /\ Verdict!compareETags(p, o) # "mismatch"
    BY <2>1
  <2>3. Alike(a, b) <=> a.size = b.size
                          /\ ~(a.etag # b.etag /\ a.etag \in Md5ETags /\ b.etag \in Md5ETags)
    BY <1>6 DEF Alike
  <2> QED
    BY <1>3, <2>2, <2>3
<1> QED
  BY <1>1, <1>4, <1>5, <1>6

\* Alike versions are of the same kind and size.
LEMMA AlikeMeansCountedAlike ==
  ASSUME NEW a \in Contents, NEW b \in Contents, Alike(a, b)
  PROVE  a.marker = b.marker /\ a.size = b.size
<1>1. a.marker \in BOOLEAN /\ b.marker \in BOOLEAN
  BY ContentsAssumption
<1>2. CASE a.marker \/ b.marker
  BY <1>1, <1>2, ContentsAssumption DEF Alike
<1>3. CASE ~a.marker /\ ~b.marker
  BY <1>1, <1>3 DEF Alike
<1> QED
  BY <1>2, <1>3

\* Two listings give no reason exactly if they are the same history.
LEMMA NoReasonMeansSame ==
  ASSUME NEW g \in Seq(Version), NEW h \in Seq(Version)
  PROVE  Diff(g, h) = {} <=> SameHistory(g, h)
<1> DEFINE bulk == {r \in {"count", "markers"} : /\ r = "count"   => Len(g) # Len(h)
                                                 /\ r = "markers" => Markers(g) # Markers(h)}
           D == IF Len(g) = Len(h) THEN DOMAIN g ELSE {}
           each(i) == [kind : VersionReasons(g[i].content, h[i].content), at : {i}]
<1>1. Diff(g, h) = [kind : bulk] \cup UNION {each(i) : i \in D}
  BY DEF Diff
<1>2. [kind : bulk] = {} <=> bulk = {}
  <2>1. \A r \in bulk : [kind |-> r] \in [kind : bulk]
    OBVIOUS
  <2>2. \A x \in [kind : bulk] : x.kind \in bulk
    OBVIOUS
  <2> QED
    BY <2>1, <2>2
<1>3. \A i \in D : each(i) = {} <=> VersionReasons(g[i].content, h[i].content) = {}
  <2> SUFFICES ASSUME NEW i \in D
               PROVE  each(i) = {} <=> VersionReasons(g[i].content, h[i].content) = {}
    OBVIOUS
  <2> DEFINE R == VersionReasons(g[i].content, h[i].content)
  <2> HIDE DEF R
  <2>1. \A r \in R : [kind |-> r, at |-> i] \in [kind : R, at : {i}]
    OBVIOUS
  <2>2. \A x \in [kind : R, at : {i}] : x.kind \in R
    OBVIOUS
  <2>3. [kind : R, at : {i}] = {} <=> R = {}
    BY <2>1, <2>2
  <2> QED
    BY <2>3 DEF R
<1>4. bulk = {} <=> Len(g) = Len(h) /\ Markers(g) = Markers(h)
  <2>1. "count" \in bulk <=> Len(g) # Len(h)
    OBVIOUS
  <2>2. "markers" \in bulk <=> Markers(g) # Markers(h)
    OBVIOUS
  <2>3. bulk \subseteq {"count", "markers"}
    OBVIOUS
  <2> HIDE DEF bulk
  <2> QED
    BY <2>1, <2>2, <2>3
<1>5. \A i \in D : g[i].content \in Contents /\ h[i].content \in Contents
  <2>1. \A i \in D : g[i] \in Version /\ h[i] \in Version
    OBVIOUS
  <2> QED
    BY <2>1, VersionTyped
<1>6. \A i \in D : each(i) = {} <=> Alike(g[i].content, h[i].content)
  BY <1>3, <1>5, NoReasonMeansAlike
<1>7. SameHistory(g, h) => Markers(g) = Markers(h)
  <2> SUFFICES ASSUME SameHistory(g, h) PROVE Markers(g) = Markers(h)
    OBVIOUS
  <2>1. DOMAIN g = DOMAIN h /\ D = DOMAIN g
    BY DEF SameHistory
  <2>2. \A i \in DOMAIN g : g[i].content.marker = h[i].content.marker
    BY <1>5, <2>1, AlikeMeansCountedAlike DEF SameHistory
  <2>3. {i \in DOMAIN g : g[i].content.marker} = {i \in DOMAIN h : h[i].content.marker}
    BY <2>1, <2>2
  <2> QED
    BY <2>3 DEF Markers
<1> HIDE DEF bulk, each
<1>8. Diff(g, h) = {} <=> bulk = {} /\ \A i \in D : each(i) = {}
  BY <1>1, <1>2
<1> QED
  BY <1>4, <1>6, <1>7, <1>8 DEF SameHistory

\* The reasons are of the kinds the report knows, at positions there are.
LEMMA DiffTyped ==
  ASSUME NEW g \in Seq(Version), NEW h \in Seq(Version), Len(g) <= MaxVersions
  PROVE  Diff(g, h) \subseteq Reason
<1>1. \A a, b : VersionReasons(a, b) \subseteq {"delete-marker", "size", "etag"}
  BY DEF VersionReasons
<1>2. DOMAIN g \subseteq 1 .. MaxVersions
  BY MaxVersionsAssumption
<1>3. \A i \in DOMAIN g : [kind : VersionReasons(g[i].content, h[i].content), at : {i}] \subseteq Reason
  <2> SUFFICES ASSUME NEW i \in DOMAIN g,
                      NEW x \in [kind : VersionReasons(g[i].content, h[i].content), at : {i}]
               PROVE  x \in Reason
    OBVIOUS
  <2> DEFINE R == VersionReasons(g[i].content, h[i].content)
  <2>1. R \subseteq {"delete-marker", "size", "etag"}
    BY <1>1
  <2> HIDE DEF R
  <2>2. x \in [kind : R, at : {i}]
    BY DEF R
  <2>3. x \in [kind : {"delete-marker", "size", "etag"}, at : 1 .. MaxVersions]
    BY <1>2, <2>1, <2>2
  <2> QED
    BY <2>3 DEF Reason
<1>4. [kind : {r \in {"count", "markers"} : /\ r = "count"   => Len(g) # Len(h)
                                            /\ r = "markers" => Markers(g) # Markers(h)}]
        \subseteq Reason
  BY DEF Reason
<1> QED
  BY <1>3, <1>4 DEF Diff

-----------------------------------------------------------------------------
(* The specification.                                                      *)

\* A storage that writes another version keeps its history dated.
LEMMA WriteDates ==
  ASSUME NEW h \in Seq(Version), Dated(h), Len(h) < MaxVersions,
         NEW c \in Contents, NEW t \in NextTimes(h)
  PROVE  LET v == [content |-> c, time |-> t]
         IN  v \in Version /\ Dated(Append(h, v)) /\ Append(h, v) \in Seq(Version)
<1> DEFINE v == [content |-> c, time |-> t]
           n == Len(h)
<1>1. n \in Nat /\ DOMAIN h = 1 .. n /\ \A i \in 1 .. n : h[i] \in Version
  OBVIOUS
<1>2. \A i \in 1 .. n : h[i].time \in Int /\ h[i].time >= 1
  BY <1>1, VersionTyped, MaxVersionsAssumption
<1>3. t \in Int /\ 1 <= t /\ t <= n + 1 /\ \A i \in 1 .. n : h[i].time <= t
  <2>1. CASE h = <<>>
    BY <1>1, <2>1 DEF NextTimes
  <2>2. CASE h # <<>>
    <3>1. n \in 1 .. n
      BY <1>1, <2>2
    <3>2. t \in {h[n].time, h[n].time + 1}
      BY <2>2 DEF NextTimes, Last
    <3>3. h[n].time <= n /\ \A i \in 1 .. n : h[i].time <= h[n].time
      BY <1>1, <3>1 DEF Dated
    <3> QED
      BY <1>1, <1>2, <3>1, <3>2, <3>3
  <2> QED
    BY <2>1, <2>2
<1>4. t \in 1 .. MaxVersions
  BY <1>1, <1>3, MaxVersionsAssumption
<1>5. v \in Version
  BY <1>4 DEF Version
<1>6. /\ Append(h, v) \in Seq(Version) /\ DOMAIN Append(h, v) = 1 .. n + 1
      /\ \A i \in 1 .. n : Append(h, v)[i] = h[i]
      /\ Append(h, v)[n + 1] = v
  BY <1>1, <1>5
<1>7. v.time = t
  OBVIOUS
<1> HIDE DEF v
<1>8. \A i \in 1 .. n + 1 : i \in 1 .. n \/ i = n + 1
  BY <1>1
<1>9. Dated(Append(h, v))
  <2> DEFINE u == Append(h, v)
  <2>1. \A i \in 1 .. n : u[i].time = h[i].time
    BY <1>6
  <2>2. u[n + 1].time = t
    BY <1>6, <1>7
  <2> HIDE DEF u
  <2>3. \A i \in 1 .. n + 1 : u[i].time <= i
    BY <1>1, <1>3, <1>8, <2>1, <2>2 DEF Dated
  <2>4. \A i, j \in 1 .. n + 1 : i <= j => u[i].time <= u[j].time
    BY <1>1, <1>3, <1>8, <2>1, <2>2 DEF Dated
  <2>5. DOMAIN u = 1 .. n + 1
    BY <1>6 DEF u
  <2> QED
    BY <2>3, <2>4, <2>5 DEF Dated, u
<1> QED
  BY <1>5, <1>6, <1>9 DEF v

\* No step of a storage or the tool breaks the types or the invariant.
LEMMA HistoryStep ==
  ASSUME TypeOK, HistoryInv, [Next \/ Compared]_vars
  PROVE  TypeOK' /\ HistoryInv'
<1>1. ASSUME NEW s \in Side, Write(s)
      PROVE  TypeOK' /\ HistoryInv'
  <2>1. PICK c \in Contents, t \in NextTimes(history[s]) :
          history' = [history EXCEPT ![s] = Append(@, [content |-> c, time |-> t])]
    BY <1>1 DEF Write
  <2> DEFINE w == Append(history[s], [content |-> c, time |-> t])
  <2>2. /\ history[s] \in Seq(Version) /\ Len(history[s]) \in Nat
        /\ Len(history[s]) < MaxVersions /\ Dated(history[s])
    BY <1>1 DEF Write, TypeOK, HistoryInv
  <2>3. Dated(w) /\ w \in Seq(Version)
    BY <2>2, WriteDates
  <2>4. Len(w) = Len(history[s]) + 1
    BY <2>2
  <2>5. history' = [history EXCEPT ![s] = w]
    BY <2>1
  <2> HIDE DEF w
  <2>6. Len(w) <= MaxVersions
    BY <2>2, <2>4, MaxVersionsAssumption
  <2>7. TypeOK'
    BY <1>1, <2>3, <2>5, <2>6 DEF Write, TypeOK
  <2>8. \A x \in Side : history'[x] = IF x = s THEN w ELSE history[x]
    BY <2>5 DEF TypeOK
  <2>9. s \notin seen /\ UNCHANGED <<seen, listed, compared, reasons>>
    BY <1>1 DEF Write
  <2> QED
    BY <2>3, <2>7, <2>8, <2>9 DEF HistoryInv, TypeOK
<1>2. ASSUME NEW s \in Side, List(s)
      PROVE  TypeOK' /\ HistoryInv'
  <2> DEFINE w == SortByTime(Listing(history[s]))
  <2>1. s \notin seen /\ seen' = seen \cup {s} /\ listed' = [listed EXCEPT ![s] = w]
        /\ UNCHANGED <<history, compared, reasons>>
    BY <1>2 DEF List
  <2>2. w \in Seq(Version)
    BY ListingPermutes, SortPermutes DEF TypeOK
  <2>3. \A x \in Side : listed'[x] = IF x = s THEN w ELSE listed[x]
    BY <2>1 DEF TypeOK
  <2>4. TypeOK'
    <3> HIDE DEF w
    <3> QED
      BY <2>1, <2>2 DEF TypeOK
  <2>5. ~compared
    BY <2>1 DEF HistoryInv
  <2> QED
    BY <2>1, <2>3, <2>4, <2>5 DEF HistoryInv, TypeOK
<1>3. CASE CompareVersions
  <2>1. /\ seen = Side /\ reasons' = Diff(listed["source"], listed["target"])
        /\ compared' = TRUE /\ UNCHANGED <<history, seen, listed>>
    BY <1>3 DEF CompareVersions
  <2>2. \A s \in Side : listed[s] \in Seq(Version) /\ Len(listed[s]) <= MaxVersions
    BY <2>1, ListingPermutes, SortPermutes DEF TypeOK, HistoryInv
  <2>3. reasons' \subseteq Reason
    BY <2>1, <2>2, DiffTyped DEF Side
  <2> QED
    BY <2>1, <2>3 DEF TypeOK, HistoryInv
<1>4. CASE UNCHANGED vars
  BY <1>4 DEF vars, TypeOK, HistoryInv
<1> QED
  BY <1>1, <1>2, <1>3, <1>4 DEF Next, Compared

\* Both hold in every state.
LEMMA HistoriesHold == Spec => [](TypeOK /\ HistoryInv)
<1>1. Init => TypeOK /\ HistoryInv
  <2> SUFFICES ASSUME Init PROVE TypeOK /\ HistoryInv
    OBVIOUS
  <2>1. <<>> \in Seq(Version) /\ Len(<<>>) = 0 /\ DOMAIN <<>> = {}
    OBVIOUS
  <2>2. \A s \in Side : history[s] = <<>> /\ Len(history[s]) <= MaxVersions
    BY <2>1, MaxVersionsAssumption DEF Init
  <2>3. history \in [Side -> Seq(Version)] /\ listed \in [Side -> Seq(Version)]
    BY <2>1 DEF Init
  <2>4. seen = {} /\ compared = FALSE /\ reasons = {}
    BY DEF Init
  <2>5. TypeOK
    BY <2>2, <2>3, <2>4 DEF TypeOK
  <2>6. \A s \in Side : Dated(history[s])
    BY <2>1, <2>2 DEF Dated
  <2> QED
    BY <2>4, <2>5, <2>6 DEF HistoryInv
<1> QED
  BY <1>1, HistoryStep, PTL DEF Spec

\* Histories, listings and reasons keep their types; sorting a listing never
\* makes anything else of it.
THEOREM TypeCorrect == Spec => []TypeOK
BY HistoriesHold, PTL

\* What was compared were the histories, in some order.
LEMMA ComparedListings ==
  ASSUME TypeOK, HistoryInv, compared
  PROVE  /\ \A s \in Side : /\ history[s] \in Seq(Version) /\ Dated(history[s])
                            /\ listed[s] \in Seq(Version)
                            /\ listed[s] = SortByTime(Listing(history[s]))
         /\ reasons = {} <=> SameHistory(listed["source"], listed["target"])
<1>1. \A s \in Side : /\ history[s] \in Seq(Version) /\ Dated(history[s])
                     /\ listed[s] \in Seq(Version)
                     /\ listed[s] = SortByTime(Listing(history[s]))
  BY DEF TypeOK, HistoryInv
<1>2. reasons = Diff(listed["source"], listed["target"])
  BY DEF HistoryInv
<1> QED
  BY <1>1, <1>2, NoReasonMeansSame DEF Side

\* Where times tell versions apart, the comparison says of two histories exactly
\* whether they are the same.
THEOREM OrderedHistoriesAreSettled == Spec => []OrderedHistoriesSettled
<1>1. TypeOK /\ HistoryInv => OrderedHistoriesSettled
  <2> SUFFICES ASSUME TypeOK, HistoryInv, compared,
                      \A s \in Side : DistinctTimes(history[s])
               PROVE  reasons = {} <=> SameHistory(history["source"], history["target"])
    BY DEF OrderedHistoriesSettled
  <2>1. \A s \in Side : listed[s] = history[s]
    BY ComparedListings, SortedIsHistory
  <2> QED
    BY <2>1, ComparedListings DEF Side
<1> QED
  BY <1>1, HistoriesHold, PTL

\* Whatever the times, a comparison without a reason has found as many versions
\* of each kind and size on one side as on the other.
THEOREM NothingIsLostUnseen == Spec => []NothingLostUnseen
<1>1. TypeOK /\ HistoryInv => NothingLostUnseen
  <2> SUFFICES ASSUME TypeOK, HistoryInv, compared, reasons = {}, NEW c \in Contents
               PROVE  Count(history["source"], c.marker, c.size)
                        = Count(history["target"], c.marker, c.size)
    BY DEF NothingLostUnseen
  <2> DEFINE g == listed["source"]
             h == listed["target"]
  <2>1. g \in Seq(Version) /\ h \in Seq(Version) /\ SameHistory(g, h)
    BY ComparedListings DEF Side
  <2>2. /\ Count(g, c.marker, c.size) = Count(history["source"], c.marker, c.size)
        /\ Count(h, c.marker, c.size) = Count(history["target"], c.marker, c.size)
    BY ComparedListings, SortedCount DEF Side
  <2> HIDE DEF g, h
  <2>3. DOMAIN g = DOMAIN h
    BY <2>1 DEF SameHistory
  <2>4. \A i \in DOMAIN g : /\ g[i].content.marker = h[i].content.marker
                           /\ g[i].content.size = h[i].content.size
    <3>1. \A i \in DOMAIN g : g[i] \in Version /\ h[i] \in Version
      BY <2>1, <2>3
    <3> QED
      BY <2>1, <3>1, VersionTyped, AlikeMeansCountedAlike DEF SameHistory
  <2>5. {i \in DOMAIN g : g[i].content.marker = c.marker /\ g[i].content.size = c.size}
          = {i \in DOMAIN h : h[i].content.marker = c.marker /\ h[i].content.size = c.size}
    BY <2>3, <2>4
  <2>6. Count(g, c.marker, c.size) = Count(h, c.marker, c.size)
    BY <2>5 DEF Count
  <2> QED
    BY <2>2, <2>6
<1> QED
  BY <1>1, HistoriesHold, PTL
=============================================================================
