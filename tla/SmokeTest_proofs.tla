--------------------------- MODULE SmokeTest_proofs ---------------------------
(***************************************************************************)
(* Proofs about the smoke test, for any bound on how often the client      *)
(* library sends an upload.                                                *)
(***************************************************************************)
EXTENDS SmokeTest, TLAPS

\* Until the upload is answered the key holds nothing but copies of uploads
\* without an answer, whatever fails; after the answer the code names the version
\* it wrote, and the key holds that version too until a deletion takes it away.
\* Only a deletion that names no version leaves a marker, and that one is sent
\* when no upload was answered.
ProbeInv ==
  /\ step = "PUT" => versionID = Unnamed /\ ~Answered /\ stored \subseteq Leftovers
  /\ step \notin {"PUT", "cleanup", "done"} => Answered
  /\ Answered => versionID = Named(attempts)
  /\ Answered /\ versioning # "silent" => stored \subseteq Leftovers \cup {Upload(attempts)}
  /\ removed => Answered /\ (versioning # "silent" => stored \subseteq Leftovers)
  /\ step = "recheck" \/ check = "PASS" => removed

\* The code's constants and the names of versions, for the provers.
LEMMA VersionsTyped ==
  /\ MaxAttempts \in Nat /\ MaxAttempts >= 1
  /\ Null = 0 /\ Marker = MaxAttempts + 1 /\ Unnamed = MaxAttempts + 2
BY MaxAttemptsAssumption DEF Null, Marker, Unnamed

\* A DELETE that reaches the target keeps what the key holds well-typed.
LEMMA RemoveTyped ==
  ASSUME TypeOK, NEW id \in Null .. MaxAttempts \cup {Unnamed}, Remove(id)
  PROVE  /\ stored' \subseteq Null .. Marker
         /\ removed' \in BOOLEAN
         /\ since' = {}
         /\ UNCHANGED <<attempts, late, unanswered>>
BY VersionsTyped DEF TypeOK, Remove, Without, Answered

\* The state of the smoke test keeps its types.
THEOREM TypeCorrect == Spec => []TypeOK
<1>1. Init => TypeOK
  <2> SUFFICES ASSUME Init PROVE TypeOK
    OBVIOUS
  <2>1. locked \in BOOLEAN /\ (locked => versioning = "enabled")
    BY Zenon DEF Init
  <2>2. {cancelled, removed} \subseteq BOOLEAN
    BY Zenon DEF Init
  <2> QED
    BY <2>1, <2>2, VersionsTyped DEF Init, TypeOK, Steps
<1>2. TypeOK /\ [Next \/ Done]_vars => TypeOK'
  <2> SUFFICES ASSUME TypeOK, [Next \/ Done]_vars PROVE TypeOK'
    OBVIOUS
  <2> USE DEF target, bucket
  <2>1. CASE Interrupt
    BY <2>1 DEF Interrupt, TypeOK
  <2>2. CASE UploadUnanswered
    BY <2>2, VersionsTyped DEF UploadUnanswered, TypeOK
  <2>3. CASE LateUpload
    BY <2>3, VersionsTyped DEF LateUpload, Upload, TypeOK
  <2>4. CASE PutAnswered
    BY <2>4, VersionsTyped DEF PutAnswered, Upload, Named, TypeOK, Steps
  <2>5. ASSUME NEW here \in Steps, NEW there \in Steps, ReadBack(here, there)
        PROVE  TypeOK'
    BY <2>5 DEF ReadBack, TypeOK
  <2>6. CASE Delete
    <3>1. /\ stored' \subseteq Null .. Marker
          /\ removed' \in BOOLEAN
          /\ since' = {}
          /\ UNCHANGED <<attempts, late, unanswered>>
      BY <2>6, RemoveTyped DEF Delete, TypeOK
    <3> QED
      BY <2>6, <3>1 DEF Delete, TypeOK, Steps
  <2>7. CASE StillPresent \/ Gone \/ Fail
    <3>1. /\ step' \in Steps /\ check' \in {"none", "PASS", "FAIL"}
          /\ UNCHANGED <<target, versionID, cancelled, bucket>>
      BY <2>7 DEF StillPresent, Gone, Fail, Steps, TypeOK
    <3> QED
      BY <3>1 DEF TypeOK
  <2>8. CASE Cleanup
    <3>1. CASE Remove(versionID)
      <4>1. /\ stored' \subseteq Null .. Marker
            /\ removed' \in BOOLEAN
            /\ since' = {}
            /\ UNCHANGED <<attempts, late, unanswered>>
        BY <3>1, RemoveTyped DEF TypeOK
      <4> QED
        BY <2>8, <4>1 DEF Cleanup, TypeOK, Steps
    <3>2. CASE UNCHANGED bucket
      BY <2>8, <3>2 DEF Cleanup, TypeOK, Steps
    <3> QED
      BY <2>8, <3>1, <3>2 DEF Cleanup
  <2>9. CASE UNCHANGED vars
    BY <2>9 DEF vars, TypeOK
  <2> QED
    BY <2>1, <2>2, <2>3, <2>4, <2>5, <2>6, <2>7, <2>8, <2>9 DEF Next, smokeTest, Done, Steps
<1> QED
  BY <1>1, <1>2, PTL DEF Spec

\* An upload that is carried out late adds a copy to those that may be left,
\* and no other.
LEMMA LateUploadLeaves ==
  ASSUME TypeOK, LateUpload
  PROVE  \E n \in late : /\ stored' = stored \cup {Upload(n)}
                         /\ Leftovers' = Leftovers \cup {Upload(n)}
<1>1. PICK n \in late : /\ late' = late \ {n}
                        /\ stored' = stored \cup {Upload(n)}
                        /\ since' = since \cup {n}
  BY DEF LateUpload
<1>2. versioning' = versioning /\ unanswered' = unanswered
  BY DEF LateUpload, target
<1>3. CASE versioning = "enabled"
  <2>1. unanswered \ late' = (unanswered \ late) \cup {n}
    BY <1>1 DEF TypeOK
  <2>2. Leftovers = unanswered \ late /\ Leftovers' = unanswered \ late'
    BY <1>2, <1>3 DEF Leftovers, Upload
  <2> QED
    BY <1>1, <1>3, <2>1, <2>2 DEF Upload
<1>4. CASE versioning # "enabled"
  <2>1. Leftovers = {Null : m \in since} /\ Leftovers' = {Null : m \in since'}
    BY <1>2, <1>4 DEF Leftovers, Upload
  <2> QED
    BY <1>1, <1>4, <2>1 DEF Upload
<1> QED
  BY <1>3, <1>4

\* A deletion of the version that was answered, in a bucket that names it or
\* has no versions, leaves nothing but copies of other uploads.
LEMMA RemovingTheProbe ==
  ASSUME TypeOK, ProbeInv, Answered, versioning # "silent", Remove(versionID), UNCHANGED target
  PROVE  stored' \subseteq Leftovers'
<1>1. versionID = Named(attempts) /\ stored \subseteq Leftovers \cup {Upload(attempts)}
  BY DEF ProbeInv
<1>2. stored' = Without(versionID) /\ UNCHANGED <<late, unanswered, versioning>>
  BY DEF Remove, target
<1>3. CASE versioning = "enabled"
  <2>1. Leftovers' = Leftovers /\ versionID = attempts /\ Upload(attempts) = attempts
    BY <1>1, <1>2, <1>3 DEF Leftovers, Named, Upload
  <2>2. stored' = stored \ {attempts}
    BY <1>2, <2>1, VersionsTyped DEF Without, TypeOK
  <2> QED
    BY <1>1, <2>1, <2>2
<1>4. CASE versioning \in {"suspended", "off"}
  <2>1. stored \subseteq {Null}
    BY <1>1, <1>4 DEF Leftovers, Upload
  <2>2. stored' = stored \ {Null}
    BY <1>1, <1>2, <1>4, VersionsTyped DEF Without, Named
  <2> QED
    BY <2>1, <2>2
<1> QED
  BY <1>3, <1>4 DEF TypeOK, Versioning

\* A deletion says so when the upload was answered.
LEMMA Removing ==
  ASSUME NEW id, Remove(id)
  PROVE  UNCHANGED <<attempts, unanswered>> /\ removed' = Answered /\ Answered' = Answered
BY DEF Remove, Answered

\* No step of the test, the target or the network breaks the invariant.
LEMMA ProbeInvStep ==
  ASSUME TypeOK, ProbeInv, [Next \/ Done]_vars
  PROVE  ProbeInv'
<1> USE DEF target, bucket
<1>1. CASE Interrupt \/ StillPresent \/ Gone \/ Fail \/ ReadBack("HEAD", "GET")
           \/ ReadBack("GET", "PRESIGNED-GET") \/ ReadBack("PRESIGNED-GET", "DELETE")
  <2>1. /\ UNCHANGED <<versioning, versionID, bucket>>
        /\ Answered' = Answered /\ Leftovers' = Leftovers /\ Named(attempts)' = Named(attempts)
        /\ Upload(attempts)' = Upload(attempts)
    BY <1>1 DEF Interrupt, StillPresent, Gone, Fail, ReadBack, Answered, Leftovers, Named, Upload
  <2>2. /\ step' = "PUT" => step = "PUT"
        /\ step' \notin {"PUT", "cleanup", "done"} => step \notin {"PUT", "cleanup", "done"}
        /\ step' = "recheck" => step = "recheck"
        /\ check' = "PASS" => check = "PASS" \/ step = "recheck"
    BY <1>1 DEF Interrupt, StillPresent, Gone, Fail, ReadBack
  <2> QED
    BY <2>1, <2>2 DEF ProbeInv
<1>2. CASE UploadUnanswered
  <2>1. step = "PUT" /\ ~Answered /\ versionID = Unnamed /\ stored \subseteq Leftovers
    BY <1>2 DEF UploadUnanswered, ProbeInv
  <2>2. ~Answered'
    BY <1>2 DEF UploadUnanswered, Answered
  <2>3. Leftovers' = Leftovers
    <3>1. attempts + 1 \notin late /\ attempts + 1 \notin unanswered
      BY DEF TypeOK
    <3>2. unanswered' \ late' = unanswered \ late
      BY <1>2, <3>1 DEF UploadUnanswered
    <3> QED
      BY <1>2, <3>2 DEF UploadUnanswered, Leftovers, Upload
  <2> QED
    BY <1>2, <2>1, <2>2, <2>3 DEF UploadUnanswered, ProbeInv
<1>3. CASE LateUpload
  <2>1. PICK n \in late : /\ stored' = stored \cup {Upload(n)}
                          /\ Leftovers' = Leftovers \cup {Upload(n)}
    BY <1>3, LateUploadLeaves
  <2>2. /\ UNCHANGED <<versioning, step, versionID, check, removed>> /\ Answered' = Answered
        /\ Named(attempts)' = Named(attempts) /\ Upload(attempts)' = Upload(attempts)
    BY <1>3 DEF LateUpload, Answered, Named, Upload
  <2> QED
    BY <2>1, <2>2 DEF ProbeInv
<1>4. CASE PutAnswered
  <2>1. step = "PUT" /\ ~Answered /\ stored \subseteq Leftovers /\ ~removed /\ check # "PASS"
    BY <1>4 DEF PutAnswered, ProbeInv
  <2>2. /\ step' = "HEAD" /\ UNCHANGED <<versioning, check, removed>> /\ Leftovers' = Leftovers
        /\ versionID' = Named(attempts)' /\ stored' = stored \cup {Upload(attempts)'}
    BY <1>4 DEF PutAnswered, Leftovers, Named, Upload
  <2>3. Answered'
    <3>1. attempts \in Nat /\ unanswered \subseteq 1 .. attempts
      BY DEF TypeOK
    <3>2. attempts' = attempts + 1 /\ unanswered' = unanswered
      BY <1>4 DEF PutAnswered
    <3> QED
      BY <3>1, <3>2 DEF Answered
  <2> QED
    BY <2>1, <2>2, <2>3 DEF ProbeInv
<1>5. ASSUME Remove(versionID), step \in {"DELETE", "cleanup"}, check' # "PASS" \/ check' = check,
             UNCHANGED <<target, versionID>>, step' \in {"recheck", "cleanup", "done"},
             step' = "recheck" => step = "DELETE"
      PROVE  ProbeInv'
  <2>1. /\ removed' = Answered /\ Answered' = Answered
        /\ Named(attempts)' = Named(attempts) /\ Upload(attempts)' = Upload(attempts)
    BY <1>5, Removing DEF Named, Upload
  <2>2. Answered /\ versioning # "silent" => stored' \subseteq Leftovers'
    BY <1>5, RemovingTheProbe
  <2>3. step' = "recheck" \/ check' = "PASS" => Answered
    BY <1>5 DEF ProbeInv
  <2>4. step' = "recheck" \/ check' = "PASS" => removed'
    BY <2>1, <2>3
  <2>5. versioning' = versioning /\ versionID' = versionID
    BY <1>5
  <2>6. step' \notin {"PUT", "cleanup", "done"} => Answered
    BY <1>5, <2>3
  <2>7. step' # "PUT"
    BY <1>5
  <2>8. Answered => versionID = Named(attempts)
    BY DEF ProbeInv
  <2> HIDE <1>5
  <2> QED
    BY <2>1, <2>2, <2>4, <2>5, <2>6, <2>7, <2>8 DEF ProbeInv
<1>6. CASE Delete
  BY <1>5, <1>6 DEF Delete
<1>7. CASE Cleanup
  <2>1. CASE Remove(versionID)
    BY <1>5, <1>7, <2>1 DEF Cleanup
  <2>2. CASE UNCHANGED bucket
    BY <1>7, <2>2 DEF Cleanup, ProbeInv, Answered, Leftovers, Named, Upload
  <2> QED
    BY <1>7, <2>1, <2>2 DEF Cleanup
<1>8. CASE UNCHANGED vars
  BY <1>8 DEF vars, ProbeInv, Answered, Leftovers, Named, Upload
<1> QED
  BY <1>1, <1>2, <1>3, <1>4, <1>6, <1>7, <1>8 DEF Next, smokeTest, Done

\* Where the test is tells what it may have left behind.
LEMMA ProbeInvHolds == Spec => [](TypeOK /\ ProbeInv)
<1>1. Init => ProbeInv
  BY DEF Init, ProbeInv, Answered
<1> QED
  BY <1>1, ProbeInvStep, TypeCorrect, PTL DEF Spec

\* A smoke test that passes has had its deletion carried out, and has left
\* neither its probe nor a marker, whatever arrives late: all that may be left
\* are copies of uploads that were repeated.
THEOREM PassRemoves == Spec => []PassMeansRemoved
<1>1. ProbeInv => PassMeansRemoved
  BY DEF ProbeInv, PassMeansRemoved
<1> QED
  BY <1>1, ProbeInvHolds, PTL

\* One deletion that gets through after an answered upload removes all but the
\* copies of uploads without an answer, and everything when there are none.
THEOREM OneRemovalSuffices == Spec => []RemovalSuffices
<1>1. TypeOK /\ unanswered = {} => Leftovers = {}
  BY DEF TypeOK, Leftovers
<1>2. TypeOK /\ ProbeInv => RemovalSuffices
  BY <1>1 DEF ProbeInv, RemovalSuffices
<1> QED
  BY <1>2, ProbeInvHolds, PTL
=============================================================================
