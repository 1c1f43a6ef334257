-------------------------- MODULE VerifierRun_proofs --------------------------
(***************************************************************************)
(* Proofs about one execution of migration-verify, for any command lines,  *)
(* any buckets on either side and any rights of the keys.                  *)
(***************************************************************************)
EXTENDS VerifierRun, FiniteSetTheorems, SequenceTheorems, TLAPS

\* The roll-up is proved about beside the verdicts, and takes none of their
\* constants.
Roll == INSTANCE ObjectVerdict_proofs
          WITH Configs <- {}, Pairs <- {}, SSEHeaders <- {}, SeparateHeaders <- {}, Md5ETags <- {}

Pair == [source : Seq(STRING), target : Seq(STRING)]

\* There are no pairs and no results before the inventory.
NothingYet == phase \in {"flags", "ping", "inventory", "aborted"} => pairs = <<>> /\ results = <<>>

\* What the pairs are once the inventory is taken.
PairsAsked ==
  IF line.AllBuckets THEN Range(pairs) = {SameName(b) : b \in visible["source"]}
  ELSE pairs = Buckets(line)

\* The report of a verification that was carried out.
Reported ==
  /\ \A s \in Side : reach[s] \notin {"none", "failed"}
  /\ PairsAsked
  /\ Len(results) = Len(pairs)
  /\ status = BucketStatus(checks \cup Range(results))

\* The exit code of such a report.
ReportExit == ExitCode(status, FALSE, line.FailOnWarn)

\* A report is built in the order of Run's sections; a result that is not an
\* ERROR was read on both sides, and one that passes was found there; once the
\* context is cancelled, the next bucket is an ERROR.
RunInv ==
  /\ \A s \in Side : reach[s] = "listed" => visible[s] = exists[s]
  /\ phase = "flags" => reach = [s \in Side |-> "none"]
  /\ phase = "aborted" => Unreachable
  /\ phase \in {"inventory", "buckets"} => \A s \in Side : reach[s] \notin {"none", "failed"}
  /\ phase = "buckets" => PairsAsked
  /\ phase = "report" => Reported
  /\ "ERROR" \notin checks
  /\ \A i \in DOMAIN results :
       results[i] \in {"PASS", "WARN"} =>
         pairs[i].source \in exists["source"] /\ pairs[i].target \in exists["target"]
  /\ cut => cancelled
  /\ cut /\ pairs # <<>> => "ERROR" \in Range(results) \/ Len(results) < Len(pairs)
  /\ exit = -1 <=> phase # "exited"
  /\ phase = "exited" =>
       \/ exit = 2 /\ (reach["source"] = "none" \/ Unreachable)
       \/ Reported /\ exit = ReportExit

-----------------------------------------------------------------------------
(* What the helpers return.                                                *)

\* Both modules roll up the same way.
LEMMA RollIsRoll ==
  /\ \A S : BucketStatus(S) = Roll!BucketStatus(S)
  /\ \A G, B : OverallStatus(G, B) = Roll!OverallStatus(G, B)
  /\ Status = Roll!Status /\ FinalStatus = Roll!FinalStatus
BY Zenon DEF BucketStatus, Roll!BucketStatus, OverallStatus, Roll!OverallStatus,
             Normalised, Roll!Normalised, Worst, Roll!Worst, Worse, Roll!Worse,
             rank, Roll!rank, Status, Roll!Status, FinalStatus, Roll!FinalStatus

\* The first of ERROR, FAIL and WARN that a bucket has, and PASS if it has none.
LEMMA BucketStatusIsWorst ==
  ASSUME NEW S \in SUBSET Status
  PROVE  BucketStatus(S) = IF "ERROR" \in S THEN "ERROR"
                           ELSE IF "FAIL" \in S THEN "FAIL"
                           ELSE IF "WARN" \in S THEN "WARN" ELSE "PASS"
BY RollIsRoll, Roll!BucketStatusIsWorst

\* A bucket ends with one of the four statuses the exit code knows.
LEMMA BucketStatusIsFinal ==
  ASSUME NEW S \in SUBSET Status
  PROVE  BucketStatus(S) \in FinalStatus
BY BucketStatusIsWorst DEF FinalStatus

\* The status of a run is the worst of all its checks.
LEMMA OverallStatusIsWorst ==
  ASSUME NEW G \in SUBSET Status, NEW B \in SUBSET (SUBSET Status)
  PROVE  OverallStatus(G, B) = BucketStatus(G \cup UNION B)
BY RollIsRoll, Roll!OverallStatusIsWorst

\* main's exit codes, spelled out.
LEMMA ExitCodeSpelled ==
  ASSUME NEW st \in FinalStatus, NEW strict \in BOOLEAN
  PROVE  /\ ExitCode(st, TRUE, strict) = 2
         /\ st = "PASS" => ExitCode(st, FALSE, strict) = 0
         /\ st = "WARN" => ExitCode(st, FALSE, strict) = IF strict THEN 1 ELSE 0
         /\ st = "FAIL" => ExitCode(st, FALSE, strict) = 1
         /\ st = "ERROR" => ExitCode(st, FALSE, strict) = 2
<1>1. st \in {"PASS", "WARN", "FAIL", "ERROR"}
  BY DEF FinalStatus
<1> QED
  BY <1>1, Zenon DEF ExitCode

\* A finite set is enumerated completely.
LEMMA SetToSeqEnumerates ==
  ASSUME NEW S, IsFiniteSet(S)
  PROVE  SetToSeq(S) \in Seq(S) /\ Range(SetToSeq(S)) = S
<1> DEFINE n == Cardinality(S)
           f == SetToSeq(S)
<1>1. n \in Nat /\ ExistsBijection(1 .. n, S)
  BY FS_CardinalityType
<1>2. \E g \in [1 .. n -> S] : IsInjective(g)
  BY <1>1 DEF ExistsBijection, Bijection, Injection
<1>3. f \in [1 .. n -> S] /\ IsInjective(f)
  BY <1>2 DEF SetToSeq
<1>4. f \in Injection(1 .. n, S)
  BY <1>3 DEF Injection
<1>5. Cardinality(1 .. n) = n
  BY <1>1, FS_Interval
<1>6. f \in Surjection(1 .. n, S)
  BY <1>4, <1>5, FS_Injection
<1>7. \A t \in S : \E i \in 1 .. n : f[i] = t
  BY <1>6 DEF Surjection
<1> HIDE DEF f
<1>8. f \in Seq(S)
  BY <1>1, <1>3
<1>9. Range(f) = S
  BY <1>3, <1>7 DEF Range
<1> QED
  BY <1>8, <1>9 DEF f

\* A sequence is what is before a position, what is there, and what is after.
LEMMA SplitAt ==
  ASSUME NEW S, NEW s \in Seq(S), NEW i \in 1 .. Len(s)
  PROVE  s = SubSeq(s, 1, i - 1) \o <<s[i]>> \o SubSeq(s, i + 1, Len(s))
<1>1. SubSeq(s, 1, i) = SubSeq(s, 1, i - 1) \o <<s[i]>>
  <2>1. 1 \in 1 .. Len(s)
    OBVIOUS
  <2> QED
    BY <2>1, SubSeqRecursiveSecond
<1>2. SubSeq(s, 1, i) \o SubSeq(s, i + 1, Len(s)) = SubSeq(s, 1, Len(s))
  <2>1. 1 \in 1 .. Len(s) + 1 /\ i \in 1 - 1 .. Len(s) /\ Len(s) \in i .. Len(s)
    OBVIOUS
  <2> QED
    BY <2>1, ConcatAdjacentSubSeq
<1> QED
  BY <1>1, <1>2, SubSeqFull

\* What an argument is parsed into is what it denotes.
LEMMA BucketArgDenotes ==
  ASSUME NEW arg \in Seq(STRING) \ {<<>>}
  PROVE  /\ ParseBucketArg(arg) \in Pair
         /\ Denotes(arg, ParseBucketArg(arg).source, ParseBucketArg(arg).target)
<1> DEFINE I == {j \in 1 .. Len(arg) : arg[j] = Colon}
           i == SelectInSeq(arg, LAMBDA c : c = Colon)
           src == SubSeq(arg, 1, i - 1)
           dst == SubSeq(arg, i + 1, Len(arg))
<1>1. Len(arg) \in Nat
  OBVIOUS
<1>2. CASE I = {}
  <2>1. i = 0
    BY <1>2 DEF SelectInSeq
  <2>2. ParseBucketArg(arg) = [source |-> arg, target |-> arg]
    BY <2>1 DEF ParseBucketArg
  <2> QED
    BY <2>2 DEF Pair, Denotes
<1>3. CASE I # {}
  <2>1. \E m \in I : \A k \in I : m <= k
    <3>1. I \in SUBSET Nat
      BY <1>1
    <3>2. PICK m \in I : \A k \in I : <<k, m>> \notin OpToRel(<, Nat)
      BY <3>1, <1>3, NatLessThanWellFounded, WFMin
    <3>3. \A k \in I : ~(k < m)
      BY <3>1, <3>2 DEF OpToRel
    <3> QED
      BY <3>1, <3>3
  <2>2. i \in I
    BY <1>3, <2>1 DEF SelectInSeq, Min
  <2> HIDE DEF i
  <2>3. i \in 1 .. Len(arg) /\ arg[i] = Colon
    BY <2>2
  <2>4. CASE i > 1
    <3>1. ParseBucketArg(arg) = [source |-> src, target |-> dst]
      BY <2>4 DEF ParseBucketArg, i
    <3>2. src \in Seq(STRING) /\ Len(src) = i - 1 /\ \A k \in 1 .. i - 1 : src[k] = arg[k]
      BY <1>1, <2>3
    <3>3. /\ dst \in Seq(STRING) /\ Len(dst) = Len(arg) - i
          /\ \A k \in 1 .. Len(arg) - i : dst[k] = arg[i + k]
      BY <1>1, <2>3
    <3>4. arg = src \o <<Colon>> \o dst
      BY <2>3, SplitAt
    <3> HIDE DEF src, dst
    <3> QED
      BY <3>1, <3>2, <3>3, <3>4 DEF Pair, Denotes
  <2>5. CASE ~(i > 1)
    <3>1. ParseBucketArg(arg) = [source |-> arg, target |-> arg]
      BY <2>5 DEF ParseBucketArg, i
    <3> QED
      BY <3>1 DEF Pair, Denotes
  <2> QED
    BY <2>4, <2>5
<1> QED
  BY <1>2, <1>3

\* The roll-up of the report, over the statuses of its buckets.
LEMMA RollUp ==
  ASSUME NEW C \in SUBSET Status, NEW rs \in Seq(FinalStatus)
  PROVE  OverallStatus(C, {{rs[j]} : j \in DOMAIN rs}) = BucketStatus(C \cup Range(rs))
<1> DEFINE B == {{rs[j]} : j \in DOMAIN rs}
<1>1. \A j \in DOMAIN rs : rs[j] \in Status
  BY DEF Status, FinalStatus
<1>2. B \in SUBSET (SUBSET Status)
  BY <1>1
<1>3. UNION B = Range(rs)
  BY DEF Range
<1> HIDE DEF B
<1>4. OverallStatus(C, B) = BucketStatus(C \cup UNION B)
  BY <1>2, OverallStatusIsWorst
<1> QED
  BY <1>3, <1>4 DEF B

\* The Config of a command line: the arguments parsed one by one, and the
\* defaults filled in.
LEMMA ConfigTyped ==
  ASSUME NEW l \in Lines
  PROVE  /\ Validated(l).AllBuckets = l.AllBuckets /\ l.AllBuckets \in BOOLEAN
         /\ Validated(l).FailOnWarn = l.FailOnWarn /\ l.FailOnWarn \in BOOLEAN
         /\ Validated(l).Buckets = Buckets(l) /\ Buckets(l) \in Seq(Pair)
         /\ DOMAIN l.Args = 1 .. Len(Buckets(l))
         /\ \A i \in 1 .. Len(Buckets(l)) :
              /\ l.Args[i] \in Seq(STRING) \ {<<>>}
              /\ Buckets(l)[i] = ParseBucketArg(l.Args[i])
         /\ Validated(l).Concurrency \in Nat \ {0}
         /\ Validated(l).RequestTimeout \in Nat \ {0}
         /\ Accepted(l) => Validated(l).CheckVersions \in {"auto", "on", "off"}
<1>1. /\ l.AllBuckets \in BOOLEAN /\ l.FailOnWarn \in BOOLEAN
      /\ l.Concurrency \in Int /\ l.RequestTimeout \in Int
      /\ l.Args \in Seq(Seq(STRING) \ {<<>>})
  BY LinesAssumption
<1>2. \A i \in DOMAIN l.Args : l.Args[i] \in Seq(STRING) \ {<<>>}
  BY <1>1
<1>3. \A i \in DOMAIN l.Args : ParseBucketArg(l.Args[i]) \in Pair
  BY <1>2, BucketArgDenotes
<1>4. DOMAIN l.Args = 1 .. Len(l.Args) /\ Len(l.Args) \in Nat
  BY <1>1
<1>5. /\ Buckets(l) \in Seq(Pair) /\ Len(Buckets(l)) = Len(l.Args)
      /\ \A i \in DOMAIN l.Args : Buckets(l)[i] = ParseBucketArg(l.Args[i])
  BY <1>3, <1>4 DEF Buckets
<1>6. /\ OrDefault(l.Concurrency, 8) \in Nat \ {0}
      /\ OrDefault(l.RequestTimeout, 120) \in Nat \ {0}
  BY <1>1 DEF OrDefault
<1>7. Accepted(l) => Validated(l).CheckVersions \in {"auto", "on", "off"}
  BY DEF Validated, Accepted
<1>8. /\ Validated(l).AllBuckets = l.AllBuckets
      /\ Validated(l).FailOnWarn = l.FailOnWarn
      /\ Validated(l).Buckets = Buckets(l)
      /\ Validated(l).Concurrency = OrDefault(l.Concurrency, 8)
      /\ Validated(l).RequestTimeout = OrDefault(l.RequestTimeout, 120)
  BY DEF Validated
<1>9. /\ DOMAIN l.Args = 1 .. Len(Buckets(l))
      /\ \A i \in 1 .. Len(Buckets(l)) : /\ l.Args[i] \in Seq(STRING) \ {<<>>}
                                         /\ Buckets(l)[i] = ParseBucketArg(l.Args[i])
  BY <1>2, <1>4, <1>5, Zenon
<1>10. /\ Validated(l).Concurrency \in Nat \ {0}
       /\ Validated(l).RequestTimeout \in Nat \ {0}
  BY <1>6, <1>8, Zenon
<1> QED
  BY <1>1, <1>5, <1>7, <1>8, <1>9, <1>10, Zenon

-----------------------------------------------------------------------------
(* Types.                                                                  *)

\* Whether they are asked for or found, the pairs are pairs of names.
LEMMA PairsTyped ==
  ASSUME TypeOK, Inventory
  PROVE  pairs' \in Seq(Pair) /\ PairsAsked'
<1> DEFINE S == {SameName(b) : b \in visible["source"]}
<1>1. CASE line.AllBuckets
  <2>1. IsFiniteSet(visible["source"]) /\ visible["source"] \subseteq Seq(STRING)
    BY NamesAssumption, FS_Subset DEF TypeOK, Side
  <2>2. IsFiniteSet(S)
    <3> DEFINE g == [b \in visible["source"] |-> SameName(b)]
    <3>1. g \in Surjection(visible["source"], S)
      BY DEF Surjection
    <3> QED
      BY <2>1, <3>1, FS_Surjection
  <2>3. pairs' = SetToSeq(S) /\ line' = line /\ visible' = visible
    BY <1>1, ConfigTyped DEF Inventory, TypeOK, cfg, given, ping
  <2>4. S \subseteq Pair
    BY <2>1 DEF SameName, Pair
  <2> HIDE DEF S
  <2>5. pairs' \in Seq(S) /\ Range(pairs') = S
    BY <2>2, <2>3, SetToSeqEnumerates
  <2>6. pairs' \in Seq(Pair)
    BY <2>4, <2>5
  <2> QED
    BY <1>1, <2>3, <2>5, <2>6 DEF PairsAsked, S
<1>2. CASE ~line.AllBuckets
  <2>1. pairs' = Buckets(line) /\ Buckets(line) \in Seq(Pair) /\ line' = line
    BY <1>2, ConfigTyped DEF Inventory, TypeOK, cfg, given
  <2> QED
    BY <1>2, <2>1 DEF PairsAsked, Buckets
<1> QED
  BY <1>1, <1>2

\* Every bucket ends with a status the exit code knows.
LEMMA OutcomesTyped ==
  ASSUME NEW p
  PROVE  Outcomes(p) \subseteq FinalStatus
BY DEF Outcomes, FinalStatus

\* So does the whole report ...
LEMMA RollUpTyped ==
  ASSUME TypeOK
  PROVE  OverallStatus(checks, {{results[i]} : i \in DOMAIN results}) \in FinalStatus
<1>1. checks \cup Range(results) \in SUBSET Status
  <2>1. Range(results) \in SUBSET FinalStatus
    BY RangeOfSeq DEF TypeOK
  <2> QED
    BY <2>1 DEF TypeOK, Status, FinalStatus
<1> QED
  BY <1>1, RollUp, BucketStatusIsFinal DEF TypeOK

\* ... and the program.
LEMMA ExitTyped ==
  ASSUME TypeOK, phase \in {"aborted", "report"}
  PROVE  ExitCode(status, phase = "aborted", cfg.FailOnWarn) \in 0 .. 2
<1> DEFINE code == ExitCode(status, phase = "aborted", cfg.FailOnWarn)
<1>1. (phase = "aborted") = TRUE \/ (phase = "aborted") = FALSE
  OBVIOUS
<1>2. cfg.FailOnWarn \in BOOLEAN
  BY ConfigTyped DEF TypeOK, cfg
<1>3. status \in {"PASS", "WARN", "FAIL", "ERROR", "none"}
  BY DEF TypeOK, FinalStatus
<1>4. code = 0 \/ code = 1 \/ code = 2
  BY <1>1, <1>2, <1>3, Zenon DEF ExitCode
<1> HIDE DEF code
<1>5. code \in 0 .. 2
  BY <1>4
<1> QED
  BY <1>5 DEF code

\* Types, with the emptiness they rest on.
LEMMA TypesHold == Spec => [](TypeOK /\ NothingYet)
<1>1. Init => TypeOK /\ NothingYet
  <2> SUFFICES ASSUME Init PROVE TypeOK /\ NothingYet
    OBVIOUS
  <2>1. {cancelled, cut} \subseteq BOOLEAN
    BY Zenon DEF Init
  <2>2. results \in Seq(FinalStatus) /\ pairs \in Seq(Pair) /\ Len(results) <= Len(pairs)
    BY DEF Init
  <2> QED
    BY <2>1, <2>2 DEF Init, TypeOK, NothingYet, Phases, Pair
<1>2. TypeOK /\ NothingYet /\ [Next \/ Exited]_vars => (TypeOK /\ NothingYet)'
  <2> SUFFICES ASSUME TypeOK, NothingYet, [Next \/ Exited]_vars PROVE (TypeOK /\ NothingYet)'
    OBVIOUS
  <2> USE DEF given, ping, report, signal, Phases
  <2>0. line' = line /\ cfg' = cfg
    BY DEF Next, Run, Exited, Interrupt, Reject, Accept, PingLists, PingFallsBack, PingDenied,
           PingFails, Pinged, Abort, Connected, Inventory, VerifyNext, Recompute, Exit, vars, cfg
  <2>1. CASE Interrupt
    <3>1. {cancelled', cut'} \subseteq BOOLEAN
      BY <2>1 DEF Interrupt
    <3> QED
      BY <2>0, <2>1, <3>1 DEF Interrupt, TypeOK, NothingYet
  <2>2. CASE Reject
    BY <2>0, <2>2 DEF Reject, TypeOK, NothingYet
  <2>3. CASE Accept
    BY <2>0, <2>3, ConfigTyped DEF Accept, TypeOK, NothingYet, cfg
  <2>4. ASSUME NEW s \in Side,
               PingLists(s) \/ PingFallsBack(s) \/ PingDenied(s) \/ PingFails(s)
        PROVE  (TypeOK /\ NothingYet)'
    <3>1. \E outcome \in {"listed", "fallback", "failed"}, found \in SUBSET Names :
            Pinged(s, outcome, found)
      BY <2>4 DEF PingLists, PingFallsBack, PingDenied, PingFails, TypeOK, NothingYet
    <3>2. lost' \subseteq Side
      BY <2>4 DEF PingLists, PingFallsBack, PingDenied, PingFails, TypeOK, NothingYet
    <3> QED
      BY <2>0, <3>1, <3>2 DEF Pinged, TypeOK, NothingYet
  <2>5. CASE Abort
    <3>1. checks' \in SUBSET Status
      BY <2>5 DEF Abort, connCheck, Status
    <3>2. status' \in FinalStatus
      <4>1. OverallStatus(checks', {}) = BucketStatus(checks' \cup UNION {})
        BY <3>1, OverallStatusIsWorst
      <4>2. checks' \cup UNION {} \in SUBSET Status
        BY <3>1
      <4> QED
        BY <2>5, <4>1, <4>2, BucketStatusIsFinal DEF Abort
    <3> QED
      BY <2>0, <2>5, <3>1, <3>2 DEF Abort, PingsDone, TypeOK, NothingYet
  <2>6. CASE Connected
    <3>1. checks' \in SUBSET Status
      BY <2>6 DEF Connected, connCheck, Status
    <3> QED
      BY <2>0, <2>6, <3>1 DEF Connected, PingsDone, TypeOK, NothingYet
  <2>7. CASE Inventory
    <3>1. checks' \in SUBSET Status
      BY <2>7 DEF Inventory, InventoryStatus, Status, TypeOK, NothingYet
    <3>2. pairs' \in Seq(Pair)
      BY <2>7, PairsTyped DEF Inventory
    <3> QED
      BY <2>0, <2>7, <3>1, <3>2 DEF Inventory, TypeOK, NothingYet, Pair
  <2>8. CASE VerifyNext
    <3>1. results' \in Seq(FinalStatus) /\ Len(results') <= Len(pairs)
      BY <2>8, OutcomesTyped DEF VerifyNext, TypeOK, NothingYet
    <3> QED
      BY <2>0, <2>8, <3>1 DEF VerifyNext, TypeOK, NothingYet
  <2>9. CASE Recompute
    <3>1. status' \in FinalStatus
      BY <2>9, RollUpTyped DEF Recompute
    <3> QED
      BY <2>0, <2>9, <3>1 DEF Recompute, TypeOK, NothingYet
  <2>10. CASE Exit
    <3>1. exit' \in -1 .. 2
      BY <2>10, ExitTyped DEF Exit
    <3> QED
      BY <2>0, <2>10, <3>1 DEF Exit, TypeOK, NothingYet
  <2>11. CASE UNCHANGED vars
    BY <2>0, <2>11 DEF vars, TypeOK, NothingYet
  <2> QED
    BY <2>1, <2>2, <2>3, <2>4, <2>5, <2>6, <2>7, <2>8, <2>9, <2>10, <2>11
    DEF Next, Run, Exited
<1> QED
  BY <1>1, <1>2, PTL DEF Spec

\* A run keeps its types, and no run starts without a worker, a bound on its
\* requests and a known mode for versions.
THEOREM TypeCorrect == Spec => []TypeOK
BY TypesHold, PTL

-----------------------------------------------------------------------------
(* The invariant.                                                          *)

\* Pinging one side says what that side's keys and buckets allow.
LEMMA PingStep ==
  ASSUME TypeOK, NothingYet, RunInv, NEW s \in Side,
         PingLists(s) \/ PingFallsBack(s) \/ PingDenied(s) \/ PingFails(s)
  PROVE  RunInv'
<1> USE DEF given, report, signal
<1>1. \E outcome \in {"listed", "fallback", "failed"}, found \in SUBSET Names :
        Pinged(s, outcome, found) /\ (outcome = "listed" => found = exists[s])
  BY DEF PingLists, PingFallsBack, PingDenied, PingFails, TypeOK
<1>2. \A t \in Side : reach'[t] = "listed" => visible'[t] = exists'[t]
  BY <1>1 DEF Pinged, RunInv, TypeOK
<1>3. UNCHANGED <<given, phase, report, exit, signal>> /\ phase = "ping"
  BY <1>1 DEF Pinged
<1> QED
  BY <1>2, <1>3 DEF RunInv, NothingYet

\* No step of main, Run or the network breaks the invariant.
LEMMA RunInvStep ==
  ASSUME TypeOK, TypeOK', NothingYet, NothingYet', RunInv, [Next \/ Exited]_vars
  PROVE  RunInv'
<1> USE DEF given, ping, report, signal
<1>1. CASE Interrupt
  <2>1. cut' => \/ pairs = <<>>
                \/ phase = "buckets" /\ Len(results) < Len(pairs)
    BY <1>1 DEF Interrupt, NothingYet
  <2>2. UNCHANGED <<given, phase, ping, report, exit>> /\ cancelled'
        /\ phase \notin {"flags", "exited"}
    BY <1>1 DEF Interrupt
  <2>3. Reported' <=> Reported
    BY <2>2 DEF Reported, PairsAsked, Buckets
  <2>4. PairsAsked' <=> PairsAsked
    BY <2>2 DEF PairsAsked, Buckets
  <2>5. Unreachable' <=> Unreachable
    BY <2>2 DEF Unreachable
  <2> QED
    BY <2>1, <2>2, <2>3, <2>4, <2>5 DEF RunInv
<1>2. CASE Reject
  <2>1. exit' = 2 /\ phase = "flags" /\ phase' = "exited"
        /\ UNCHANGED <<given, ping, report, signal>>
    BY <1>2 DEF Reject
  <2>2. reach["source"] = "none"
    BY <2>1 DEF RunInv, Side
  <2> QED
    BY <2>1, <2>2 DEF RunInv, NothingYet
<1>3. CASE Accept
  BY <1>3 DEF Accept, RunInv, NothingYet
<1>4. ASSUME NEW s \in Side,
             PingLists(s) \/ PingFallsBack(s) \/ PingDenied(s) \/ PingFails(s)
      PROVE  RunInv'
  BY <1>4, PingStep
<1>5. CASE Abort
  BY <1>5 DEF Abort, connCheck, PingsDone, Unreachable, RunInv, NothingYet
<1>6. CASE Connected
  BY <1>6 DEF Connected, connCheck, PingsDone, Unreachable, RunInv, NothingYet
<1>7. CASE Inventory
  <2>1. PairsAsked'
    BY <1>7, PairsTyped
  <2>2. "ERROR" \notin checks'
    BY <1>7 DEF Inventory, InventoryStatus, RunInv
  <2>3. Len(results') < Len(pairs') \/ pairs' = <<>>
    BY <1>7 DEF Inventory, NothingYet, TypeOK
  <2> QED
    BY <1>7, <2>1, <2>2, <2>3 DEF Inventory, RunInv, NothingYet
<1>8. CASE VerifyNext
  <2> DEFINE p == pairs[Len(results) + 1]
  <2>1. PICK st \in Outcomes(p) : results' = Append(results, st)
    BY <1>8 DEF VerifyNext
  <2>2. /\ phase = "buckets" /\ Len(results) < Len(pairs)
        /\ UNCHANGED <<given, phase, ping, checks, pairs, status, exit, signal>>
    BY <1>8 DEF VerifyNext
  <2>3. st \in FinalStatus
    BY <2>1, OutcomesTyped
  <2>4. /\ Len(results') = Len(results) + 1
        /\ DOMAIN results' = DOMAIN results \cup {Len(results) + 1}
        /\ results'[Len(results) + 1] = st
        /\ \A i \in DOMAIN results : results'[i] = results[i]
    <3>1. results \in Seq(FinalStatus) /\ results' \in Seq(FinalStatus)
      BY DEF TypeOK
    <3>2. /\ Len(results') = Len(results) + 1
          /\ \A i \in 1 .. Len(results) : results'[i] = results[i]
          /\ results'[Len(results) + 1] = st
      BY <2>1, <2>3, <3>1, AppendProperties
    <3>3. /\ Len(results) \in Nat
          /\ DOMAIN results = 1 .. Len(results) /\ DOMAIN results' = 1 .. Len(results')
      BY <3>1, LenProperties
    <3> QED
      BY <3>2, <3>3
  <2>5. st \in {"PASS", "WARN"} => p.source \in exists["source"] /\ p.target \in exists["target"]
    BY <2>1 DEF Outcomes, Side
  <2>6. cancelled => st = "ERROR"
    BY <2>1 DEF Outcomes
  <2>7. \A i \in DOMAIN results' :
          results'[i] \in {"PASS", "WARN"} =>
            pairs'[i].source \in exists'["source"] /\ pairs'[i].target \in exists'["target"]
    BY <2>2, <2>4, <2>5 DEF RunInv
  <2>8. cut' /\ pairs' # <<>> => "ERROR" \in Range(results')
    BY <2>2, <2>4, <2>6 DEF RunInv, Range
  <2>9. PairsAsked'
    BY <2>2 DEF PairsAsked, Buckets, RunInv
  <2> QED
    BY <2>2, <2>7, <2>8, <2>9 DEF RunInv
<1>9. CASE Recompute
  <2>1. checks \in SUBSET Status /\ results \in Seq(FinalStatus)
    BY DEF TypeOK
  <2>2. status' = BucketStatus(checks \cup Range(results))
    BY <1>9, <2>1, RollUp DEF Recompute
  <2>3. Reported'
    BY <1>9, <2>2 DEF Recompute, Reported, PairsAsked, Buckets, RunInv
  <2> QED
    BY <1>9, <2>3 DEF Recompute, RunInv
<1>10. CASE Exit
  <2>1. phase \in {"aborted", "report"} /\ phase' = "exited"
        /\ UNCHANGED <<given, ping, report, signal>>
        /\ exit' = ExitCode(status, phase = "aborted", cfg.FailOnWarn)
    BY <1>10 DEF Exit
  <2>2. exit' # -1
    BY <2>1, ExitTyped
  <2>3. CASE phase = "aborted"
    <3>1. exit' = 2
      BY <2>1, <2>3, Zenon DEF ExitCode
    <3> QED
      BY <2>1, <2>2, <2>3, <3>1 DEF RunInv, Unreachable
  <2>4. CASE phase = "report"
    <3>1. cfg.FailOnWarn = line.FailOnWarn
      BY ConfigTyped DEF TypeOK, cfg
    <3>2. (phase = "aborted") = FALSE
      BY <2>4
    <3>3. exit' = ReportExit'
      BY <2>1, <3>1, <3>2, Zenon DEF ReportExit
    <3>4. Reported'
      BY <2>1, <2>4 DEF Reported, PairsAsked, Buckets, RunInv
    <3> QED
      BY <2>1, <2>2, <3>3, <3>4 DEF RunInv
  <2> QED
    BY <2>1, <2>3, <2>4
<1>11. CASE UNCHANGED vars
  BY <1>11 DEF vars, RunInv, Reported, ReportExit, PairsAsked, Unreachable, Buckets
<1> QED
  BY <1>1, <1>2, <1>3, <1>4, <1>5, <1>6, <1>7, <1>8, <1>9, <1>10, <1>11
  DEF Next, Run, Exited

\* The invariant holds of every run.
LEMMA RunInvHolds == Spec => [](TypeOK /\ RunInv)
<1>1. Init => RunInv
  BY DEF Init, RunInv
<1> QED
  BY <1>1, RunInvStep, TypesHold, PTL DEF Spec

-----------------------------------------------------------------------------
(* What follows for main's exit code.                                      *)

\* A verification that was carried out exits with 2 for an ERROR, with 1 for a
\* FAIL or a WARN that is one, and with 0 for what is fine.
LEMMA ExitOfReport ==
  ASSUME TypeOK, "ERROR" \notin checks, Reported,
         exit = ReportExit
  PROVE  /\ exit = 2 <=> "ERROR" \in Range(results)
         /\ exit = 0 => Range(results) \subseteq Fine
<1> DEFINE S == checks \cup Range(results)
<1>1. Range(results) \subseteq FinalStatus /\ S \in SUBSET Status
  <2>1. Range(results) \in SUBSET FinalStatus
    BY RangeOfSeq DEF TypeOK
  <2> QED
    BY <2>1 DEF TypeOK, Status, FinalStatus
<1>2. status = IF "ERROR" \in S THEN "ERROR" ELSE IF "FAIL" \in S THEN "FAIL"
               ELSE IF "WARN" \in S THEN "WARN" ELSE "PASS"
  BY <1>1, BucketStatusIsWorst DEF Reported
<1>3. line.FailOnWarn \in BOOLEAN
  BY ConfigTyped DEF TypeOK
<1>4. ReportExit = IF status = "PASS" \/ (status = "WARN" /\ ~line.FailOnWarn) THEN 0
                  ELSE IF status = "ERROR" THEN 2 ELSE 1
  <2>1. status \in {"PASS", "WARN", "FAIL", "ERROR"}
    BY <1>2
  <2> QED
    BY <1>3, <2>1, Zenon DEF ReportExit, ExitCode
<1> HIDE DEF S
<1>5. status = "ERROR" <=> "ERROR" \in S
  BY <1>2
<1>6. "ERROR" \in S <=> "ERROR" \in Range(results)
  BY DEF S
<1>7. exit = 2 <=> "ERROR" \in Range(results)
  BY <1>4, <1>5, <1>6
<1>8. ASSUME exit = 0 PROVE S \cap {"ERROR", "FAIL"} = {} /\ (line.FailOnWarn => "WARN" \notin S)
  BY <1>2, <1>4, <1>8
<1>9. exit = 0 => Range(results) \subseteq Fine
  BY <1>1, <1>8 DEF Fine, FinalStatus, S
<1> QED
  BY <1>7, <1>9

\* "0 = PASS ..., 1 = FAIL, 2 = could not run / ERROR" (main.go): a 2 is never
\* a difference, and a 1 always is.
THEOREM ExitCodesAreApart == Spec => []ExitCodesExplain
<1>1. TypeOK /\ RunInv => ExitCodesExplain
  <2> SUFFICES ASSUME TypeOK, RunInv PROVE ExitCodesExplain
    OBVIOUS
  <2>1. CASE exit = -1
    BY <2>1 DEF ExitCodesExplain
  <2>2. CASE exit = 2 /\ (reach["source"] = "none" \/ Unreachable)
    BY <2>2 DEF ExitCodesExplain, Unreachable
  <2>3. CASE Reported /\ exit = ReportExit
    <3>1. exit = 2 <=> "ERROR" \in Range(results)
      BY <2>3, ExitOfReport DEF RunInv
    <3> QED
      BY <2>3, <3>1 DEF Reported, ExitCodesExplain
  <2> QED
    BY <2>1, <2>2, <2>3 DEF RunInv
<1> QED
  BY <1>1, RunInvHolds, PTL

\* A run cut short while buckets were left ends with another code than 0,
\* wherever the interrupt comes.
THEOREM InterruptIsNoPass == Spec => []InterruptedNeverPasses
<1>1. TypeOK /\ RunInv => InterruptedNeverPasses
  <2> SUFFICES ASSUME TypeOK, RunInv, exit = 0, cut, pairs # <<>>, phase = "exited"
               PROVE  FALSE
    BY DEF InterruptedNeverPasses
  <2>1. Reported /\ exit = ReportExit /\ "ERROR" \notin checks
    BY DEF RunInv
  <2>2. "ERROR" \notin Range(results)
    BY <2>1, ExitOfReport
  <2>3. Len(results) < Len(pairs)
    BY <2>2 DEF RunInv
  <2> QED
    BY <2>1, <2>3 DEF Reported, TypeOK
<1> QED
  BY <1>1, RunInvHolds, PTL

\* Exit code 0 says of every bucket that was asked for, by name or as all of
\* those the source lists, that it is on both sides and was verified.
THEOREM ZeroIsEarned == Spec => []ExitZeroIsEarned
<1>1. TypeOK /\ RunInv => ExitZeroIsEarned
  <2> SUFFICES ASSUME TypeOK, RunInv, exit = 0 PROVE ExitZeroIsEarned
    BY DEF ExitZeroIsEarned
  <2>1. Reported /\ exit = ReportExit /\ "ERROR" \notin checks
    BY DEF RunInv
  <2>2. Range(results) \subseteq Fine
    BY <2>1, ExitOfReport
  <2>3. DOMAIN pairs = DOMAIN results /\ DOMAIN pairs = 1 .. Len(pairs)
    BY <2>1 DEF TypeOK, Reported
  <2>4. ASSUME NEW i \in DOMAIN pairs
        PROVE  /\ Verified(pairs[i].source, pairs[i].target)
               /\ pairs[i].source \in Names /\ pairs[i].target \in Names
    <3>1. results[i] \in Fine /\ Fine \subseteq {"PASS", "WARN"}
      BY <2>2, <2>3 DEF Range, Fine
    <3>2. pairs[i].source \in exists["source"] /\ pairs[i].target \in exists["target"]
      BY <2>3, <3>1 DEF RunInv
    <3>3. pairs[i] = [source |-> pairs[i].source, target |-> pairs[i].target]
      <4>1. pairs[i] \in Pair
        BY <2>3, ElementOfSeq DEF TypeOK, Pair
      <4> QED
        BY <4>1 DEF Pair
    <3>4. exists["source"] \subseteq Names /\ exists["target"] \subseteq Names
      BY DEF TypeOK, Side
    <3> QED
      BY <2>3, <3>1, <3>2, <3>3, <3>4 DEF Verified
  <2>5. CASE line.AllBuckets /\ reach["source"] = "listed"
    <3>1. Range(pairs) = {SameName(b) : b \in exists["source"]}
      BY <2>1, <2>5 DEF Reported, PairsAsked, RunInv, Side
    <3>2. ASSUME NEW b \in exists["source"] PROVE Verified(b, b)
      <4>1. PICK i \in DOMAIN pairs : pairs[i] = SameName(b)
        BY <3>1 DEF Range
      <4> QED
        BY <2>4, <4>1 DEF SameName
    <3> QED
      BY <2>5, <3>2 DEF ExitZeroIsEarned, AllVerified
  <2>6. CASE ~line.AllBuckets
    <3>1. pairs = Buckets(line)
      BY <2>1, <2>6 DEF Reported, PairsAsked
    <3>2. ASSUME NEW i \in DOMAIN line.Args
          PROVE  \E src, dst \in Names : Denotes(line.Args[i], src, dst) /\ Verified(src, dst)
      <4>1. /\ i \in DOMAIN pairs /\ line.Args[i] \in Seq(STRING) \ {<<>>}
            /\ pairs[i] = ParseBucketArg(line.Args[i])
        BY <2>3, <3>1, ConfigTyped DEF TypeOK
      <4>2. Denotes(line.Args[i], pairs[i].source, pairs[i].target)
        BY <4>1, BucketArgDenotes
      <4> QED
        BY <2>4, <4>1, <4>2
    <3> QED
      BY <2>6, <3>2 DEF ExitZeroIsEarned
  <2> QED
    BY <2>5, <2>6 DEF ExitZeroIsEarned
<1> QED
  BY <1>1, RunInvHolds, PTL

\* Keys that may not list buckets but may read the first one asked for are
\* enough to reach a side.
THEOREM RestrictedKeysReach == Spec => []RestrictedCredentialsWork
<1> USE DEF given, ping, report, signal
<1>1. Init => RestrictedCredentialsWork
  BY DEF Init, RestrictedCredentialsWork
<1>2. TypeOK /\ RestrictedCredentialsWork /\ [Next \/ Exited]_vars => RestrictedCredentialsWork'
  <2> SUFFICES ASSUME TypeOK, RestrictedCredentialsWork, [Next \/ Exited]_vars
               PROVE  RestrictedCredentialsWork'
    OBVIOUS
  <2>0. line' = line /\ may' = may /\ cfg' = cfg
    BY DEF Next, Run, Exited, Interrupt, Reject, Accept, PingLists, PingFallsBack, PingDenied,
           PingFails, Pinged, Abort, Connected, Inventory, VerifyNext, Recompute, Exit, vars, cfg
  <2>1. ASSUME NEW s \in Side,
               PingLists(s) \/ PingFallsBack(s) \/ PingDenied(s) \/ PingFails(s)
        PROVE  RestrictedCredentialsWork'
    <3>1. \A t \in Side \ {s} : reach'[t] = reach[t] /\ (t \notin lost' => t \notin lost)
      BY <2>1 DEF PingLists, PingFallsBack, PingDenied, PingFails, Pinged, TypeOK
    <3>2. reach'[s] = "failed" => s \in lost' \/ ~FallbackAnswered(s)
      BY <2>1 DEF PingLists, PingFallsBack, PingDenied, PingFails, Pinged, TypeOK
    <3>3. cfg.Buckets # <<>> /\ cfg.Buckets[1][s] \in may[s].read
          /\ (s = "target" => cfg.Buckets[1].source = cfg.Buckets[1].target)
          => FallbackAnswered(s)
      BY DEF FallbackAnswered, first, Side
    <3> QED
      BY <2>0, <3>1, <3>2, <3>3 DEF RestrictedCredentialsWork
  <2>2. CASE UNCHANGED <<reach, lost>>
    BY <2>0, <2>2 DEF RestrictedCredentialsWork
  <2> QED
    BY <2>1, <2>2 DEF Next, Run, Exited, Interrupt, Reject, Accept, Abort, Connected, Inventory,
                      VerifyNext, Recompute, Exit, vars
<1> QED
  BY <1>1, <1>2, TypeCorrect, PTL DEF Spec
=============================================================================
