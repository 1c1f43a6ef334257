------------------------------ MODULE CommandLine ------------------------------
(***************************************************************************)
(* From the arguments of migration-verify to the Config of a run:          *)
(* ParseBucketArg, ParseEndpoint and Config.Validate                       *)
(* (internal/verify/config.go), as main (cmd/migration-verify/main.go) and *)
(* New (verifier.go) call them.                                            *)
(*                                                                         *)
(* A bucket argument is a sequence of names and colons, what is left of    *)
(* the --bucket flags once they are split at commas, and a bucket name is  *)
(* any sequence of them: <<>> is the empty name.  An endpoint is "none",   *)
(* "broken" (no host can be parsed out of it) or "url".                    *)
(***************************************************************************)
EXTENDS Integers, Sequences, SequencesExt

CONSTANT Lines   \* the command lines: Config before it is validated

Side == {"source", "target"}

Colon == ":"

ASSUME LinesAssumption ==
  Lines \subseteq
    [Endpoint : [Side -> {"none", "broken", "url"}],
     Keys : BOOLEAN, AllBuckets : BOOLEAN, FailOnWarn : BOOLEAN,
     Level : Int, Concurrency : Int, RequestTimeout : Int, Versions : STRING,
     Args : Seq(Seq(STRING) \ {<<>>})]

\* Split at the first colon, unless the argument starts with it.
ParseBucketArg(arg) ==
  LET i == SelectInSeq(arg, LAMBDA c : c = Colon)
  IN  IF i > 1 THEN [source |-> SubSeq(arg, 1, i - 1), target |-> SubSeq(arg, i + 1, Len(arg))]
      ELSE [source |-> arg, target |-> arg]

Buckets(line) == [i \in DOMAIN line.Args |-> ParseBucketArg(line.Args[i])]

\* What Validate and, for an endpoint without a host, newStorage refuse.
Accepted(line) ==
  /\ \A s \in Side : line.Endpoint[s] = "url"
  /\ line.Keys
  /\ line.AllBuckets \/ Buckets(line) # <<>>
  /\ line.Level \in 1 .. 3
  /\ line.Versions \in {"", "auto", "on", "off"}

OrDefault(n, default) == IF n < 1 THEN default ELSE n

\* The slip of validating without filling in the defaults.
ValidatedAsGiven(line) ==
  [AllBuckets |-> line.AllBuckets, Buckets |-> Buckets(line), FailOnWarn |-> line.FailOnWarn,
   Level |-> line.Level, CheckVersions |-> line.Versions,
   Concurrency |-> line.Concurrency, RequestTimeout |-> line.RequestTimeout]

\* The Config of an accepted command line; time-outs are in seconds.
Validated(line) ==
  [AllBuckets |-> line.AllBuckets, Buckets |-> Buckets(line), FailOnWarn |-> line.FailOnWarn,
   Level |-> line.Level,
   CheckVersions |-> IF line.Versions = "" THEN "auto" ELSE line.Versions,
   Concurrency |-> OrDefault(line.Concurrency, 8),
   RequestTimeout |-> OrDefault(line.RequestTimeout, 120)]
=============================================================================
