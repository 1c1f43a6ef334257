---------------------------- MODULE MCVerifyBucket ----------------------------
(***************************************************************************)
(* Two keys, objects of every kind of outcome, and the settings: the one   *)
(* that decides about versions and the one whose errors may be dropped in  *)
(* every combination, the others one at a time.                            *)
(***************************************************************************)
EXTENDS VerifyBucket, MCObjects

BucketPairs == {PairOf(Plain, Plain), PairOf(Plain, Multipart), PairOf(Plain, Described),
                PairOf(Multipart, Longer)}

BucketConfig(level, deep, cap, failOnExtra, versions, smoke) ==
  Config(level, deep, FALSE, cap, 1, FALSE)
    @@ [CheckVersions |-> versions, FailOnExtra |-> failOnExtra, SmokeTest |-> smoke]

BucketConfigs == {BucketConfig(1, FALSE, 0, TRUE, "off", FALSE),
                  BucketConfig(2, TRUE, 2, FALSE, "auto", TRUE),
                  BucketConfig(3, TRUE, 2, TRUE, "on", TRUE)}

\* The configuration of the run that confronts the documentation: no download of one byte a side fits a cap of 1.
CappedLevel3 == {BucketConfig(3, FALSE, 1, TRUE, "off", TRUE)}

Sides(set) == [Side -> set]

Default == [value  |-> [n \in ConfigKeys |-> [s \in Side |-> ""]],
            answer |-> [n \in ConfigKeys |-> [s \in Side |-> "ok"]]]

Varied(of, n) ==
  {[value  |-> [c.value EXCEPT ![n] = v], answer |-> [c.answer EXCEPT ![n] = a]] :
     c \in of, v \in Sides(Values[n]), a \in Sides(SettingAnswers)}

SettingsDef ==
  Varied(Varied({Default}, "versioning"), "objectLock")
    \cup UNION {Varied({Default}, n) : n \in ConfigKeys}

\* Nothing in VerifyBucket tells one key from another.
KeySymmetry == Permutations(Keys)
=============================================================================
