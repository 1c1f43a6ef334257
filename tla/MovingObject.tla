------------------------------ MODULE MovingObject ------------------------------
(***************************************************************************)
(* One object of a bucket pair that applications, or the migration tool,   *)
(* go on writing and deleting while it is verified.  verifyBucket lists    *)
(* both sides, then the worker of compareObjects sends a HEAD, a tagging   *)
(* and a GET request to each: every one of them answers with what the side *)
(* holds at that moment.  A plain listing names no version, so neither do  *)
(* the requests after it.                                                  *)
(*                                                                         *)
(* seen[s] is the objInfo of a side as it is filled in: the size of the    *)
(* listing stays, the ETag of the listing is replaced by that of the HEAD. *)
(* The verdict is ObjectVerdict's, taken of what was seen.  Listings that  *)
(* fail, and the worker pool, are in VerifyBucket and CompareObjects.      *)
(***************************************************************************)
EXTENDS ObjectVerdict

CONSTANT MaxWrites   \* bound on the writes and deletions during a run

ASSUME MaxWritesAssumption == MaxWrites \in Nat

VARIABLES
  cfg,      \* v.cfg
  now,      \* truth: the current copy of each side, as a set of at most one
  past,     \* history: the copies a side has held since the run began
  seen,     \* s and t, the objInfo of each side
  obs,      \* which requests came back, as in ObjectVerdict
  at,       \* the next request of each side
  result,   \* res.Status, or what the listings say of the key
  writes    \* writes and deletions so far

vars == <<cfg, now, past, seen, obs, at, result, writes>>

Copies == {p[s] : p \in Pairs, s \in Side}

\* Whatever is written may meet anything on the other side: what S3 guarantees
\* of ETags holds of any two copies.
ASSUME CopiesAssumption == [Side -> Copies] \subseteq Pairs

\* What a side may hold: a copy, or nothing.
Held == {{c} : c \in Copies} \cup {{}}

\* A new objInfo holds Go's zero values.
Nothing == [size |-> 0, etag |-> "", headers |-> <<>>,
            contentType |-> "", tags |-> {}, content |-> ""]

Requests == {"list", "listed", "stat", "tags", "decide", "get", "judge"}

\* Types, and which requests the options allow: no HEAD at level 1, no tagging
\* request unless asked for, no GET that was not granted.
TypeOK ==
  /\ cfg \in Configs
  /\ now \in [Side -> Held]
  /\ past \in [Side -> SUBSET Copies]
  /\ \A s \in Side : now[s] \subseteq past[s]
  /\ DOMAIN seen = Side
  /\ \A s \in Side : /\ DOMAIN seen[s] = DOMAIN Nothing
                     /\ seen[s].size \in Nat
  /\ obs \in Observation
  /\ at \in [Side -> Requests]
  /\ \A s \in Side : /\ at[s] \in {"stat", "tags"} => cfg.Level >= 2
                     /\ at[s] = "tags" => cfg.CheckTags
                     /\ at[s] = "get" => obs.deep = "granted"
  /\ result \in {"none", "missing", "extra", "absent", "PASS", "WARN", "FAIL", "ERROR"}
  /\ writes \in 0 .. MaxWrites

Init ==
  /\ cfg \in Configs
  /\ now \in [Side -> Held]
  /\ past = now
  /\ seen = [s \in Side |-> Nothing]
  /\ obs = NothingRequested
  /\ at = [s \in Side |-> "list"]
  /\ result = "none"
  /\ writes = 0

-----------------------------------------------------------------------------
(* The others.  What they do before the first request, or to a side that  *)
(* has answered its last, no verdict can tell.                             *)

Replace(s, held) ==
  /\ result = "none" /\ at[s] # "judge" /\ \E z \in Side : at[z] # "list"
  /\ writes < MaxWrites /\ held # now[s]
  /\ now' = [now EXCEPT ![s] = held]
  /\ past' = [past EXCEPT ![s] = @ \cup held]
  /\ writes' = writes + 1
  /\ UNCHANGED <<cfg, seen, obs, at, result>>

Write(s)  == \E c \in Copies : Replace(s, {c})
Delete(s) == Replace(s, {})

world == <<cfg, now, past, writes>>

-----------------------------------------------------------------------------
(* The listings.                                                           *)

List(s) ==
  /\ at[s] = "list"
  /\ seen' = [seen EXCEPT ![s] =
                IF now[s] = {} THEN @
                ELSE LET c == CHOOSE c \in now[s] : TRUE
                     IN  [@ EXCEPT !.size = c.size, !.etag = c.etag]]
  /\ at' = [at EXCEPT ![s] = "listed"]
  /\ UNCHANGED <<world, obs, result>>

\* Only a listed object has an ETag.
Listing(s) == seen[s].etag # ""

BothListed == \A s \in Side : at[s] = "listed"

MoveOn(request) == at' = [s \in Side |-> request]

\* The slip of sending HEAD requests whatever the level.
MatchAnyLevel ==
  /\ BothListed /\ result = "none" /\ \A s \in Side : Listing(s)
  /\ MoveOn("stat")
  /\ UNCHANGED <<world, seen, obs, result>>

Match ==
  /\ BothListed /\ result = "none"
  /\ IF \A s \in Side : Listing(s)
     THEN MoveOn(IF cfg.Level >= 2 THEN "stat" ELSE "decide") /\ UNCHANGED result
     ELSE /\ result' = IF Listing("source") THEN "missing"
                       ELSE IF Listing("target") THEN "extra" ELSE "absent"
          /\ UNCHANGED at
  /\ UNCHANGED <<world, seen, obs>>

-----------------------------------------------------------------------------
(* storage.head                                                            *)

AfterStat == IF cfg.CheckTags THEN "tags" ELSE "decide"

\* What is no longer there cannot be read, and any request may fail.
StatFails(s) ==
  /\ at[s] = "stat"
  /\ obs' = [obs EXCEPT !.head[s] = "statErr"]
  /\ at' = [at EXCEPT ![s] = "decide"]
  /\ UNCHANGED <<world, seen, result>>

\* The slip of keeping the ETag of the listing.
StatKeepsETag(s) ==
  /\ at[s] = "stat"
  /\ \E c \in now[s] :
       seen' = [seen EXCEPT ![s].headers = c.headers, ![s].contentType = c.contentType]
  /\ obs' = [obs EXCEPT !.head[s] = IF cfg.CheckTags THEN @ ELSE "ok"]
  /\ at' = [at EXCEPT ![s] = AfterStat]
  /\ UNCHANGED <<world, result>>

Stat(s) ==
  /\ at[s] = "stat"
  /\ \E c \in now[s] :
       seen' = [seen EXCEPT ![s].etag = c.etag, ![s].headers = c.headers,
                            ![s].contentType = c.contentType]
  /\ obs' = [obs EXCEPT !.head[s] = IF cfg.CheckTags THEN @ ELSE "ok"]
  /\ at' = [at EXCEPT ![s] = AfterStat]
  /\ UNCHANGED <<world, result>>

TagsFail(s) ==
  /\ at[s] = "tags"
  /\ obs' = [obs EXCEPT !.head[s] = "tagErr"]
  /\ at' = [at EXCEPT ![s] = "decide"]
  /\ UNCHANGED <<world, seen, result>>

Tags(s) ==
  /\ at[s] = "tags"
  /\ \E c \in now[s] : seen' = [seen EXCEPT ![s].tags = c.tags]
  /\ obs' = [obs EXCEPT !.head[s] = "ok"]
  /\ at' = [at EXCEPT ![s] = "decide"]
  /\ UNCHANGED <<world, result>>

-----------------------------------------------------------------------------
(* The rest of the worker.  What other workers left of the download budget *)
(* is not known here: with a cap, a download may be granted or denied.     *)

Decide ==
  /\ \A s \in Side : at[s] = "decide"
  /\ \/ /\ ~NeedDeep(cfg, seen, obs)
        /\ MoveOn("judge") /\ UNCHANGED obs
     \/ /\ NeedDeep(cfg, seen, obs) /\ cfg.MaxDeepBytes > 0
        /\ obs' = [obs EXCEPT !.deep = "denied"] /\ MoveOn("judge")
     \/ /\ NeedDeep(cfg, seen, obs)
        /\ obs' = [obs EXCEPT !.deep = "granted"] /\ MoveOn("get")
  /\ UNCHANGED <<world, seen, result>>

GetFails(s) ==
  /\ at[s] = "get"
  /\ obs' = [obs EXCEPT !.get[s] = "err"]
  /\ at' = [at EXCEPT ![s] = "judge"]
  /\ UNCHANGED <<world, seen, result>>

Get(s) ==
  /\ at[s] = "get"
  /\ \E c \in now[s] : seen' = [seen EXCEPT ![s].content = c.content]
  /\ obs' = [obs EXCEPT !.get[s] = "ok"]
  /\ at' = [at EXCEPT ![s] = "judge"]
  /\ UNCHANGED <<world, result>>

Judge ==
  /\ result = "none" /\ \A s \in Side : at[s] = "judge"
  /\ result' = StatusOf(cfg, seen, obs)
  /\ UNCHANGED <<world, seen, obs, at>>

Others == \E s \in Side : Write(s) \/ Delete(s)

Worker ==
  \/ \E s \in Side : List(s) \/ Stat(s) \/ StatFails(s) \/ Tags(s) \/ TagsFail(s)
                       \/ Get(s) \/ GetFails(s)
  \/ Match \/ Decide \/ Judge

\* Not a step of the program: the key has been reported.
Judged == result # "none" /\ UNCHANGED vars

Next == Others \/ Worker

Spec == Init /\ [][Next \/ Judged]_vars

-----------------------------------------------------------------------------
(* Correctness.                                                            *)

\* The pairs of copies the two sides have held, not necessarily at one time.
HeldPairs == {p \in [Side -> Copies] : \A s \in Side : p[s] \in past[s]}

\* A PASS is never made of thin air: whatever is written meanwhile, the bytes
\* of some copy of the source were on the target during the run.
PassedContentWasOnBothSides ==
  result = "PASS" => \E p \in HeldPairs : SameContent(p)

\* A PASS that needs one HEAD of a side and nothing after it is about one copy
\* of that side, because ETag and headers come from the same answer: such a
\* PASS of a moving object is one of two copies that really were equivalent.
\* With a tagging or a GET request more, it may be pieced together.
PassByHeadIsOneCopy ==
  result = "PASS" /\ ~Hashed(obs) /\ (cfg.Level >= 2 => ~cfg.CheckTags)
    => \E p \in HeldPairs : Equivalent(cfg, p)

\* No false alarm: a FAIL of a moving object shows a difference that a copy of
\* the source and one of the target really had.
FailedCopiesDiffered ==
  result = "FAIL" /\ SoundConfig(cfg) => \E p \in HeldPairs : ~Equivalent(cfg, p)
=============================================================================
