---------------------------- MODULE CompareObjects ----------------------------
(***************************************************************************)
(* compareObjects (internal/verify/objects.go): one goroutine per common   *)
(* key, at most Concurrency of them at a time, each sending its requests   *)
(* to both sides in parallel, drawing on the shared download budget and    *)
(* publishing its result under the counters' mutex.                        *)
(*                                                                         *)
(* The keys are numbered in the order of the sorted slice `common`.  A     *)
(* worker's own variables (reasons, details, status) follow from what it   *)
(* observed, so its state is a program counter and an observation.         *)
(***************************************************************************)
EXTENDS ObjectVerdict, FiniteSets

CONSTANT NumKeys    \* len(common)

ASSUME NumKeysAssumption == NumKeys \in Nat

VARIABLES
  cfg,          \* v.cfg
  pair,         \* the two copies of each key
  next,         \* the key the dispatch loop is at
  sem,          \* tokens in the channel sem
  wg,           \* the WaitGroup's counter
  pc,           \* where the goroutine of each key is
  obs,          \* what it has observed
  deepBudget,   \* bytes of the budget that are left
  spent,        \* history: the bytes of all downloads that were granted
  reasonCount,  \* sizeMismatch, etagMismatch, ... by reason
  tally,        \* matched, errors, deepVerified, deepBytes
  results,      \* the keys that are listed in the report
  returned      \* compareObjects has returned

pool     == <<next, sem, wg>>
budget   == <<deepBudget, spent>>
counters == <<reasonCount, tally, results>>
vars     == <<cfg, pair, pool, pc, obs, budget, counters, returned>>

Keys == 1 .. NumKeys

PC == {"idle", "head", "reserve", "hash", "publish", "published", "released", "done"}

TypeOK ==
  /\ cfg \in Configs
  /\ pair \in [Keys -> Pairs]
  /\ next \in 1 .. NumKeys + 1
  /\ sem \in Int
  /\ wg \in Int
  /\ pc \in [Keys -> PC]
  /\ obs \in [Keys -> Observation]
  /\ deepBudget \in Int
  /\ spent \in Nat
  /\ reasonCount \in [Reason -> Nat]
  /\ tally \in [matched : Nat, errors : Nat, deepVerified : Nat, deepBytes : Nat]
  /\ results \subseteq Keys
  /\ returned \in BOOLEAN

Init ==
  /\ cfg \in Configs
  /\ pair \in [Keys -> Pairs]
  /\ next = 1
  /\ sem = 0
  /\ wg = 0
  /\ pc = [k \in Keys |-> "idle"]
  /\ obs = [k \in Keys |-> NothingRequested]
  /\ deepBudget = cfg.MaxDeepBytes
  /\ spent = 0
  /\ reasonCount = [r \in Reason |-> 0]
  /\ tally = [matched |-> 0, errors |-> 0, deepVerified |-> 0, deepBytes |-> 0]
  /\ results = {}
  /\ returned = FALSE

Goto(k, where) == pc' = [pc EXCEPT ![k] = where]

-----------------------------------------------------------------------------
(* The dispatch loop: wg.Add, then a blocking send on sem, then the go     *)
(* statement.                                                              *)

\* A loop that lets one key more than Concurrency in, and one that runs one
\* iteration too many.
DispatchPastLimit ==
  /\ next <= NumKeys
  /\ sem <= cfg.Concurrency
  /\ next' = next + 1
  /\ wg' = wg + 1
  /\ sem' = sem + 1
  /\ Goto(next, "head")
  /\ UNCHANGED <<cfg, pair, obs, budget, counters, returned>>

DispatchPastEnd ==
  /\ next <= NumKeys + 1
  /\ sem < cfg.Concurrency
  /\ next' = next + 1
  /\ wg' = wg + 1
  /\ sem' = sem + 1
  /\ Goto(next, "head")
  /\ UNCHANGED <<cfg, pair, obs, budget, counters, returned>>

Dispatch ==
  /\ next <= NumKeys
  /\ sem < cfg.Concurrency
  /\ next' = next + 1
  /\ wg' = wg + 1
  /\ sem' = sem + 1
  /\ Goto(next, "head")
  /\ UNCHANGED <<cfg, pair, obs, budget, counters, returned>>

-----------------------------------------------------------------------------
(* The worker of key k.                                                    *)

\* One of the two HEAD goroutines: the request is answered or it fails; a
\* request that gets no answer fails after RequestTimeout.
HeadSide(k, s) ==
  /\ pc[k] = "head"
  /\ cfg.Level >= 2
  /\ obs[k].head[s] = "none"
  /\ \E h \in HeadOutcomes(cfg) : obs' = [obs EXCEPT ![k].head[s] = h]
  /\ UNCHANGED <<cfg, pair, pool, pc, budget, counters, returned>>

\* The slip of waiting for one of the two answers.
HeadDoneOnFirst(k) == cfg.Level >= 2 => \E s \in Side : obs[k].head[s] # "none"

\* hw.Wait: the ETags are compared once both sides have answered.
HeadDone(k) == cfg.Level >= 2 => \A s \in Side : obs[k].head[s] # "none"

SkipDeep(k) ==
  /\ pc[k] = "head" /\ HeadDone(k)
  /\ ~NeedDeep(cfg, pair[k], obs[k])
  /\ Goto(k, "publish")
  /\ UNCHANGED <<cfg, pair, pool, obs, budget, counters, returned>>

Cost(k) == 2 * pair[k]["source"].size

Grant(k) ==
  /\ obs' = [obs EXCEPT ![k].deep = "granted"]
  /\ spent' = spent + Cost(k)
  /\ Goto(k, "hash")

\* `if deepBudget > 0` is evaluated without budgetMu.  A stale value is one
\* the budget had earlier, so reading it is this step taken earlier.
PeekBudget(k) ==
  /\ pc[k] = "head" /\ HeadDone(k)
  /\ NeedDeep(cfg, pair[k], obs[k])
  /\ deepBudget > 0
  /\ Goto(k, "reserve")
  /\ UNCHANGED <<cfg, pair, pool, obs, budget, counters, returned>>

\* With nothing left the budget is not consulted at all.
PeekUnlimited(k) ==
  /\ pc[k] = "head" /\ HeadDone(k)
  /\ NeedDeep(cfg, pair[k], obs[k])
  /\ deepBudget <= 0
  /\ Grant(k)
  /\ UNCHANGED <<cfg, pair, pool, deepBudget, counters, returned>>

\* A reservation that trusts the unlocked read.
ReserveUnchecked(k) ==
  /\ pc[k] = "reserve"
  /\ deepBudget' = deepBudget - Cost(k)
  /\ Grant(k)
  /\ UNCHANGED <<cfg, pair, pool, counters, returned>>

\* The section under budgetMu, when the download fits ...
ReserveGranted(k) ==
  /\ pc[k] = "reserve"
  /\ deepBudget - Cost(k) >= 0
  /\ deepBudget' = deepBudget - Cost(k)
  /\ Grant(k)
  /\ UNCHANGED <<cfg, pair, pool, counters, returned>>

\* ... and when it does not.
ReserveDenied(k) ==
  /\ pc[k] = "reserve"
  /\ deepBudget - Cost(k) < 0
  /\ obs' = [obs EXCEPT ![k].deep = "denied"]
  /\ Goto(k, "publish")
  /\ UNCHANGED <<cfg, pair, pool, budget, counters, returned>>

\* One of the two hashing goroutines.
GetSide(k, s) ==
  /\ pc[k] = "hash"
  /\ obs[k].get[s] = "none"
  /\ \E g \in {"ok", "err"} : obs' = [obs EXCEPT ![k].get[s] = g]
  /\ UNCHANGED <<cfg, pair, pool, pc, budget, counters, returned>>

\* A download that fails has read some part of the object.
BytesRead(k, s) ==
  IF obs[k].get[s] = "ok" THEN {pair[k][s].size} ELSE 0 .. pair[k][s].size

\* The slip of counting the bytes of one side only.
HashJoinOneSide(k) ==
  /\ pc[k] = "hash"
  /\ \A s \in Side : obs[k].get[s] # "none"
  /\ \E n \in BytesRead(k, "source") :
       tally' = [tally EXCEPT !.deepBytes = @ + n, !.deepVerified = @ + One(Hashed(obs[k]))]
  /\ Goto(k, "publish")
  /\ UNCHANGED <<cfg, pair, pool, obs, budget, reasonCount, results, returned>>

\* dw.Wait and the two updates under c.mu that follow.
HashJoin(k) ==
  /\ pc[k] = "hash"
  /\ \A s \in Side : obs[k].get[s] # "none"
  /\ \E ns \in BytesRead(k, "source"), nt \in BytesRead(k, "target") :
       tally' = [tally EXCEPT !.deepBytes = @ + ns + nt,
                              !.deepVerified = @ + One(Hashed(obs[k]))]
  /\ Goto(k, "publish")
  /\ UNCHANGED <<cfg, pair, pool, obs, budget, reasonCount, results, returned>>

\* Adding the worker's result to the counters, with an update lost as it
\* would be between a read and a write that c.mu does not cover.
PublishUnlocked(k) ==
  /\ pc[k] = "publish"
  /\ \E n \in {tally.matched, 0} :
       tally' = [tally EXCEPT !.matched = n + One(StatusOf(cfg, pair[k], obs[k]) = "PASS"),
                              !.errors  = @ + One(StatusOf(cfg, pair[k], obs[k]) = "ERROR")]
  /\ reasonCount' = [r \in Reason |-> reasonCount[r] + Reasons(cfg, pair[k], obs[k])[r]]
  /\ results' = IF Listed(cfg, pair[k], obs[k]) THEN results \cup {k} ELSE results
  /\ Goto(k, "published")
  /\ UNCHANGED <<cfg, pair, pool, obs, budget, returned>>

\* The section under c.mu that ends the worker's body.
Publish(k) ==
  LET status == StatusOf(cfg, pair[k], obs[k])
  IN  /\ pc[k] = "publish"
      /\ reasonCount' = [r \in Reason |-> reasonCount[r] + Reasons(cfg, pair[k], obs[k])[r]]
      /\ tally' = [tally EXCEPT !.matched = @ + One(status = "PASS"),
                                !.errors  = @ + One(status = "ERROR")]
      /\ results' = IF Listed(cfg, pair[k], obs[k]) THEN results \cup {k} ELSE results
      /\ Goto(k, "published")
      /\ UNCHANGED <<cfg, pair, pool, obs, budget, returned>>

\* A worker that ends without giving its slot back.
ReleaseKeepingSlot(k) ==
  /\ pc[k] = "published"
  /\ Goto(k, "released")
  /\ UNCHANGED <<cfg, pair, pool, obs, budget, counters, returned>>

\* The deferred calls: the semaphore is given back first, the WaitGroup last.
Release(k) ==
  /\ pc[k] = "published"
  /\ sem' = sem - 1
  /\ Goto(k, "released")
  /\ UNCHANGED <<cfg, pair, next, wg, obs, budget, counters, returned>>

Exit(k) ==
  /\ pc[k] = "released"
  /\ wg' = wg - 1
  /\ Goto(k, "done")
  /\ UNCHANGED <<cfg, pair, next, sem, obs, budget, counters, returned>>

-----------------------------------------------------------------------------

\* Returning once the loop has ended, without waiting for the workers.
ReturnEarly ==
  /\ next > NumKeys
  /\ ~returned
  /\ returned' = TRUE
  /\ UNCHANGED <<cfg, pair, pool, pc, obs, budget, counters>>

\* wg.Wait, and the sort that makes the list independent of the schedule.
Return ==
  /\ next > NumKeys
  /\ wg = 0
  /\ ~returned
  /\ returned' = TRUE
  /\ UNCHANGED <<cfg, pair, pool, pc, obs, budget, counters>>

Worker(k) ==
  \/ \E s \in Side : HeadSide(k, s) \/ GetSide(k, s)
  \/ SkipDeep(k) \/ PeekBudget(k) \/ PeekUnlimited(k)
  \/ ReserveGranted(k) \/ ReserveDenied(k)
  \/ HashJoin(k) \/ Publish(k) \/ Release(k) \/ Exit(k)

Next == Dispatch \/ Return \/ \E k \in Keys : Worker(k)

\* Not a step of the program: it lets TLC tell a comparison that has returned
\* from one that is stuck.
Returned == returned /\ UNCHANGED vars

Spec == Init /\ [][Next \/ Returned]_vars

\* Goroutines are scheduled and requests end, so some enabled step is taken.
FairSpec == Spec /\ WF_vars(Next)
-----------------------------------------------------------------------------
(* Correctness.                                                            *)

Judged(k) == pc[k] \in {"published", "released", "done"}

Verdict(k) == IF Judged(k) THEN StatusOf(cfg, pair[k], obs[k]) ELSE "open"

WithVerdict(s) == {k \in Keys : Verdict(k) = s}

\* The keys whose goroutine may have a request outstanding.
InFlight == {k \in Keys : pc[k] \notin {"idle", "released", "done"}}

\* At no moment do more than Concurrency keys have requests outstanding,
\* although the slot is given back by a deferred call and taken by the loop.
SlotsBounded == Cardinality(InFlight) <= cfg.Concurrency

\* The keys whose two downloads have been joined, both of them complete.
Downloaded == {k \in Keys : pc[k] # "hash" /\ Hashed(obs[k])}

\* Whatever the order in which the workers publish, the counters the checks
\* of the bucket are computed from, and the objects listed under them, are
\* those of the verdicts and downloads there were so far: none is lost or
\* counted twice.
TalliesAddUp ==
  /\ tally.matched = Cardinality(WithVerdict("PASS"))
  /\ tally.errors  = Cardinality(WithVerdict("ERROR"))
  /\ tally.deepVerified = Cardinality(Downloaded)
  /\ \A r \in Reason \ {"etag-inconclusive"} :
       reasonCount[r] = Cardinality({k \in Keys : Judged(k) /\ Reasons(cfg, pair[k], obs[k])[r] > 0})
  /\ results = {k \in Keys : Judged(k) /\ Listed(cfg, pair[k], obs[k])}

\* A worker never judges on half an observation: both HEADs are in, and a
\* download it needed was hashed on both sides, or failed, or was denied.
ObservationsComplete == \A k \in Keys : Judged(k) => Complete(cfg, pair[k], obs[k])

\* No object is reported as matching unless its bytes are the same on both
\* sides and, from level 2, its attributes are: "never a silent PASS".
PassIsEarned == \A k \in WithVerdict("PASS") : Equivalent(cfg, pair[k])

\* Under a sound configuration no faithful copy is reported as different.
FailIsEarned ==
  SoundConfig(cfg) => \A k \in WithVerdict("FAIL") : ~Equivalent(cfg, pair[k])

\* The unlocked read at the top never lets the budget be overdrawn: until it
\* is used up to the last byte, what is left and what was granted add up to
\* the cap.
BudgetNeverOverdrawn ==
  /\ cfg.MaxDeepBytes > 0 => deepBudget >= 0
  /\ deepBudget > 0 => spent + deepBudget = cfg.MaxDeepBytes

\* The bytes the report says were downloaded never exceed those granted, and
\* fall short of them only by downloads that failed or are still running.
DeepBytesAccounted ==
  /\ tally.deepBytes <= spent
  /\ (\A k \in Keys : pc[k] # "hash" /\ \A s \in Side : obs[k].get[s] # "err")
       => tally.deepBytes = spent

\* A download costs an even number of bytes, so a cap that is odd can never be
\* used up exactly, and is a cap.
OddCapHolds ==
  cfg.MaxDeepBytes > 0 /\ cfg.MaxDeepBytes % 2 = 1 => spent <= cfg.MaxDeepBytes

\* The pool of workers implements the audit it is written for: every key is
\* judged once and truly, and nothing is returned before all are.
Audit == INSTANCE ObjectAudit WITH verdict <- [k \in Keys |-> Verdict(k)]

AuditContract == Audit!Spec

\* compareObjects returns: no worker waits for a slot, a lock or another
\* worker forever.
Terminates == <>returned

-----------------------------------------------------------------------------
(* What the documentation says and the code does not do.                   *)

\* "cap total bytes downloaded for deep verification (0 = unlimited)"
\* (cmd/migration-verify/main.go:58).
CapHolds == cfg.MaxDeepBytes > 0 => spent <= cfg.MaxDeepBytes
=============================================================================
