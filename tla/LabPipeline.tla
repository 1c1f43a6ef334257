------------------------------ MODULE LabPipeline ------------------------------
(***************************************************************************)
(* The lab: what `make lab`, `make verify` and `make clean` (Makefile) do  *)
(* to two MinIO servers and to Chorus, through scripts/seed.sh, the        *)
(* recipes of `repl`, scripts/wait-replication.sh and run-verify.sh.       *)
(*                                                                         *)
(* make runs one target after the other and stops at the first recipe line *)
(* that fails; what was done stays done, and the operator runs make again. *)
(* A fault stands for a command that fails, a curl that gets no answer or  *)
(* an interrupt.  Chorus, the applications that write to A and the         *)
(* operator are external.  Starting the containers and building leave no   *)
(* state that matters here; migration-verify is reduced to what it         *)
(* compares, bucket after bucket.                                          *)
(***************************************************************************)
EXTENDS Naturals

CONSTANTS
  Buckets,     \* the names buckets may have
  Asks,        \* the values of BUCKET: names, and "all"
  SeedDefault, \* migration-test, the seed bucket of BUCKET=all
  Small, Big,  \* the objects seed.sh uploads with mc cp, and with mc pipe
  MaxFaults, MaxWrites, MaxCleans   \* bounds on faults, writes and cleanings

ASSUME LabAssumption ==
  /\ SeedDefault \in Buckets /\ Small # Big
  /\ Asks \subseteq Buckets \cup {"all"}
  /\ {MaxFaults, MaxWrites, MaxCleans} \subseteq Nat

Keys == {Small, Big}

VARIABLES
  buckets,     \* truth: the buckets of A ("main") and of B ("follower")
  data,        \* truth: what each bucket holds under each key
  policy,      \* Chorus: how far the replication of a bucket is
  todo,        \* Chorus: the objects it has listed and not copied
  stage,       \* the recipe that runs
  goal,        \* the target make was asked for, while it runs or if it ended well
  asked,       \* BUCKET
  toAdd,       \* buckets `repl` still has to add
  toVerify,    \* buckets migration-verify still has to compare
  passing,     \* nothing it compared differed
  ok,          \* the last make, a verification, ended well
  late,        \* history: buckets written after Chorus listed them
  stale,       \* history: buckets whose policy has outlived their data
  touched,     \* history: buckets written since migration-verify took stock
  faults, writes, cleans

stores  == <<buckets, data>>
chorus  == <<policy, todo>>
verify  == <<toVerify, passing>>
history == <<late, stale, touched>>
bounds  == <<faults, writes, cleans>>
vars == <<stores, chorus, stage, goal, asked, toAdd, verify, ok, history, bounds>>

Store == {"main", "follower"}

Goals == {"none", "lab", "verify", "clean"}

Stages == {"idle", "seed", "mb", "cp", "pipe", "list", "add", "wait",
           "inventory", "compare", "reset", "remove"}

NoObjects == [k \in Keys |-> "none"]

\* Types, and who may have a policy or be worked on.
TypeOK ==
  /\ buckets \in [Store -> SUBSET Buckets]
  /\ data \in [Store -> [Buckets -> [Keys -> {"none", "sample", "own"}]]]
  /\ \A s \in Store : \A b \in Buckets \ buckets[s] : data[s][b] = NoObjects
  /\ policy \in [Buckets -> {"none", "new", "copying", "done"}]
  /\ todo \in [Buckets -> SUBSET Keys]
  /\ \A b \in Buckets : todo[b] # {} => policy[b] = "copying"
  /\ stage \in Stages /\ goal \in Goals
  /\ asked \in Buckets \cup {"all"}
  /\ toAdd \subseteq Buckets /\ toVerify \subseteq Buckets
  /\ {passing, ok} \subseteq BOOLEAN
  /\ \A h \in {late, stale, touched} : h \subseteq Buckets
  /\ faults \in 0 .. MaxFaults /\ writes \in 0 .. MaxWrites /\ cleans \in 0 .. MaxCleans

NoData == [b \in Buckets |-> NoObjects]

\* A holds nothing, or buckets with data of the applications.
Init ==
  /\ \E mine \in SUBSET Buckets :
       /\ buckets = [s \in Store |-> IF s = "main" THEN mine ELSE {}]
       /\ data = [s \in Store |-> [b \in Buckets |-> [k \in Keys |->
                    IF s = "main" /\ b \in mine /\ k = Small THEN "own" ELSE "none"]]]
  /\ policy = [b \in Buckets |-> "none"]
  /\ todo = [b \in Buckets |-> {}]
  /\ stage = "idle" /\ goal = "none" /\ asked = "all"
  /\ toAdd = {} /\ toVerify = {} /\ passing = TRUE
  /\ ok = FALSE
  /\ late = {} /\ stale = {} /\ touched = {}
  /\ faults = 0 /\ writes = 0 /\ cleans = 0

Policied == {b \in Buckets : policy[b] # "none"}

Same(b) == data["main"][b] = data["follower"][b]

Put(s, b, k, v) ==
  /\ data' = [data EXCEPT ![s][b][k] = v]
  /\ UNCHANGED buckets

-----------------------------------------------------------------------------
(* make                                                                    *)

Start(g, bucket) ==
  /\ stage = "idle"
  /\ goal' = g /\ asked' = bucket
  /\ stage' = CASE g = "lab" -> "seed" [] g = "verify" -> "inventory" [] g = "clean" -> "reset"
  /\ ok' = FALSE /\ touched' = {}
  /\ UNCHANGED <<stores, chorus, toAdd, verify, late, stale, bounds>>

RunLab    == \E bucket \in Asks : Start("lab", bucket)
RunVerify == \E bucket \in Asks : Start("verify", bucket)
RunClean  == cleans < MaxCleans /\ Start("clean", "all")

shell == <<toAdd, verify, ok>>

\* A recipe line that fails stops make, as does an interrupt; what the shell
\* held is gone.
Stop ==
  /\ stage' = "idle" /\ goal' = "none" /\ asked' = "all"
  /\ toAdd' = {} /\ toVerify' = {} /\ passing' = TRUE /\ ok' = FALSE

\* The next recipe.
Step(next) == stage' = next /\ UNCHANGED <<goal, asked>>

Fault == faults < MaxFaults /\ faults' = faults + 1 /\ UNCHANGED <<writes, cleans>>

Break ==
  /\ stage # "idle" /\ Fault /\ Stop
  /\ UNCHANGED <<stores, chorus, history>>

-----------------------------------------------------------------------------
(* scripts/seed.sh                                                         *)

SeedBucket == IF asked = "all" THEN SeedDefault ELSE asked

seeding == <<chorus, history>>

\* The slip of uploading without having made the bucket.
SeedCheckOnly ==
  /\ stage = "seed" /\ Step(IF SeedBucket \in buckets["main"] THEN "list" ELSE "cp")
  /\ UNCHANGED <<stores, shell, seeding, bounds>>

\* `mc ls` says whether the bucket is there; a failing one says it is not.
SeedCheck ==
  /\ stage = "seed"
  /\ \/ SeedBucket \in buckets["main"] /\ Step("list") /\ UNCHANGED bounds
     \/ SeedBucket \notin buckets["main"] /\ Step("mb") /\ UNCHANGED bounds
     \/ SeedBucket \in buckets["main"] /\ Step("mb") /\ Fault
  /\ UNCHANGED <<stores, shell, seeding>>

\* The slip of `mc mb --ignore-existing`.
SeedMakeAnyway ==
  /\ stage = "mb" /\ Step("cp")
  /\ buckets' = [buckets EXCEPT !["main"] = @ \cup {SeedBucket}]
  /\ UNCHANGED <<data, shell, seeding, bounds>>

\* `mc mb` refuses a bucket that exists, and set -e ends the script.
SeedMake ==
  /\ stage = "mb"
  /\ \/ SeedBucket \in buckets["main"] /\ Stop /\ UNCHANGED buckets
     \/ /\ SeedBucket \notin buckets["main"] /\ Step("cp")
        /\ buckets' = [buckets EXCEPT !["main"] = @ \cup {SeedBucket}]
        /\ UNCHANGED shell
  /\ UNCHANGED <<data, seeding, bounds>>

SeedSmall ==
  /\ stage = "cp" /\ Step("pipe")
  /\ Put("main", SeedBucket, Small, "sample")
  /\ UNCHANGED <<shell, seeding, bounds>>

SeedBig ==
  /\ stage = "pipe" /\ Step("list")
  /\ Put("main", SeedBucket, Big, "sample")
  /\ UNCHANGED <<shell, seeding, bounds>>

-----------------------------------------------------------------------------
(* The recipe of repl.                                                     *)

repling == <<stores, verify, ok, history>>

\* The buckets the loop runs over.  Its command substitution may fail: then
\* the loop runs over nothing, successfully.
ReplList ==
  /\ stage = "list" /\ Step("add")
  /\ \/ /\ toAdd' = IF asked = "all" THEN buckets["main"] \ Policied ELSE {asked}
        /\ UNCHANGED bounds
     \/ asked = "all" /\ toAdd' = {} /\ Fault
  /\ UNCHANGED <<chorus, repling>>

Refused(b) == b \in Policied \/ b \notin buckets["main"]

Added(b) ==
  /\ toAdd' = toAdd \ {b} /\ Step("add")
  /\ policy' = IF Refused(b) THEN policy ELSE [policy EXCEPT ![b] = "new"]
  /\ UNCHANGED <<todo, repling, bounds>>

\* The slip of a named bucket's refusal that is not ignored.
ReplAddStrict(b) ==
  /\ stage = "add" /\ b \in toAdd
  /\ \/ ~Refused(b) /\ Added(b)
     \/ Refused(b) /\ Stop /\ UNCHANGED <<stores, chorus, history, bounds>>

\* Chorus refuses a bucket that has a policy, or that is not there; `|| true`
\* ignores it.
ReplAdd(b) == stage = "add" /\ b \in toAdd /\ Added(b)

\* The status of the loop is that of its last command: only a failure there
\* stops make, and none does for a named bucket.
ReplAddFails(b) ==
  /\ stage = "add" /\ b \in toAdd /\ Fault
  /\ \/ asked = "all" /\ toAdd = {b} /\ Stop
     \/ /\ ~(asked = "all" /\ toAdd = {b}) /\ Step("add")
        /\ toAdd' = toAdd \ {b}
        /\ UNCHANGED <<verify, ok>>
  /\ UNCHANGED <<stores, chorus, history>>

ReplAdded ==
  /\ stage = "add" /\ toAdd = {} /\ Step("wait")
  /\ UNCHANGED <<toAdd, chorus, repling, bounds>>

-----------------------------------------------------------------------------
(* scripts/wait-replication.sh                                             *)

\* The slip of being content with one finished bucket.
SomeInitDone == \E b \in Policied : policy[b] = "done"

\* One isInitDone is true and none is false.
InitDone ==
  /\ \E b \in Policied : policy[b] = "done"
  /\ \A b \in Policied : policy[b] = "done"

WaitDone ==
  /\ stage = "wait" /\ InitDone /\ Step("inventory")
  /\ UNCHANGED <<toAdd, chorus, repling, bounds>>

WaitTimesOut ==
  /\ stage = "wait" /\ ~InitDone /\ Stop
  /\ UNCHANGED <<stores, chorus, history, bounds>>

-----------------------------------------------------------------------------
(* run-verify.sh: --all-buckets for BUCKET=all, otherwise --bucket.        *)

verifying == <<stores, chorus, toAdd, late, stale, bounds>>

\* The slip of taking the target's buckets for the scope.
InventoryOfTarget ==
  /\ stage = "inventory" /\ Step("compare")
  /\ toVerify' = IF asked = "all" THEN buckets["follower"] ELSE {asked}
  /\ passing' = TRUE
  /\ UNCHANGED <<ok, touched, verifying>>

\* A bucket that is missing on the target fails the inventory already.
Inventory ==
  /\ stage = "inventory" /\ Step("compare")
  /\ toVerify' = IF asked = "all" THEN buckets["main"] ELSE {asked}
  /\ passing' = (asked = "all" => buckets["main"] \subseteq buckets["follower"])
  /\ UNCHANGED <<ok, touched, verifying>>

Compare(b) ==
  /\ stage = "compare" /\ b \in toVerify
  /\ toVerify' = toVerify \ {b}
  /\ passing' = (passing /\ Same(b) /\ \A s \in Store : b \in buckets[s])
  /\ UNCHANGED <<stage, goal, asked, ok, touched, verifying>>

Finish ==
  /\ stage = "compare" /\ toVerify = {}
  /\ \/ ~passing /\ Stop
     \/ passing /\ Step("idle") /\ ok' = TRUE /\ UNCHANGED <<toAdd, verify>>
  /\ UNCHANGED <<stores, chorus, history, bounds>>

-----------------------------------------------------------------------------
(* clean: `docker compose down -v || true`, then rm -rf of the data.       *)

\* The policies are in the redis volume, which may fail to go.
CleanReset ==
  /\ stage = "reset" /\ Step("remove")
  /\ \/ /\ policy' = [b \in Buckets |-> "none"] /\ todo' = [b \in Buckets |-> {}]
        /\ stale' = {} /\ late' = {}
        /\ UNCHANGED bounds
     \/ Fault /\ UNCHANGED <<chorus, stale, late>>
  /\ UNCHANGED <<stores, shell, touched>>

CleanRemove ==
  /\ stage = "remove" /\ Stop
  /\ buckets' = [s \in Store |-> {}]
  /\ data' = [s \in Store |-> NoData]
  /\ stale' = Policied
  /\ cleans' = cleans + 1
  /\ UNCHANGED <<chorus, late, touched, faults, writes>>

-----------------------------------------------------------------------------
(* Chorus: the initial copy of what a bucket held when it was listed.      *)

others == <<stage, goal, asked, shell, stale, touched, bounds>>

ChorusList(b) ==
  /\ policy[b] = "new" /\ b \in buckets["main"]
  /\ policy' = [policy EXCEPT ![b] = "copying"]
  /\ todo' = [todo EXCEPT ![b] = {k \in Keys : data["main"][b][k] # "none"}]
  /\ buckets' = [buckets EXCEPT !["follower"] = @ \cup {b}]
  /\ UNCHANGED <<data, late, others>>

ChorusCopy(b) ==
  /\ \A s \in Store : b \in buckets[s]
  /\ \E k \in todo[b] : /\ Put("follower", b, k, data["main"][b][k])
                        /\ todo' = [todo EXCEPT ![b] = @ \ {k}]
  /\ UNCHANGED <<policy, late, others>>

ChorusDone(b) ==
  /\ policy[b] = "copying" /\ todo[b] = {}
  /\ policy' = [policy EXCEPT ![b] = "done"]
  /\ UNCHANGED <<stores, todo, late, others>>

-----------------------------------------------------------------------------
(* Applications, which leave a bucket alone while it is being seeded, and  *)
(* the operator's `chorctl diff fix` for what they wrote too late.         *)

AppWrite(b, k) ==
  /\ writes < MaxWrites
  /\ stage \in {"mb", "cp", "pipe"} => b # SeedBucket
  /\ buckets' = [buckets EXCEPT !["main"] = @ \cup {b}]
  /\ data' = [data EXCEPT !["main"][b][k] = "own"]
  /\ late' = IF policy[b] \in {"copying", "done"} THEN late \cup {b} ELSE late
  /\ touched' = IF ok \/ stage = "compare" THEN touched \cup {b} ELSE touched
  /\ writes' = writes + 1
  /\ UNCHANGED <<chorus, stage, goal, asked, shell, stale, faults, cleans>>

DiffFix(b) ==
  /\ stage = "idle" /\ policy[b] = "done" /\ ~Same(b)
  /\ \A s \in Store : b \in buckets[s]
  /\ data' = [data EXCEPT !["follower"][b] = data["main"][b]]
  /\ late' = late \ {b}
  /\ UNCHANGED <<buckets, chorus, others>>

-----------------------------------------------------------------------------
Make ==
  \/ SeedCheck \/ SeedMake \/ SeedSmall \/ SeedBig
  \/ ReplList \/ \E b \in Buckets : ReplAdd(b) \/ ReplAddFails(b)
  \/ ReplAdded \/ WaitDone \/ WaitTimesOut
  \/ Inventory \/ (\E b \in Buckets : Compare(b)) \/ Finish
  \/ CleanReset \/ CleanRemove

Chorus == \E b \in Buckets : ChorusList(b) \/ ChorusCopy(b) \/ ChorusDone(b)

Fix == \E b \in Buckets : DiffFix(b)

Next ==
  \/ RunLab \/ RunVerify \/ RunClean \/ Make \/ Break
  \/ Chorus \/ Fix
  \/ \E b \in Buckets, k \in Keys : AppWrite(b, k)

\* Commands end and Chorus works; the operator repairs what was written late
\* and, whatever else he runs, runs `make lab` again and again.
Fairness == WF_vars(Make) /\ WF_vars(Chorus) /\ SF_vars(Fix) /\ SF_vars(RunLab)

Spec == Init /\ [][Next]_vars /\ Fairness

-----------------------------------------------------------------------------
(* Correctness.                                                            *)

\* "Verifying before that finishes reports a target bucket that does not exist
\* yet" (wait-replication.sh): when `make lab` comes to its verification, every
\* bucket that has a policy is on B with all that A holds of it, save what was
\* written after Chorus listed it or outlived a failed clean.
CopiedBeforeVerified ==
  goal = "lab" /\ stage \in {"inventory", "compare"}
    => \A b \in Policied \ (late \cup stale) :
         (\A s \in Store : b \in buckets[s]) /\ Same(b)

Asked == IF asked = "all" THEN buckets["main"] ELSE {asked}

\* A verification that ends well means that B holds what A holds of every
\* bucket that was asked for, although Chorus goes on copying while it reads
\* one bucket after the other, and whatever failed before it: a replication
\* that was not added, a policy that outlived its data, an interrupted seed.
\* Only buckets written meanwhile are excepted.
PassMeansCopied ==
  ok => \A b \in Asked \ touched : (\A s \in Store : b \in buckets[s]) /\ Same(b)

\* "so it never overwrites data" (seed.sh): nothing on A is changed or lost
\* by anything but an application's own write and a clean, interrupted and
\* repeated as the seeding may be.
SeedNeverOverwrites ==
  [][writes' = writes /\ cleans' = cleans
       => \A b \in Buckets, k \in Keys :
            data["main"][b][k] # "none" => data["main"][b][k]' = data["main"][b][k]]_vars

\* "Every target is safe to re-run" (Makefile): whatever broke and wherever
\* make stopped, running it again comes to a lab that passes, unless policies
\* have outlived their data.
RerunsSucceed == []<>((goal = "lab" /\ ok) \/ stale # {})
=============================================================================
