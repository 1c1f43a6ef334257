-------------------------- MODULE LabPipeline_proofs --------------------------
(***************************************************************************)
(* Proofs about the safety of the lab, for any buckets, any value of       *)
(* BUCKET and any number of faults, writes and cleanings.                  *)
(***************************************************************************)
EXTENDS LabPipeline, TLAPS

\* A bucket is on both servers.
Everywhere(b) == \A s \in Store : b \in buckets[s]

\* What is seeded is new, and no live policy has it yet.
SeedInv ==
  /\ stage \in {"cp", "pipe"} => /\ SeedBucket \in buckets["main"]
                                 /\ SeedBucket \notin Policied \ stale
                                 /\ data["main"][SeedBucket][Big] = "none"
  /\ stage = "cp" => data["main"][SeedBucket][Small] = "none"

\* A policy that has not outlived its data is of a bucket that is there; B
\* holds no key that A does not; and of a bucket Chorus has listed, what it
\* does not still have to copy is the same, save what was written since.
CopyInv ==
  /\ \A b \in Policied \ stale : b \in buckets["main"]
  /\ \A b \in Buckets, k \in Keys :
       data["main"][b][k] = "none" => data["follower"][b][k] = "none"
  /\ \A b \in Buckets \ (late \cup stale) :
       policy[b] \in {"copying", "done"} =>
         /\ Everywhere(b)
         /\ \A k \in Keys \ todo[b] : data["main"][b][k] = data["follower"][b][k]

\* `make lab` verifies when nothing is being replicated any more.
WaitInv ==
  goal = "lab" /\ stage \in {"inventory", "compare"} => \A b \in Policied : policy[b] = "done"

\* What has been compared and passed is the same, until it is written.
VerifyInv ==
  /\ ok => stage = "idle" /\ toVerify = {}
  /\ ok \/ (stage = "compare" /\ passing) =>
       \A b \in Asked \ (touched \cup toVerify) : Everywhere(b) /\ Same(b)

\* A clean that has begun is within the bound.
CleanInv == stage \in {"reset", "remove"} => cleans < MaxCleans

LabInv == SeedInv /\ CopyInv /\ WaitInv /\ VerifyInv /\ CleanInv

-----------------------------------------------------------------------------
(* The types.                                                              *)

\* The parts of the type invariant, by what changes together.
StoresTyped ==
  /\ buckets \in [Store -> SUBSET Buckets]
  /\ data \in [Store -> [Buckets -> [Keys -> {"none", "sample", "own"}]]]
  /\ \A s \in Store : \A b \in Buckets \ buckets[s] : data[s][b] = NoObjects

ChorusTyped ==
  /\ policy \in [Buckets -> {"none", "new", "copying", "done"}]
  /\ todo \in [Buckets -> SUBSET Keys]
  /\ \A b \in Buckets : todo[b] # {} => policy[b] = "copying"

ShellTyped ==
  /\ stage \in Stages /\ goal \in Goals
  /\ asked \in Buckets \cup {"all"}
  /\ toAdd \subseteq Buckets /\ toVerify \subseteq Buckets
  /\ passing \in BOOLEAN /\ ok \in BOOLEAN

HistoryTyped == late \subseteq Buckets /\ stale \subseteq Buckets /\ touched \subseteq Buckets

BoundsTyped == faults \in 0 .. MaxFaults /\ writes \in 0 .. MaxWrites /\ cleans \in 0 .. MaxCleans

LEMMA TypeParts ==
  /\ TypeOK => StoresTyped /\ ChorusTyped /\ ShellTyped /\ HistoryTyped /\ BoundsTyped
  /\ StoresTyped' /\ ChorusTyped' /\ ShellTyped' /\ HistoryTyped' /\ BoundsTyped' => TypeOK'
<1>1. {passing, ok} \subseteq BOOLEAN => passing \in BOOLEAN /\ ok \in BOOLEAN
  OBVIOUS
<1>2. passing' \in BOOLEAN /\ ok' \in BOOLEAN => {passing', ok'} \subseteq BOOLEAN
  OBVIOUS
<1>3. (\A h \in {late, stale, touched} : h \subseteq Buckets) => HistoryTyped
  BY DEF HistoryTyped
<1>4. HistoryTyped' => \A h \in {late', stale', touched'} : h \subseteq Buckets
  BY DEF HistoryTyped
<1> QED
  BY <1>1, <1>2, <1>3, <1>4, Zenon DEF TypeOK, StoresTyped, ChorusTyped, ShellTyped, BoundsTyped

\* The bounds are numbers, and a step within one stays within it.
LEMMA BoundsHold ==
  /\ MaxFaults \in Nat /\ MaxWrites \in Nat /\ MaxCleans \in Nat
  /\ SeedDefault \in Buckets /\ Small # Big
  /\ BoundsTyped /\ Fault => BoundsTyped'
  /\ BoundsTyped /\ UNCHANGED bounds => BoundsTyped'
BY LabAssumption DEF BoundsTyped, Fault, bounds

\* What is seeded is one of the buckets.
LEMMA SeedBucketTyped == ShellTyped => SeedBucket \in Buckets
BY LabAssumption DEF ShellTyped, SeedBucket

\* make stops with nothing left to do.
LEMMA StopTyped == ShellTyped /\ Stop => ShellTyped'
BY DEF ShellTyped, Stop, Stages, Goals

\* A recipe changes the stage.
LEMMA StepTyped ==
  ASSUME ShellTyped, NEW next \in Stages, Step(next), UNCHANGED shell
  PROVE  ShellTyped'
BY DEF ShellTyped, Step, shell, verify

\* Nothing that is not touched changes its type.
LEMMA UntouchedTyped ==
  /\ StoresTyped /\ UNCHANGED stores => StoresTyped'
  /\ ChorusTyped /\ UNCHANGED chorus => ChorusTyped'
  /\ ShellTyped /\ UNCHANGED <<stage, goal, asked, shell>> => ShellTyped'
  /\ HistoryTyped /\ UNCHANGED history => HistoryTyped'
BY DEF stores, chorus, shell, verify, history, StoresTyped, ChorusTyped, ShellTyped, HistoryTyped

\* An object is put into a bucket that is there.
LEMMA PutTyped ==
  ASSUME StoresTyped, NEW s \in Store, NEW b \in buckets[s], NEW k \in Keys,
         NEW v \in {"none", "sample", "own"}, Put(s, b, k, v)
  PROVE  StoresTyped'
<1>1. b \in Buckets /\ buckets' = buckets
  BY DEF StoresTyped, Put
<1>2. data' \in [Store -> [Buckets -> [Keys -> {"none", "sample", "own"}]]]
  BY <1>1 DEF StoresTyped, Put
<1>3. \A z \in Store, c \in Buckets : z # s \/ c # b => data'[z][c] = data[z][c]
  BY <1>1 DEF StoresTyped, Put
<1> QED
  BY <1>1, <1>2, <1>3 DEF StoresTyped

\* Every action of make keeps the types.
LEMMA MakeTyped ==
  ASSUME TypeOK, LabInv, Make \/ Break \/ RunLab \/ RunVerify \/ RunClean
  PROVE  TypeOK'
<1> USE DEF stores, chorus, verify, history, bounds, shell, seeding, repling, verifying
<1>0. StoresTyped /\ ChorusTyped /\ ShellTyped /\ HistoryTyped /\ BoundsTyped
  BY TypeParts
<1> USE <1>0
<1>1. ASSUME NEW g \in {"lab", "verify", "clean"}, NEW bucket \in Asks \cup {"all"}, Start(g, bucket)
      PROVE  TypeOK'
  <2>1. ShellTyped'
    BY <1>1, LabAssumption DEF Start, ShellTyped, Stages, Goals
  <2>2. HistoryTyped'
    BY <1>1 DEF Start, HistoryTyped
  <2> QED
    BY <1>1, <2>1, <2>2, UntouchedTyped, BoundsHold, TypeParts DEF Start
<1>2. CASE Break
  BY <1>2, StopTyped, UntouchedTyped, BoundsHold, TypeParts DEF Break
<1>3. CASE SeedCheck
  <2>1. ShellTyped'
    BY <1>3, StepTyped DEF SeedCheck, Stages
  <2> QED
    BY <1>3, <2>1, UntouchedTyped, BoundsHold, TypeParts DEF SeedCheck
<1>4. CASE SeedMake
  <2>1. ShellTyped'
    BY <1>4, StepTyped, StopTyped DEF SeedMake, Stages
  <2>2. StoresTyped'
    <3>1. SeedBucket \in Buckets
      BY SeedBucketTyped
    <3>2. data' = data /\ \/ buckets' = buckets
                          \/ buckets' = [buckets EXCEPT !["main"] = @ \cup {SeedBucket}]
      BY <1>4 DEF SeedMake
    <3> QED
      BY <3>1, <3>2 DEF StoresTyped, Store
  <2> QED
    BY <1>4, <2>1, <2>2, UntouchedTyped, BoundsHold, TypeParts DEF SeedMake
<1>5. CASE SeedSmall
  <2>1. ShellTyped'
    BY <1>5, StepTyped DEF SeedSmall, Stages
  <2>2. StoresTyped'
    BY <1>5, PutTyped DEF SeedSmall, LabInv, SeedInv, Store, Keys
  <2> QED
    BY <1>5, <2>1, <2>2, UntouchedTyped, BoundsHold, TypeParts DEF SeedSmall
<1>6. CASE SeedBig
  <2>1. ShellTyped'
    BY <1>6, StepTyped DEF SeedBig, Stages
  <2>2. StoresTyped'
    BY <1>6, PutTyped DEF SeedBig, LabInv, SeedInv, Store, Keys
  <2> QED
    BY <1>6, <2>1, <2>2, UntouchedTyped, BoundsHold, TypeParts DEF SeedBig
<1>7. CASE ReplList
  <2>1. ShellTyped'
    BY <1>7 DEF ReplList, Step, ShellTyped, StoresTyped, Stages, Store
  <2> QED
    BY <1>7, <2>1, UntouchedTyped, BoundsHold, TypeParts DEF ReplList
<1>8. ASSUME NEW b \in Buckets, ReplAdd(b) PROVE TypeOK'
  <2>1. ShellTyped'
    BY <1>8 DEF ReplAdd, Added, Step, ShellTyped, Stages
  <2>2. ChorusTyped'
    BY <1>8 DEF ReplAdd, Added, ChorusTyped, Refused, Policied
  <2> QED
    BY <1>8, <2>1, <2>2, UntouchedTyped, BoundsHold, TypeParts DEF ReplAdd, Added
<1>9. ASSUME NEW b \in Buckets, ReplAddFails(b) PROVE TypeOK'
  <2>1. ShellTyped'
    BY <1>9, StopTyped DEF ReplAddFails, Step, ShellTyped, Stages
  <2> QED
    BY <1>9, <2>1, UntouchedTyped, BoundsHold, TypeParts DEF ReplAddFails
<1>10. CASE ReplAdded
  <2>1. ShellTyped'
    BY <1>10, StepTyped DEF ReplAdded, Stages
  <2> QED
    BY <1>10, <2>1, UntouchedTyped, BoundsHold, TypeParts DEF ReplAdded
<1>11. CASE WaitDone
  <2>1. ShellTyped'
    BY <1>11, StepTyped DEF WaitDone, Stages
  <2> QED
    BY <1>11, <2>1, UntouchedTyped, BoundsHold, TypeParts DEF WaitDone
<1>12. CASE WaitTimesOut
  BY <1>12, StopTyped, UntouchedTyped, BoundsHold, TypeParts DEF WaitTimesOut
<1>13. CASE Inventory
  <2>1. passing' \in BOOLEAN
    BY <1>13 DEF Inventory
  <2>2. toVerify' \subseteq Buckets
    BY <1>13 DEF Inventory, ShellTyped, StoresTyped, Store
  <2>3. ShellTyped'
    BY <1>13, <2>1, <2>2 DEF Inventory, Step, ShellTyped, Stages
  <2> QED
    BY <1>13, <2>3, UntouchedTyped, BoundsHold, TypeParts DEF Inventory
<1>14. ASSUME NEW b \in Buckets, Compare(b) PROVE TypeOK'
  <2>1. passing' \in BOOLEAN
    BY <1>14 DEF Compare
  <2>2. ShellTyped'
    BY <1>14, <2>1 DEF Compare, ShellTyped
  <2> QED
    BY <1>14, <2>2, UntouchedTyped, BoundsHold, TypeParts DEF Compare
<1>15. CASE Finish
  <2>1. CASE Stop
    BY <1>15, <2>1, StopTyped, UntouchedTyped, BoundsHold, TypeParts DEF Finish
  <2>2. CASE Step("idle") /\ ok' = TRUE /\ UNCHANGED <<toAdd, verify>>
    <3>1. ShellTyped'
      BY <2>2 DEF Step, ShellTyped, Stages
    <3> QED
      BY <1>15, <3>1, UntouchedTyped, BoundsHold, TypeParts DEF Finish
  <2> QED
    BY <1>15, <2>1, <2>2 DEF Finish
<1>16. CASE CleanReset
  <2>1. ShellTyped'
    BY <1>16, StepTyped DEF CleanReset, Stages
  <2>2. ChorusTyped' /\ HistoryTyped'
    BY <1>16 DEF CleanReset, ChorusTyped, HistoryTyped
  <2> QED
    BY <1>16, <2>1, <2>2, UntouchedTyped, BoundsHold, TypeParts DEF CleanReset
<1>17. CASE CleanRemove
  <2>1. StoresTyped'
    BY <1>17 DEF CleanRemove, StoresTyped, NoData, NoObjects
  <2>2. HistoryTyped'
    BY <1>17 DEF CleanRemove, HistoryTyped, Policied
  <2>3. BoundsTyped'
    BY <1>17, BoundsHold DEF CleanRemove, BoundsTyped, LabInv, CleanInv
  <2> QED
    BY <1>17, <2>1, <2>2, <2>3, StopTyped, UntouchedTyped, TypeParts DEF CleanRemove
<1> QED
  BY <1>1, <1>2, <1>3, <1>4, <1>5, <1>6, <1>7, <1>8, <1>9, <1>10, <1>11, <1>12, <1>13, <1>14,
     <1>15, <1>16, <1>17 DEF Make, RunLab, RunVerify, RunClean

\* So does every action of Chorus, the applications and the operator.
LEMMA OthersTyped ==
  ASSUME TypeOK, NEW b \in Buckets,
         \/ ChorusList(b) \/ ChorusCopy(b) \/ ChorusDone(b) \/ DiffFix(b)
         \/ \E k \in Keys : AppWrite(b, k)
  PROVE  TypeOK'
<1> USE DEF others, stores, chorus, verify, history, bounds, shell
<1>0. StoresTyped /\ ChorusTyped /\ ShellTyped /\ HistoryTyped /\ BoundsTyped
  BY TypeParts
<1> USE <1>0
<1>1. CASE ChorusList(b)
  <2>1. StoresTyped'
    BY <1>1 DEF ChorusList, StoresTyped, Store
  <2>2. ChorusTyped'
    BY <1>1 DEF ChorusList, ChorusTyped
  <2> QED
    BY <1>1, <2>1, <2>2, UntouchedTyped, BoundsHold, TypeParts DEF ChorusList
<1>2. CASE ChorusCopy(b)
  <2>1. PICK k \in todo[b] : /\ Put("follower", b, k, data["main"][b][k])
                             /\ todo' = [todo EXCEPT ![b] = @ \ {k}]
    BY <1>2 DEF ChorusCopy
  <2>2. k \in Keys /\ b \in buckets["follower"] /\ "follower" \in Store
        /\ data["main"][b][k] \in {"none", "sample", "own"}
    BY <1>2 DEF ChorusCopy, ChorusTyped, StoresTyped, Store
  <2>3. StoresTyped'
    BY <2>1, <2>2, PutTyped
  <2>4. ChorusTyped'
    BY <1>2, <2>1 DEF ChorusCopy, ChorusTyped
  <2> QED
    BY <1>2, <2>3, <2>4, UntouchedTyped, BoundsHold, TypeParts DEF ChorusCopy
<1>3. CASE ChorusDone(b)
  <2>1. ChorusTyped'
    BY <1>3 DEF ChorusDone, ChorusTyped
  <2> QED
    BY <1>3, <2>1, UntouchedTyped, BoundsHold, TypeParts DEF ChorusDone
<1>4. CASE DiffFix(b)
  <2>1. StoresTyped'
    BY <1>4 DEF DiffFix, StoresTyped, Store
  <2>2. HistoryTyped'
    BY <1>4 DEF DiffFix, HistoryTyped
  <2> QED
    BY <1>4, <2>1, <2>2, UntouchedTyped, BoundsHold, TypeParts DEF DiffFix
<1>5. ASSUME NEW k \in Keys, AppWrite(b, k) PROVE TypeOK'
  <2>1. StoresTyped'
    BY <1>5 DEF AppWrite, StoresTyped, Store
  <2>2. HistoryTyped'
    BY <1>5 DEF AppWrite, HistoryTyped
  <2>3. BoundsTyped'
    BY <1>5, BoundsHold DEF AppWrite, BoundsTyped
  <2> QED
    BY <1>5, <2>1, <2>2, <2>3, UntouchedTyped, TypeParts DEF AppWrite
<1> QED
  BY <1>1, <1>2, <1>3, <1>4, <1>5

-----------------------------------------------------------------------------
(* The inductive invariant.                                                *)

\* The stage of seeding is left or kept.
LEMMA SeedInvStays ==
  ASSUME SeedInv, UNCHANGED <<stores, chorus, stale>>,
         stage' \in {"cp", "pipe"} => stage' = stage /\ asked' = asked
  PROVE  SeedInv'
BY DEF SeedInv, SeedBucket, Policied, stores, chorus

\* What Chorus has copied does not depend on make.
LEMMA CopyInvStays ==
  ASSUME CopyInv, UNCHANGED <<stores, chorus, late, stale>>
  PROVE  CopyInv'
BY DEF CopyInv, Policied, Everywhere, stores, chorus

\* While nothing has been compared, nothing has passed.
LEMMA NothingPassed ==
  ASSUME ~ok', stage' # "compare" \/ ~passing'
  PROVE  VerifyInv'
BY DEF VerifyInv

\* The steps of make that leave the two servers and Chorus alone.
LEMMA ShellKeeps ==
  ASSUME TypeOK, LabInv,
         \/ Break \/ RunLab \/ RunVerify \/ RunClean \/ SeedCheck \/ ReplList
         \/ (\E b \in Buckets : ReplAddFails(b)) \/ ReplAdded \/ WaitDone \/ WaitTimesOut
         \/ Inventory \/ (\E b \in Buckets : Compare(b)) \/ Finish
  PROVE  LabInv'
<1> USE DEF stores, chorus, verify, history, bounds, shell, seeding, repling, verifying
<1>1. UNCHANGED <<stores, chorus, late, stale, cleans>>
  BY DEF Break, RunLab, RunVerify, RunClean, Start, SeedCheck, ReplList, ReplAddFails, ReplAdded,
         WaitDone, WaitTimesOut, Inventory, Compare, Finish, Fault
<1>2. SeedInv' /\ CopyInv'
  <2>1. stage' \notin {"cp", "pipe"}
    BY DEF Break, RunLab, RunVerify, RunClean, Start, SeedCheck, ReplList, ReplAddFails, ReplAdded,
           WaitDone, WaitTimesOut, Inventory, Compare, Finish, Stop, Step
  <2> QED
    BY <1>1, <2>1, SeedInvStays, CopyInvStays DEF LabInv
<1>3. WaitInv'
  <2>1. CASE WaitDone
    <3>1. \A b \in Policied : policy[b] = "done"
      BY <2>1 DEF WaitDone, InitDone
    <3> QED
      BY <1>1, <3>1 DEF WaitInv, Policied
  <2>2. CASE Inventory \/ (\E b \in Buckets : Compare(b))
    <3>1. goal' = goal /\ stage \in {"inventory", "compare"}
      BY <2>2 DEF Inventory, Compare, Step
    <3> QED
      BY <1>1, <3>1 DEF LabInv, WaitInv, Policied
  <2>3. CASE ~WaitDone /\ ~Inventory /\ ~(\E b \in Buckets : Compare(b))
    <3>1. goal' # "lab" \/ stage' \notin {"inventory", "compare"}
      BY <2>3 DEF Break, RunLab, RunVerify, RunClean, Start, SeedCheck, ReplList, ReplAddFails,
                  ReplAdded, WaitTimesOut, Finish, Stop, Step
    <3> QED
      BY <3>1 DEF WaitInv
  <2> QED
    BY <2>1, <2>2, <2>3
<1>4. VerifyInv'
  <2>1. CASE Inventory
    <3>1. toVerify' = Asked' /\ ok' = ok /\ stage' # "idle" /\ stage # "idle"
      BY <1>1, <2>1 DEF Inventory, Step, Asked
    <3> QED
      BY <3>1 DEF LabInv, VerifyInv
  <2>2. ASSUME NEW b \in Buckets, Compare(b) PROVE VerifyInv'
    <3>1. /\ stage = "compare" /\ stage' = stage /\ ok' = ok /\ asked' = asked /\ touched' = touched
          /\ toVerify' = toVerify \ {b}
          /\ passing' = (passing /\ Same(b) /\ \A s \in Store : b \in buckets[s])
      BY <2>2 DEF Compare
    <3>2. ~ok'
      BY <3>1 DEF LabInv, VerifyInv
    <3>3. ASSUME passing', NEW c \in Asked' \ (touched' \cup toVerify')
          PROVE  Everywhere(c)' /\ Same(c)'
      <4>1. passing /\ Same(b) /\ Everywhere(b)
        BY <3>1, <3>3 DEF Everywhere
      <4>2. c \in Asked /\ c \notin touched
        BY <1>1, <3>1, <3>3 DEF Asked
      <4>3. Everywhere(c) /\ Same(c)
        BY <3>1, <3>3, <4>1, <4>2 DEF LabInv, VerifyInv
      <4> QED
        BY <1>1, <4>3 DEF Everywhere, Same
    <3> QED
      BY <3>2, <3>3 DEF VerifyInv
  <2>3. CASE Finish
    <3>1. CASE Stop
      BY <3>1, NothingPassed DEF Stop
    <3>2. CASE passing /\ Step("idle") /\ ok' = TRUE /\ UNCHANGED <<toAdd, verify>>
      <4>1. stage = "compare" /\ toVerify = {} /\ touched' = touched
        BY <2>3 DEF Finish
      <4> QED
        BY <1>1, <3>2, <4>1 DEF LabInv, VerifyInv, Step, Asked, Everywhere, Same
    <3> QED
      BY <2>3, <3>1, <3>2 DEF Finish
  <2>4. CASE ~Inventory /\ ~(\E b \in Buckets : Compare(b)) /\ ~Finish
    <3>1. ok' => ok /\ stage # "idle"
      BY <2>4 DEF Break, RunLab, RunVerify, RunClean, Start, SeedCheck, ReplList, ReplAddFails,
                  ReplAdded, WaitDone, WaitTimesOut, Stop
    <3>2. ~ok' /\ stage' # "compare"
      BY <2>4, <3>1
         DEF LabInv, VerifyInv, Break, RunLab, RunVerify, RunClean, Start, SeedCheck, ReplList,
             ReplAddFails, ReplAdded, WaitDone, WaitTimesOut, Stop, Step
    <3> QED
      BY <3>2, NothingPassed
  <2> QED
    BY <2>1, <2>2, <2>3, <2>4
<1>5. CleanInv'
  <2>1. stage' \in {"reset", "remove"} => cleans < MaxCleans
    BY DEF LabInv, CleanInv, Break, RunLab, RunVerify, RunClean, Start, SeedCheck, ReplList,
           ReplAddFails, ReplAdded, WaitDone, WaitTimesOut, Inventory, Compare, Finish, Stop, Step
  <2> QED
    BY <1>1, <2>1 DEF CleanInv
<1> QED
  BY <1>2, <1>3, <1>4, <1>5 DEF LabInv

\* A bucket that is seeded has just been made: no live policy knows it, and
\* nothing was there.
LEMMA SeedKeeps ==
  ASSUME TypeOK, LabInv, SeedMake \/ SeedSmall \/ SeedBig
  PROVE  LabInv'
<1> USE DEF stores, chorus, verify, history, bounds, shell, seeding
<1> DEFINE b0 == SeedBucket
<1>0. /\ StoresTyped /\ ChorusTyped /\ ShellTyped
      /\ b0 \in Buckets /\ "main" \in Store /\ "follower" \in Store
      /\ Small \in Keys /\ Big \in Keys /\ Small # Big
  BY TypeParts, SeedBucketTyped, BoundsHold DEF Store, Keys
<1>1. /\ UNCHANGED <<policy, todo, late, stale, cleans, touched>>
      /\ stage \in {"mb", "cp", "pipe"} /\ stage' \in {"idle", "cp", "pipe", "list"}
      /\ goal' # "lab" \/ stage' \notin {"inventory", "compare"}
  BY DEF SeedMake, SeedSmall, SeedBig, Stop, Step
<1>2. VerifyInv' /\ WaitInv' /\ CleanInv'
  <2>1. ~ok
    BY <1>1 DEF LabInv, VerifyInv
  <2>2. ~ok'
    BY <2>1 DEF SeedMake, SeedSmall, SeedBig, Stop
  <2> QED
    BY <1>1, <2>2, NothingPassed DEF WaitInv, CleanInv
<1>3. CASE SeedMake
  <2>1. CASE b0 \in buckets["main"]
    <3>1. UNCHANGED <<stores, chorus, late, stale>> /\ stage' = "idle"
      BY <1>3, <2>1 DEF SeedMake, Stop
    <3> QED
      BY <1>2, <3>1, SeedInvStays, CopyInvStays DEF LabInv
  <2>2. CASE b0 \notin buckets["main"]
    <3>1. /\ buckets' = [buckets EXCEPT !["main"] = @ \cup {b0}] /\ data' = data
          /\ stage' = "cp" /\ asked' = asked
      BY <1>3, <2>2 DEF SeedMake, Step
    <3>2. /\ b0 \in buckets'["main"] /\ \A s \in Store : buckets[s] \subseteq buckets'[s]
          /\ data["main"][b0] = NoObjects
      BY <1>0, <2>2, <3>1 DEF StoresTyped
    <3>3. b0 \notin Policied \ stale
      BY <2>2 DEF LabInv, CopyInv
    <3>4. SeedInv'
      <4>1. data["main"][b0][Small] = "none" /\ data["main"][b0][Big] = "none"
        BY <1>0, <3>2 DEF NoObjects
      <4> QED
        BY <1>1, <3>1, <3>2, <3>3, <4>1 DEF SeedInv, SeedBucket, Policied
    <3>5. CopyInv'
      <4>1. /\ \A b \in Policied' \ stale' : b \in buckets'["main"]
            /\ \A b : Everywhere(b) => Everywhere(b)'
        BY <1>0, <1>1, <3>2 DEF LabInv, CopyInv, Policied, Everywhere
      <4> QED
        BY <1>1, <3>1, <4>1 DEF LabInv, CopyInv
    <3> QED
      BY <1>2, <3>4, <3>5 DEF LabInv
  <2> QED
    BY <2>1, <2>2
<1>4. CASE SeedSmall \/ SeedBig
  <2>1. PICK k \in Keys : /\ Put("main", b0, k, "sample")
                          /\ asked' = asked
                          /\ \/ stage = "cp" /\ k = Small /\ stage' = "pipe"
                             \/ stage = "pipe" /\ k = Big /\ stage' = "list"
    <3>1. CASE SeedSmall
      <4>1. Put("main", b0, Small, "sample") /\ asked' = asked /\ stage = "cp" /\ stage' = "pipe"
        BY <3>1 DEF SeedSmall, Step
      <4> QED
        BY <1>0, <4>1, Zenon
    <3>2. CASE SeedBig
      <4>1. Put("main", b0, Big, "sample") /\ asked' = asked /\ stage = "pipe" /\ stage' = "list"
        BY <3>2 DEF SeedBig, Step
      <4> QED
        BY <1>0, <4>1, Zenon
    <3> QED
      BY <1>4, <3>1, <3>2
  <2>2. /\ buckets' = buckets
        /\ data'["main"][b0][k] = "sample" /\ data'["follower"] = data["follower"]
        /\ \A b \in Buckets, z \in Keys : b # b0 \/ z # k => data'["main"][b][z] = data["main"][b][z]
    BY <1>0, <2>1 DEF Put, StoresTyped
  <2>3. b0 \in buckets["main"] /\ b0 \notin Policied \ stale /\ data["main"][b0][Big] = "none"
    BY <2>1 DEF LabInv, SeedInv
  <2>4. SeedInv'
    BY <1>0, <1>1, <2>1, <2>2, <2>3 DEF SeedInv, SeedBucket, Policied
  <2>5. CopyInv'
    <3>1. \A b \in Policied' \ stale' : b \in buckets'["main"]
      BY <1>1, <2>2 DEF LabInv, CopyInv, Policied
    <3>2. \A b \in Buckets, z \in Keys :
            data'["main"][b][z] = "none" => data'["follower"][b][z] = "none"
      BY <2>2 DEF LabInv, CopyInv
    <3>3. ASSUME NEW b \in Buckets \ (late \cup stale), policy[b] \in {"copying", "done"}
          PROVE  /\ Everywhere(b)'
                 /\ \A z \in Keys \ todo'[b] : data'["main"][b][z] = data'["follower"][b][z]
      <4>1. b # b0
        BY <2>3, <3>3 DEF Policied
      <4> QED
        BY <1>1, <2>2, <3>3, <4>1 DEF LabInv, CopyInv, Everywhere
    <3> QED
      BY <1>1, <3>1, <3>2, <3>3 DEF CopyInv
  <2> QED
    BY <1>2, <2>4, <2>5 DEF LabInv
<1> QED
  BY <1>3, <1>4

\* A policy is added to a bucket that is there.
LEMMA ReplAddKeeps ==
  ASSUME TypeOK, LabInv, NEW b \in Buckets, ReplAdd(b)
  PROVE  LabInv'
<1> USE DEF stores, verify, history, bounds, repling
<1>0. ChorusTyped
  BY TypeParts
<1>1. /\ stage = "add" /\ stage' = "add" /\ ok' = ok
      /\ UNCHANGED <<buckets, data, todo, late, stale, cleans>>
      /\ \A c \in Buckets : c # b \/ Refused(b) => policy'[c] = policy[c]
      /\ ~Refused(b) => policy'[b] = "new"
  BY <1>0 DEF ReplAdd, Added, Step, ChorusTyped
<1>2. CopyInv'
  <2>1. \A c \in Policied' \ stale' : c \in buckets'["main"]
    BY <1>1 DEF LabInv, CopyInv, Policied, Refused
  <2>2. ASSUME NEW c \in Buckets, policy'[c] \in {"copying", "done"}
        PROVE  policy[c] = policy'[c]
    BY <1>1, <2>2
  <2> QED
    BY <1>1, <2>1, <2>2 DEF LabInv, CopyInv, Everywhere
<1>3. ~ok'
  BY <1>1 DEF LabInv, VerifyInv
<1> QED
  BY <1>1, <1>2, <1>3, NothingPassed DEF LabInv, SeedInv, WaitInv, CleanInv

\* What cleaning leaves of policies has outlived its data.
LEMMA CleanKeeps ==
  ASSUME TypeOK, LabInv, CleanReset \/ CleanRemove
  PROVE  LabInv'
<1> USE DEF stores, chorus, verify, history, bounds, shell
<1>1. /\ stage \in {"reset", "remove"} /\ stage' \in {"remove", "idle"}
      /\ stage' = "remove" => cleans' = cleans
  BY DEF CleanReset, CleanRemove, Step, Stop, Fault
<1>2. SeedInv' /\ WaitInv' /\ VerifyInv' /\ CleanInv'
  <2>1. ~ok
    BY <1>1 DEF LabInv, VerifyInv
  <2>2. ~ok'
    BY <2>1 DEF CleanReset, CleanRemove, Stop
  <2> QED
    BY <1>1, <2>2, NothingPassed DEF LabInv, SeedInv, WaitInv, CleanInv
<1>3. CASE CleanReset
  <2>1. CASE UNCHANGED <<chorus, stale, late>>
    BY <1>2, <1>3, <2>1, CopyInvStays DEF CleanReset, LabInv
  <2>2. CASE policy' = [b \in Buckets |-> "none"]
    <3>1. Policied' = {} /\ data' = data
      BY <1>3, <2>2 DEF CleanReset, Policied
    <3> QED
      BY <1>2, <2>2, <3>1 DEF LabInv, CopyInv
  <2> QED
    BY <1>3, <2>1, <2>2 DEF CleanReset
<1>4. CASE CleanRemove
  <2>1. policy' = policy /\ stale' = Policied
    BY <1>4 DEF CleanRemove
  <2>2. \A b \in Buckets, k \in Keys : data'["follower"][b][k] = "none"
    BY <1>4 DEF CleanRemove, NoData, NoObjects, Store
  <2> QED
    BY <1>2, <2>1, <2>2 DEF LabInv, CopyInv, Policied
<1> QED
  BY <1>3, <1>4

\* Copying brings B closer to A, whatever else is going on.
LEMMA ChorusKeeps ==
  ASSUME TypeOK, LabInv, NEW b \in Buckets, ChorusList(b) \/ ChorusCopy(b) \/ ChorusDone(b)
  PROVE  LabInv'
<1> USE DEF stores, verify, history, bounds, shell, others
<1>0. StoresTyped /\ ChorusTyped /\ "main" \in Store /\ "follower" \in Store
  BY TypeParts DEF Store
<1>1. /\ UNCHANGED <<late, stage, goal, asked, toVerify, passing, ok, stale, touched, cleans>>
      /\ buckets'["main"] = buckets["main"] /\ data'["main"] = data["main"]
      /\ \A s \in Store : buckets[s] \subseteq buckets'[s]
      /\ \A c \in Buckets \ {b} : /\ data'["follower"][c] = data["follower"][c]
                                  /\ policy'[c] = policy[c] /\ todo'[c] = todo[c]
      /\ policy[b] # "none" /\ (policy[b] = "done" => policy'[b] = "done") /\ policy'[b] # "none"
  BY <1>0 DEF ChorusList, ChorusCopy, ChorusDone, Put, StoresTyped, ChorusTyped, Store
<1>2. Policied' = Policied
  BY <1>1 DEF Policied
<1>3. \A c : Everywhere(c) => Everywhere(c)'
  BY <1>1 DEF Everywhere
<1>4. \A c \in Buckets : Same(c) => Same(c)'
  <2>1. ASSUME Same(b) PROVE data'["follower"] = data["follower"]
    <3>1. CASE ChorusCopy(b)
      <4>1. PICK k \in todo[b] : data' = [data EXCEPT !["follower"][b][k] = data["main"][b][k]]
        BY <3>1 DEF ChorusCopy, Put
      <4>2. k \in Keys /\ data["main"][b][k] = data["follower"][b][k]
        BY <1>0, <2>1 DEF Same, ChorusTyped
      <4> QED
        BY <1>0, <4>1, <4>2 DEF StoresTyped
    <3>2. CASE ChorusList(b) \/ ChorusDone(b)
      BY <3>2 DEF ChorusList, ChorusDone
    <3> QED
      BY <3>1, <3>2
  <2> QED
    BY <1>1, <2>1 DEF Same
<1>5. SeedInv' /\ CleanInv'
  BY <1>1, <1>2 DEF LabInv, SeedInv, CleanInv, SeedBucket
<1>6. WaitInv'
  BY <1>1, <1>2 DEF LabInv, WaitInv, Policied
<1>7. VerifyInv'
  <2>1. Asked' = Asked
    BY <1>1 DEF Asked
  <2>2. Asked \subseteq Buckets \/ ~(ok \/ stage = "compare")
    BY TypeParts DEF Asked, ShellTyped, StoresTyped, Store
  <2> QED
    BY <1>1, <1>3, <1>4, <2>1, <2>2 DEF LabInv, VerifyInv
<1>8. CopyInv'
  <2>1. \A c \in Policied' \ stale' : c \in buckets'["main"]
    BY <1>1, <1>2 DEF LabInv, CopyInv
  <2>2. \A c \in Buckets, k \in Keys :
          data'["main"][c][k] = "none" => data'["follower"][c][k] = "none"
    <3>1. ASSUME NEW k \in Keys, data'["main"][b][k] = "none" PROVE data'["follower"][b][k] = "none"
      <4>1. data["main"][b][k] = "none" /\ data["follower"][b][k] = "none"
        BY <1>1, <3>1 DEF LabInv, CopyInv
      <4>2. data'["follower"][b][k] \in {data["follower"][b][k], data["main"][b][k]}
        <5>1. CASE ChorusCopy(b)
          <6>1. PICK z \in todo[b] : data' = [data EXCEPT !["follower"][b][z] = data["main"][b][z]]
            BY <5>1 DEF ChorusCopy, Put
          <6>2. z \in Keys
            BY <1>0 DEF ChorusTyped
          <6> QED
            BY <1>0, <6>1, <6>2 DEF StoresTyped
        <5>2. CASE ChorusList(b) \/ ChorusDone(b)
          BY <5>2 DEF ChorusList, ChorusDone
        <5> QED
          BY <5>1, <5>2
      <4> QED
        BY <4>1, <4>2
    <3> QED
      BY <1>1, <3>1 DEF LabInv, CopyInv
  <2>3. ASSUME b \notin late \cup stale
        PROVE  /\ Everywhere(b)'
               /\ \A k \in Keys \ todo'[b] : data'["main"][b][k] = data'["follower"][b][k]
    <3>1. CASE ChorusList(b)
      <4>1. /\ b \in buckets["main"] /\ buckets' = [buckets EXCEPT !["follower"] = @ \cup {b}]
            /\ data' = data /\ todo'[b] = {k \in Keys : data["main"][b][k] # "none"}
        BY <1>0, <3>1 DEF ChorusList, ChorusTyped
      <4>2. Everywhere(b)'
        BY <1>0, <4>1 DEF Everywhere, StoresTyped, Store
      <4> QED
        BY <4>1, <4>2 DEF LabInv, CopyInv
    <3>2. CASE ChorusCopy(b)
      <4>1. PICK k \in todo[b] : /\ data' = [data EXCEPT !["follower"][b][k] = data["main"][b][k]]
                                 /\ todo' = [todo EXCEPT ![b] = @ \ {k}]
        BY <3>2 DEF ChorusCopy, Put
      <4>2. /\ todo'[b] = todo[b] \ {k} /\ k \in Keys
            /\ data'["follower"][b][k] = data["main"][b][k]
            /\ \A z \in Keys \ {k} : data'["follower"][b][z] = data["follower"][b][z]
        BY <1>0, <4>1 DEF StoresTyped, ChorusTyped
      <4>3. policy[b] = "copying"
        BY <1>0 DEF ChorusTyped
      <4>4. Everywhere(b) /\ \A z \in Keys \ todo[b] : data["main"][b][z] = data["follower"][b][z]
        BY <2>3, <4>3 DEF LabInv, CopyInv
      <4> QED
        BY <1>1, <1>3, <4>2, <4>4
    <3>3. CASE ChorusDone(b)
      <4>1. policy[b] = "copying" /\ UNCHANGED <<buckets, data, todo>>
        BY <3>3 DEF ChorusDone
      <4> QED
        BY <1>3, <2>3, <4>1 DEF LabInv, CopyInv
    <3> QED
      BY <3>1, <3>2, <3>3
  <2> QED
    BY <1>1, <1>3, <2>1, <2>2, <2>3 DEF LabInv, CopyInv
<1> QED
  BY <1>5, <1>6, <1>7, <1>8 DEF LabInv

\* What applications write after Chorus has listed a bucket is late, and what
\* they write after a comparison is known to be.
LEMMA AppWriteKeeps ==
  ASSUME TypeOK, LabInv, NEW b \in Buckets, NEW k \in Keys, AppWrite(b, k)
  PROVE  LabInv'
<1> USE DEF stores, chorus, verify, history, bounds, shell
<1>0. StoresTyped /\ ChorusTyped /\ HistoryTyped /\ "main" \in Store /\ "follower" \in Store
  BY TypeParts DEF Store
<1>1. /\ UNCHANGED <<policy, todo, stage, goal, asked, toVerify, passing, ok, stale, cleans>>
      /\ late \subseteq late' /\ touched \subseteq touched'
      /\ policy[b] \in {"copying", "done"} => b \in late'
      /\ ok \/ stage = "compare" => b \in touched'
      /\ stage \in {"cp", "pipe"} => b # SeedBucket
  BY DEF AppWrite
<1>2. /\ buckets' = [buckets EXCEPT !["main"] = @ \cup {b}]
      /\ data' = [data EXCEPT !["main"][b][k] = "own"]
  BY DEF AppWrite
<1>3. /\ buckets'["main"] = buckets["main"] \cup {b}
      /\ \A s \in Store : buckets[s] \subseteq buckets'[s]
      /\ data'["follower"] = data["follower"]
      /\ data'["main"][b][k] = "own"
      /\ \A c \in Buckets \ {b} : data'["main"][c] = data["main"][c]
      /\ \A z \in Keys \ {k} : data'["main"][b][z] = data["main"][b][z]
  BY <1>0, <1>2 DEF StoresTyped
<1>4. Policied' = Policied /\ SeedBucket' = SeedBucket
  BY <1>1 DEF Policied, SeedBucket
<1>5. SeedInv'
  <2>1. stage \in {"cp", "pipe"} => SeedBucket \in Buckets \ {b}
    BY <1>1, TypeParts, SeedBucketTyped
  <2> QED
    BY <1>1, <1>3, <1>4, <2>1 DEF LabInv, SeedInv
<1>6. CopyInv'
  <2>1. \A c \in Policied' \ stale' : c \in buckets'["main"]
    BY <1>1, <1>3, <1>4 DEF LabInv, CopyInv
  <2>2. \A c \in Buckets, z \in Keys :
          data'["main"][c][z] = "none" => data'["follower"][c][z] = "none"
    BY <1>3 DEF LabInv, CopyInv
  <2>3. ASSUME NEW c \in Buckets \ (late' \cup stale'), policy'[c] \in {"copying", "done"}
        PROVE  /\ Everywhere(c)'
               /\ \A z \in Keys \ todo'[c] : data'["main"][c][z] = data'["follower"][c][z]
    <3>1. c # b /\ c \in Buckets \ (late \cup stale)
      BY <1>1, <2>3
    <3> QED
      BY <1>1, <1>3, <2>3, <3>1 DEF LabInv, CopyInv, Everywhere
  <2> QED
    BY <2>1, <2>2, <2>3 DEF CopyInv
<1>7. VerifyInv'
  <2>1. ASSUME ok \/ (stage = "compare" /\ passing), NEW c \in Asked' \ (touched' \cup toVerify')
        PROVE  Everywhere(c)' /\ Same(c)'
    <3>1. c # b /\ c \in Asked \ (touched \cup toVerify)
      BY <1>1, <1>3, <2>1 DEF Asked
    <3>2. c \in Buckets
      BY <3>1, TypeParts DEF Asked, ShellTyped, StoresTyped, Store
    <3>3. Everywhere(c) /\ Same(c)
      BY <2>1, <3>1 DEF LabInv, VerifyInv
    <3> QED
      BY <1>3, <3>1, <3>2, <3>3 DEF Everywhere, Same
  <2> QED
    BY <1>1, <2>1 DEF LabInv, VerifyInv
<1>8. WaitInv' /\ CleanInv'
  BY <1>1, <1>4 DEF LabInv, WaitInv, CleanInv
<1> QED
  BY <1>5, <1>6, <1>7, <1>8 DEF LabInv

\* The operator's repair makes a bucket the same.
LEMMA DiffFixKeeps ==
  ASSUME TypeOK, LabInv, NEW b \in Buckets, DiffFix(b)
  PROVE  LabInv'
<1> USE DEF stores, chorus, verify, history, bounds, shell, others
<1>0. StoresTyped /\ ChorusTyped /\ "main" \in Store /\ "follower" \in Store
  BY TypeParts DEF Store
<1>1. /\ UNCHANGED <<buckets, policy, todo, stage, goal, asked, toVerify, passing, ok, stale,
                     touched, cleans>>
      /\ late' = late \ {b} /\ stage = "idle" /\ Everywhere(b)
      /\ data' = [data EXCEPT !["follower"][b] = data["main"][b]]
  BY DEF DiffFix, Everywhere
<1>2. /\ data'["main"] = data["main"] /\ data'["follower"][b] = data["main"][b]
      /\ \A c \in Buckets \ {b} : data'["follower"][c] = data["follower"][c]
  BY <1>0, <1>1 DEF StoresTyped
<1>3. CopyInv'
  <2>1. \A c \in Policied' \ stale' : c \in buckets'["main"]
    BY <1>1 DEF LabInv, CopyInv, Policied
  <2>2. \A c \in Buckets, z \in Keys :
          data'["main"][c][z] = "none" => data'["follower"][c][z] = "none"
    BY <1>2 DEF LabInv, CopyInv
  <2>3. ASSUME NEW c \in Buckets \ (late' \cup stale'), policy'[c] \in {"copying", "done"}
        PROVE  /\ Everywhere(c)'
               /\ \A z \in Keys \ todo'[c] : data'["main"][c][z] = data'["follower"][c][z]
    <3>1. CASE c = b
      BY <1>1, <1>2, <3>1 DEF Everywhere
    <3>2. CASE c # b
      BY <1>1, <1>2, <2>3, <3>2 DEF LabInv, CopyInv, Everywhere
    <3> QED
      BY <3>1, <3>2
  <2> QED
    BY <2>1, <2>2, <2>3 DEF CopyInv
<1>4. VerifyInv'
  <2>1. ASSUME ok, NEW c \in Asked \ (touched \cup toVerify) PROVE Everywhere(c)' /\ Same(c)'
    <3>1. c \in Buckets
      BY <2>1, TypeParts DEF Asked, ShellTyped, StoresTyped, Store
    <3>2. Everywhere(c) /\ Same(c)
      BY <2>1 DEF LabInv, VerifyInv
    <3> QED
      BY <1>1, <1>2, <3>1, <3>2 DEF Everywhere, Same
  <2>2. Asked' = Asked
    BY <1>1 DEF Asked
  <2> QED
    BY <1>1, <2>1, <2>2 DEF LabInv, VerifyInv
<1> QED
  BY <1>1, <1>3, <1>4 DEF LabInv, SeedInv, WaitInv, CleanInv

\* The types and the invariant hold in every state.
LEMMA LabInvHolds == Spec => [](TypeOK /\ LabInv)
<1> USE DEF stores, chorus, verify, history, bounds
<1>1. Init => TypeOK /\ LabInv
  <2> SUFFICES ASSUME Init PROVE TypeOK /\ LabInv
    OBVIOUS
  <2>1. PICK mine \in SUBSET Buckets :
          /\ buckets = [s \in Store |-> IF s = "main" THEN mine ELSE {}]
          /\ data = [s \in Store |-> [b \in Buckets |-> [k \in Keys |->
                       IF s = "main" /\ b \in mine /\ k = Small THEN "own" ELSE "none"]]]
    BY DEF Init
  <2>2. StoresTyped
    BY <2>1 DEF StoresTyped, NoObjects
  <2>3. ChorusTyped /\ HistoryTyped
    BY DEF Init, ChorusTyped, HistoryTyped
  <2>4. /\ stage \in Stages /\ goal \in Goals
        /\ asked \in Buckets \cup {"all"}
        /\ toAdd \subseteq Buckets /\ toVerify \subseteq Buckets
        /\ {passing, ok} \subseteq BOOLEAN
    BY DEF Init, Stages, Goals
  <2>5. BoundsTyped
    BY BoundsHold DEF Init, BoundsTyped
  <2>6. TypeOK
    BY <2>2, <2>3, <2>4, <2>5 DEF TypeOK, StoresTyped, ChorusTyped, HistoryTyped, BoundsTyped
  <2>7. Policied = {}
    BY DEF Init, Policied
  <2>8. \A b \in Buckets, k \in Keys : data["follower"][b][k] = "none"
    BY <2>1 DEF Store
  <2>9. LabInv
    BY <2>7, <2>8 DEF Init, LabInv, SeedInv, CopyInv, WaitInv, VerifyInv, CleanInv
  <2> QED
    BY <2>6, <2>9
<1>2. TypeOK /\ LabInv /\ [Next]_vars => TypeOK' /\ LabInv'
  <2> SUFFICES ASSUME TypeOK, LabInv, [Next]_vars PROVE TypeOK' /\ LabInv'
    OBVIOUS
  <2>1. CASE Make \/ Break \/ RunLab \/ RunVerify \/ RunClean
    BY <2>1, MakeTyped, ShellKeeps, SeedKeeps, ReplAddKeeps, CleanKeeps DEF Make
  <2>2. CASE Chorus \/ Fix
    BY <2>2, OthersTyped, ChorusKeeps, DiffFixKeeps DEF Chorus, Fix
  <2>3. CASE \E b \in Buckets, k \in Keys : AppWrite(b, k)
    BY <2>3, OthersTyped, AppWriteKeeps
  <2>4. CASE UNCHANGED vars
    BY <2>4 DEF vars, shell, TypeOK, LabInv, SeedInv, CopyInv, WaitInv, VerifyInv, CleanInv,
                Policied, SeedBucket, Asked, Everywhere, Same
  <2> QED
    BY <2>1, <2>2, <2>3, <2>4 DEF Next
<1> QED
  BY <1>1, <1>2, PTL DEF Spec

-----------------------------------------------------------------------------
(* What the lab promises.                                                  *)

\* Every variable keeps its type.
THEOREM TypeCorrect == Spec => []TypeOK
BY LabInvHolds, PTL

\* `make lab` verifies what has been copied.
THEOREM LabVerifiesCopies == Spec => []CopiedBeforeVerified
<1>1. TypeOK /\ LabInv => CopiedBeforeVerified
  <2> SUFFICES ASSUME TypeOK, LabInv, goal = "lab", stage \in {"inventory", "compare"},
                      NEW b \in Policied \ (late \cup stale)
               PROVE  (\A s \in Store : b \in buckets[s]) /\ Same(b)
    BY DEF CopiedBeforeVerified
  <2>1. b \in Buckets /\ policy[b] = "done" /\ todo[b] = {}
    BY TypeParts DEF LabInv, WaitInv, Policied, ChorusTyped
  <2>2. Everywhere(b) /\ \A k \in Keys : data["main"][b][k] = data["follower"][b][k]
    BY <2>1 DEF LabInv, CopyInv
  <2>3. data["main"][b] \in [Keys -> {"none", "sample", "own"}]
        /\ data["follower"][b] \in [Keys -> {"none", "sample", "own"}]
    BY <2>1, TypeParts DEF StoresTyped, Store
  <2> QED
    BY <2>2, <2>3 DEF Everywhere, Same
<1> QED
  BY <1>1, LabInvHolds, PTL

\* A verification that ends well says that what was asked for is on B.
THEOREM PassIsCopied == Spec => []PassMeansCopied
<1>1. LabInv => PassMeansCopied
  BY DEF LabInv, VerifyInv, PassMeansCopied, Everywhere
<1> QED
  BY <1>1, LabInvHolds, PTL

\* Nothing on A is changed or lost by seeding, replicating or verifying.
THEOREM NothingOverwritten == Spec => SeedNeverOverwrites
<1> USE DEF stores, chorus, verify, history, bounds, shell, others, seeding, repling, verifying
<1>1. TypeOK /\ LabInv /\ [Next]_vars =>
        [writes' = writes /\ cleans' = cleans
           => \A b \in Buckets, k \in Keys :
                data["main"][b][k] # "none" => data["main"][b][k]' = data["main"][b][k]]_vars
  <2> SUFFICES ASSUME TypeOK, LabInv, Next, writes' = writes, cleans' = cleans,
                      NEW b \in Buckets, NEW k \in Keys, data["main"][b][k] # "none"
               PROVE  data'["main"][b][k] = data["main"][b][k]
    OBVIOUS
  <2>0. StoresTyped /\ ShellTyped /\ BoundsTyped
    BY TypeParts
  <2>1. CASE SeedSmall
    <3>1. data' = [data EXCEPT !["main"][SeedBucket][Small] = "sample"]
          /\ data["main"][SeedBucket][Small] = "none"
      BY <2>1 DEF SeedSmall, Put, LabInv, SeedInv
    <3> QED
      BY <2>0, <3>1 DEF StoresTyped, Store
  <2>2. CASE SeedBig
    <3>1. data' = [data EXCEPT !["main"][SeedBucket][Big] = "sample"]
          /\ data["main"][SeedBucket][Big] = "none"
      BY <2>2 DEF SeedBig, Put, LabInv, SeedInv
    <3> QED
      BY <2>0, <3>1 DEF StoresTyped, Store
  <2>3. CASE Chorus \/ Fix
    BY <2>0, <2>3 DEF Chorus, ChorusList, ChorusCopy, ChorusDone, Fix, DiffFix, Put, StoresTyped, Store
  <2>4. CASE CleanRemove
    BY <2>0, <2>4, BoundsHold DEF CleanRemove, BoundsTyped
  <2>5. CASE \E c \in Buckets, z \in Keys : AppWrite(c, z)
    BY <2>0, <2>5, BoundsHold DEF AppWrite, BoundsTyped
  <2>6. CASE \/ RunLab \/ RunVerify \/ RunClean \/ Break \/ SeedCheck \/ SeedMake \/ ReplList
             \/ (\E c \in Buckets : ReplAdd(c) \/ ReplAddFails(c)) \/ ReplAdded \/ WaitDone
             \/ WaitTimesOut \/ Inventory \/ (\E c \in Buckets : Compare(c)) \/ Finish
             \/ CleanReset
    BY <2>6 DEF RunLab, RunVerify, RunClean, Start, Break, SeedCheck, SeedMake, ReplList, ReplAdd,
                Added, ReplAddFails, ReplAdded, WaitDone, WaitTimesOut, Inventory, Compare, Finish,
                CleanReset
  <2> QED
    BY <2>1, <2>2, <2>3, <2>4, <2>5, <2>6 DEF Next, Make
<1> QED
  BY <1>1, LabInvHolds, PTL DEF Spec, SeedNeverOverwrites
=============================================================================
