------------------------ MODULE CompareObjects_proofs ------------------------
(***************************************************************************)
(* Proofs about the worker pool of compareObjects, for any number of keys, *)
(* any copies, and any option set Config.Validate lets through.            *)
(***************************************************************************)
EXTENDS CompareObjects, ObjectVerdict_proofs, FiniteSetTheorems, TLAPS

-----------------------------------------------------------------------------
(* Types.                                                                  *)

\* The constants have the types the assumptions on them give.
LEMMA ConstantsTyped ==
  /\ \A c \in Configs : /\ c.Level \in 1 .. 3
                        /\ c.Concurrency \in Nat \ {0}
                        /\ c.MaxDeepBytes \in Int
                        /\ c.DeepOnInconclusive \in BOOLEAN
                        /\ c.CheckTags \in BOOLEAN
  /\ \A p \in Pairs : p["source"].size \in Nat /\ p["target"].size \in Nat
  /\ NumKeys \in Nat
BY InputsTyped, NumKeysAssumption

\* The cost of a download, and what a failed one has read, are naturals.
LEMMA CostTyped ==
  ASSUME TypeOK, NEW k \in Keys
  PROVE  /\ Cost(k) \in Nat
         /\ \A s \in Side : BytesRead(k, s) \subseteq Nat
<1>1. pair[k] \in Pairs
  BY DEF TypeOK
<1>2. pair[k]["source"].size \in Nat /\ pair[k]["target"].size \in Nat
  BY <1>1, ConstantsTyped
<1> QED
  BY <1>2 DEF Cost, BytesRead, Side

\* The counters of objectCounters that are plain numbers.
Tally == [matched : Nat, errors : Nat, deepVerified : Nat, deepBytes : Nat]

\* The counters stay plain numbers under the two updates workers make.
LEMMA TallyTyped ==
  ASSUME NEW t \in Tally, NEW a \in Nat, NEW b \in Nat
  PROVE  /\ [t EXCEPT !.deepBytes = a, !.deepVerified = b] \in Tally
         /\ [t EXCEPT !.matched = a, !.errors = b] \in Tally
BY DEF Tally

\* Recording the answer of one request keeps an observation an observation.
LEMMA ObservationTyped ==
  ASSUME NEW o \in Observation, NEW s \in Side
  PROVE  /\ \A h \in HeadOutcome : [o EXCEPT !.head[s] = h] \in Observation
         /\ \A g \in {"ok", "err"} : [o EXCEPT !.get[s] = g] \in Observation
         /\ [o EXCEPT !.deep = "granted"] \in Observation
         /\ [o EXCEPT !.deep = "denied"] \in Observation
BY DEF Observation

\* The state of the pool has the types the Go declarations give it, whatever
\* the workers interleave.
THEOREM TypeCorrect == Spec => []TypeOK
<1>1. Init => TypeOK
  <2> SUFFICES ASSUME Init PROVE TypeOK
    OBVIOUS
  <2>1. NothingRequested \in Observation
    BY DEF NothingRequested, Observation, HeadOutcome
  <2>2. next \in 1 .. NumKeys + 1 /\ deepBudget \in Int /\ sem \in Int /\ wg \in Int
    BY ConstantsTyped DEF Init
  <2> QED
    BY <2>1, <2>2 DEF Init, TypeOK, PC
<1>2. TypeOK /\ [Next \/ Returned]_vars => TypeOK'
  <2> SUFFICES ASSUME TypeOK, [Next \/ Returned]_vars PROVE TypeOK'
    OBVIOUS
  <2>1. CASE Dispatch
    <3>1. next' \in 1 .. NumKeys + 1 /\ wg' \in Int /\ sem' \in Int /\ pc' \in [Keys -> PC]
      BY <2>1, ConstantsTyped DEF TypeOK, Dispatch, Goto, Keys, PC
    <3> QED
      BY <2>1, <3>1 DEF TypeOK, Dispatch, budget, counters
  <2>2. CASE Return
    BY <2>2 DEF TypeOK, Return, pool, budget, counters
  <2>3. ASSUME NEW k \in Keys, NEW s \in Side, HeadSide(k, s)
        PROVE  TypeOK'
    <3>1. PICK h \in HeadOutcome : obs' = [obs EXCEPT ![k].head[s] = h]
      BY <2>3, HeadOutcomesTyped DEF HeadSide, TypeOK
    <3>2. obs[k] \in Observation
      BY DEF TypeOK
    <3>3. obs' = [obs EXCEPT ![k] = [obs[k] EXCEPT !.head[s] = h]]
      BY <3>1
    <3>4. obs' \in [Keys -> Observation]
      BY <3>2, <3>3, ObservationTyped DEF TypeOK
    <3> QED
      BY <2>3, <3>4 DEF TypeOK, HeadSide, pool, budget, counters
  <2>4. ASSUME NEW k \in Keys, NEW s \in Side, GetSide(k, s)
        PROVE  TypeOK'
    <3>1. PICK g \in {"ok", "err"} : obs' = [obs EXCEPT ![k].get[s] = g]
      BY <2>4 DEF GetSide
    <3>2. obs[k] \in Observation
      BY DEF TypeOK
    <3>3. obs' = [obs EXCEPT ![k] = [obs[k] EXCEPT !.get[s] = g]]
      BY <3>1
    <3>4. obs' \in [Keys -> Observation]
      BY <3>2, <3>3, ObservationTyped DEF TypeOK
    <3> QED
      BY <2>4, <3>4 DEF TypeOK, GetSide, pool, budget, counters
  <2>5. ASSUME NEW k \in Keys, SkipDeep(k) \/ PeekBudget(k)
        PROVE  TypeOK'
    <3>1. pc' \in [Keys -> PC]
      BY <2>5 DEF TypeOK, SkipDeep, PeekBudget, Goto, PC
    <3> QED
      BY <2>5, <3>1 DEF TypeOK, SkipDeep, PeekBudget, pool, budget, counters
  <2>6. ASSUME NEW k \in Keys, PeekUnlimited(k) \/ ReserveGranted(k)
        PROVE  TypeOK'
    <3>1. Grant(k)
      BY <2>6 DEF PeekUnlimited, ReserveGranted
    <3>2. obs[k] \in Observation
      BY DEF TypeOK
    <3>3. obs' = [obs EXCEPT ![k] = [obs[k] EXCEPT !.deep = "granted"]]
      BY <3>1 DEF Grant
    <3>4. obs' \in [Keys -> Observation]
      BY <3>2, <3>3, ObservationTyped DEF TypeOK, Side
    <3>5. pc' \in [Keys -> PC] /\ spent' \in Nat
      BY <3>1, CostTyped DEF Grant, Goto, TypeOK, PC
    <3>6. deepBudget' \in Int
      BY <2>6, CostTyped DEF PeekUnlimited, ReserveGranted, TypeOK
    <3> QED
      BY <2>6, <3>4, <3>5, <3>6 DEF TypeOK, PeekUnlimited, ReserveGranted, pool, counters
  <2>7. ASSUME NEW k \in Keys, ReserveDenied(k)
        PROVE  TypeOK'
    <3>1. obs[k] \in Observation
      BY DEF TypeOK
    <3>2. obs' = [obs EXCEPT ![k] = [obs[k] EXCEPT !.deep = "denied"]]
      BY <2>7 DEF ReserveDenied
    <3>3. obs' \in [Keys -> Observation]
      BY <3>1, <3>2, ObservationTyped DEF TypeOK, Side
    <3>4. pc' \in [Keys -> PC]
      BY <2>7 DEF ReserveDenied, Goto, TypeOK, PC
    <3> QED
      BY <2>7, <3>3, <3>4 DEF TypeOK, ReserveDenied, pool, budget, counters
  <2>8. ASSUME NEW k \in Keys, HashJoin(k)
        PROVE  TypeOK'
    <3>1. PICK ns \in Nat, nt \in Nat :
            tally' = [tally EXCEPT !.deepBytes = @ + ns + nt,
                                   !.deepVerified = @ + One(Hashed(obs[k]))]
      BY <2>8, CostTyped DEF HashJoin, Side
    <3>2. One(Hashed(obs[k])) \in Nat
      BY DEF One
    <3>3. tally' \in Tally
      <4>1. /\ tally \in Tally
            /\ tally.deepBytes + ns + nt \in Nat
            /\ tally.deepVerified + One(Hashed(obs[k])) \in Nat
        BY <3>2 DEF TypeOK, Tally
      <4> QED
        BY <3>1, <4>1, TallyTyped
    <3>4. pc' \in [Keys -> PC]
      BY <2>8 DEF HashJoin, Goto, TypeOK, PC
    <3> QED
      BY <2>8, <3>3, <3>4 DEF TypeOK, Tally, HashJoin, pool, budget
  <2>9. ASSUME NEW k \in Keys, Publish(k)
        PROVE  TypeOK'
    <3>1. One(StatusOf(cfg, pair[k], obs[k]) = "PASS") \in Nat
      BY DEF One
    <3>2. One(StatusOf(cfg, pair[k], obs[k]) = "ERROR") \in Nat
      BY DEF One
    <3>3. tally' \in Tally
      <4>1. /\ tally \in Tally
            /\ tally.matched + One(StatusOf(cfg, pair[k], obs[k]) = "PASS") \in Nat
            /\ tally.errors + One(StatusOf(cfg, pair[k], obs[k]) = "ERROR") \in Nat
        BY <3>1, <3>2 DEF TypeOK, Tally
      <4> QED
        BY <2>9, <4>1, TallyTyped DEF Publish
    <3>4. Reasons(cfg, pair[k], obs[k]) \in [Reason -> Nat]
      BY ReasonsTyped DEF TypeOK
    <3>5. reasonCount' \in [Reason -> Nat]
      BY <2>9, <3>4 DEF TypeOK, Publish
    <3>6. pc' \in [Keys -> PC] /\ results' \subseteq Keys
      BY <2>9 DEF Publish, Goto, TypeOK, PC
    <3> QED
      BY <2>9, <3>3, <3>5, <3>6 DEF TypeOK, Tally, Publish, pool, budget
  <2>10. ASSUME NEW k \in Keys, Release(k) \/ Exit(k)
         PROVE  TypeOK'
    BY <2>10 DEF TypeOK, Release, Exit, Goto, PC, budget, counters
  <2>11. CASE UNCHANGED vars
    BY <2>11 DEF TypeOK, vars, pool, budget, counters
  <2> QED
    BY <2>1, <2>2, <2>3, <2>4, <2>5, <2>6, <2>7, <2>8, <2>9, <2>10, <2>11
    DEF Next, Returned, Worker
<1> QED
  BY <1>1, <1>2, PTL DEF Spec

-----------------------------------------------------------------------------
(* The steps of the pool, sorted by what they do to the semaphore.         *)

\* The body of a worker: what it does between taking a slot and giving it back.
Body(k) ==
  \/ \E s \in Side : HeadSide(k, s) \/ GetSide(k, s)
  \/ SkipDeep(k) \/ PeekBudget(k) \/ PeekUnlimited(k)
  \/ ReserveGranted(k) \/ ReserveDenied(k)
  \/ HashJoin(k) \/ Publish(k)

\* Every step is a step of the loop, takes or gives back a slot, is one of a
\* worker's body, or changes nothing.
LEMMA StepKinds ==
  ASSUME [Next \/ Returned]_vars
  PROVE  \/ Dispatch
         \/ Return
         \/ \E k \in Keys : Body(k) \/ Release(k) \/ Exit(k)
         \/ UNCHANGED vars
BY DEF Next, Returned, Worker, Body

Working == {"head", "reserve", "hash", "publish"}

\* A step of the body moves its own program counter only, and leaves the slot,
\* the WaitGroup and the loop alone.
LEMMA BodyStep ==
  ASSUME TypeOK, NEW k \in Keys, Body(k)
  PROVE  /\ pc[k] \in Working
         /\ \E x \in Working \cup {"published"} : pc' = [pc EXCEPT ![k] = x]
         /\ UNCHANGED <<cfg, pair, next, sem, wg, returned>>
<1> USE DEF Working, TypeOK
<1>1. ASSUME NEW s \in Side, HeadSide(k, s)
      PROVE  pc' = [pc EXCEPT ![k] = "head"] /\ pc[k] = "head"
  BY <1>1 DEF HeadSide
<1>2. ASSUME NEW s \in Side, GetSide(k, s)
      PROVE  pc' = [pc EXCEPT ![k] = "hash"] /\ pc[k] = "hash"
  BY <1>2 DEF GetSide
<1>3. CASE SkipDeep(k) \/ PeekBudget(k)
  BY <1>3 DEF SkipDeep, PeekBudget, Goto, pool
<1>4. CASE PeekUnlimited(k) \/ ReserveGranted(k) \/ ReserveDenied(k)
  BY <1>4 DEF PeekUnlimited, ReserveGranted, ReserveDenied, Grant, Goto, pool
<1>5. CASE HashJoin(k) \/ Publish(k)
  BY <1>5 DEF HashJoin, Publish, Goto, pool
<1>6. ASSUME NEW s \in Side, HeadSide(k, s) \/ GetSide(k, s)
      PROVE  UNCHANGED <<cfg, pair, next, sem, wg, returned>>
  BY <1>6 DEF HeadSide, GetSide, pool
<1> QED
  BY <1>1, <1>2, <1>3, <1>4, <1>5, <1>6 DEF Body

-----------------------------------------------------------------------------
(* Slots.                                                                  *)

\* Counting a finite set of keys when one key is added or removed.
LEMMA CountKeys ==
  ASSUME NEW S \in SUBSET Keys, NEW k \in Keys
  PROVE  /\ Cardinality(S) \in Nat
         /\ k \notin S => Cardinality(S \cup {k}) = Cardinality(S) + 1
         /\ k \in S => Cardinality(S \ {k}) = Cardinality(S) - 1
         /\ Cardinality(S) = 0 => S = {}
<1>1. IsFiniteSet(Keys)
  BY FS_Interval, ConstantsTyped DEF Keys
<1>2. IsFiniteSet(S)
  BY <1>1, FS_Subset
<1> QED
  BY <1>2, FS_CardinalityType, FS_AddElement, FS_RemoveElement, FS_EmptySet

Unfinished == {k \in Keys : pc[k] \notin {"idle", "done"}}

\* The channel holds one token per key in flight and never more than its
\* capacity; the WaitGroup counts the goroutines that have not ended.
SlotInv ==
  /\ \A k \in Keys : pc[k] = "idle" <=> k >= next
  /\ sem = Cardinality(InFlight)
  /\ sem <= cfg.Concurrency
  /\ wg = Cardinality(Unfinished)

\* No step loses or invents a token of the semaphore or a count of wg.
LEMMA SlotInvStep ==
  ASSUME TypeOK, SlotInv, [Next \/ Returned]_vars
  PROVE  SlotInv'
<1> USE DEF SlotInv
<1>0. InFlight \in SUBSET Keys /\ Unfinished \in SUBSET Keys
  BY DEF InFlight, Unfinished
<1>1. CASE Dispatch
  <2>1. /\ next \in Keys
        /\ pc' = [pc EXCEPT ![next] = "head"]
        /\ next' = next + 1 /\ sem' = sem + 1 /\ wg' = wg + 1 /\ cfg' = cfg
        /\ sem < cfg.Concurrency
    BY <1>1, ConstantsTyped DEF Dispatch, Goto, TypeOK, Keys
  <2>2. /\ next \notin InFlight /\ InFlight' = InFlight \cup {next}
        /\ next \notin Unfinished /\ Unfinished' = Unfinished \cup {next}
    BY <2>1 DEF InFlight, Unfinished, TypeOK, Keys
  <2>3. \A k \in Keys : (pc[k] = "idle" <=> k >= next)'
    <3> SUFFICES ASSUME NEW k \in Keys PROVE pc'[k] = "idle" <=> k >= next'
      OBVIOUS
    <3>1. pc'[k] = IF k = next THEN "head" ELSE pc[k]
      BY <2>1 DEF TypeOK
    <3>2. pc[k] = "idle" <=> k >= next
      OBVIOUS
    <3>3. k \in Nat /\ next \in Nat
      BY <2>1, ConstantsTyped DEF Keys
    <3> QED
      BY <2>1, <3>1, <3>2, <3>3
  <2>4. sem' <= cfg'.Concurrency
    BY <2>1, ConstantsTyped DEF TypeOK
  <2> QED
    BY <1>0, <2>1, <2>2, <2>3, <2>4, CountKeys
<1>2. CASE Return \/ UNCHANGED vars
  BY <1>2 DEF Return, vars, pool, InFlight, Unfinished
<1>3. ASSUME NEW k \in Keys, Body(k)
      PROVE  SlotInv'
  <2>1. PICK x \in Working \cup {"published"} : pc' = [pc EXCEPT ![k] = x]
    BY <1>3, BodyStep
  <2>2. pc[k] \in Working /\ UNCHANGED <<cfg, next, sem, wg>>
    BY <1>3, BodyStep
  <2>3. InFlight' = InFlight /\ Unfinished' = Unfinished
    BY <2>1, <2>2 DEF InFlight, Unfinished, TypeOK, Working
  <2>4. \A j \in Keys : pc'[j] = "idle" <=> pc[j] = "idle"
    BY <2>1, <2>2 DEF TypeOK, Working
  <2> QED
    BY <2>2, <2>3, <2>4
<1>4. ASSUME NEW k \in Keys, Release(k)
      PROVE  SlotInv'
  <2>1. /\ pc[k] = "published" /\ pc' = [pc EXCEPT ![k] = "released"]
        /\ sem' = sem - 1 /\ UNCHANGED <<cfg, next, wg>>
    BY <1>4 DEF Release, Goto
  <2>2. /\ k \in InFlight /\ InFlight' = InFlight \ {k}
        /\ Unfinished' = Unfinished
    BY <2>1 DEF InFlight, Unfinished, TypeOK
  <2>3. \A j \in Keys : pc'[j] = "idle" <=> pc[j] = "idle"
    BY <2>1 DEF TypeOK
  <2>4. sem' <= cfg'.Concurrency
    BY <2>1, ConstantsTyped DEF TypeOK
  <2> QED
    BY <1>0, <2>1, <2>2, <2>3, <2>4, CountKeys
<1>5. ASSUME NEW k \in Keys, Exit(k)
      PROVE  SlotInv'
  <2>1. /\ pc[k] = "released" /\ pc' = [pc EXCEPT ![k] = "done"]
        /\ wg' = wg - 1 /\ UNCHANGED <<cfg, next, sem>>
    BY <1>5 DEF Exit, Goto
  <2>2. /\ k \in Unfinished /\ Unfinished' = Unfinished \ {k}
        /\ InFlight' = InFlight
    BY <2>1 DEF InFlight, Unfinished, TypeOK
  <2>3. \A j \in Keys : pc'[j] = "idle" <=> pc[j] = "idle"
    BY <2>1 DEF TypeOK
  <2> QED
    BY <1>0, <2>1, <2>2, <2>3, CountKeys
<1> QED
  BY <1>1, <1>2, <1>3, <1>4, <1>5, StepKinds

\* The tokens and the WaitGroup are accounted for in every reachable state.
LEMMA SlotInvHolds == Spec => []SlotInv
<1>1. Init => SlotInv
  <2> SUFFICES ASSUME Init PROVE SlotInv
    OBVIOUS
  <2>1. InFlight = {} /\ Unfinished = {}
    BY DEF Init, InFlight, Unfinished
  <2> QED
    BY <2>1, FS_EmptySet, ConstantsTyped DEF Init, SlotInv, Keys
<1> QED
  BY <1>1, SlotInvStep, TypeCorrect, PTL DEF Spec

\* At most Concurrency keys have requests outstanding, for every number of
\* keys and every Concurrency.
THEOREM SlotsAreBounded == Spec => []SlotsBounded
<1>1. SlotInv => SlotsBounded
  BY DEF SlotInv, SlotsBounded
<1> QED
  BY <1>1, SlotInvHolds, PTL

-----------------------------------------------------------------------------
(* The download budget.                                                    *)

\* The budget only ever loses even amounts, and until it is empty it accounts
\* for every grant.
BudgetInv ==
  /\ deepBudget <= cfg.MaxDeepBytes
  /\ BudgetNeverOverdrawn
  /\ \E n \in Nat : cfg.MaxDeepBytes = deepBudget + 2 * n

\* No step parts what is left of the budget from what was granted.
LEMMA BudgetInvStep ==
  ASSUME TypeOK, BudgetInv, [Next \/ Returned]_vars
  PROVE  BudgetInv'
<1> USE DEF BudgetInv, BudgetNeverOverdrawn
<1>0. cfg.MaxDeepBytes \in Int /\ deepBudget \in Int /\ spent \in Nat
  BY ConstantsTyped DEF TypeOK
<1>1. ASSUME NEW k \in Keys, PeekUnlimited(k)
      PROVE  BudgetInv'
  BY <1>0, <1>1 DEF PeekUnlimited
<1>2. ASSUME NEW k \in Keys, ReserveGranted(k)
      PROVE  BudgetInv'
  <2> DEFINE size == pair[k]["source"].size
  <2>1. size \in Nat
    BY ConstantsTyped DEF TypeOK
  <2>2. /\ deepBudget' = deepBudget - 2 * size
        /\ deepBudget' >= 0
        /\ spent' = spent + 2 * size
        /\ cfg' = cfg
    BY <1>2 DEF ReserveGranted, Grant, Cost
  <2> HIDE DEF size
  <2>3. PICK n \in Nat : cfg.MaxDeepBytes = deepBudget + 2 * n
    OBVIOUS
  <2>4. n + size \in Nat /\ cfg.MaxDeepBytes = deepBudget' + 2 * (n + size)
    BY <1>0, <2>1, <2>2, <2>3
  <2>5. \E m \in Nat : cfg.MaxDeepBytes = deepBudget' + 2 * m
    BY <2>4
  <2> QED
    BY <1>0, <2>1, <2>2, <2>5
<1>3. CASE UNCHANGED <<cfg, budget>>
  BY <1>3 DEF budget
<1>4. ASSUME NEW k \in Keys, Worker(k)
      PROVE  UNCHANGED <<cfg, budget>> \/ PeekUnlimited(k) \/ ReserveGranted(k)
  BY <1>4 DEF Worker, HeadSide, GetSide, SkipDeep, PeekBudget, ReserveDenied, HashJoin,
     Publish, Release, Exit
<1>5. Dispatch \/ Return \/ UNCHANGED vars => UNCHANGED <<cfg, budget>>
  BY DEF Dispatch, Return, vars
<1> QED
  BY <1>1, <1>2, <1>3, <1>4, <1>5 DEF Next, Returned

\* The ledger of the download budget balances in every reachable state.
LEMMA BudgetInvHolds == Spec => []BudgetInv
<1>1. Init => BudgetInv
  <2> SUFFICES ASSUME Init PROVE BudgetInv
    OBVIOUS
  <2>1. deepBudget = cfg.MaxDeepBytes /\ spent = 0 /\ cfg.MaxDeepBytes \in Int
    BY ConstantsTyped DEF Init
  <2>2. 0 \in Nat /\ cfg.MaxDeepBytes = deepBudget + 2 * 0
    BY <2>1
  <2> QED
    BY <2>1, <2>2 DEF BudgetInv, BudgetNeverOverdrawn
<1> QED
  BY <1>1, BudgetInvStep, TypeCorrect, PTL DEF Spec

\* Although the budget is looked at without its mutex, it is never overdrawn
\* and accounts for every grant until it is used up.
THEOREM BudgetIsLedger == Spec => []BudgetNeverOverdrawn
<1>1. BudgetInv => BudgetNeverOverdrawn
  BY DEF BudgetInv
<1> QED
  BY <1>1, BudgetInvHolds, PTL

\* An odd cap is a cap, for any number of objects, sizes and workers.
THEOREM OddCapIsCap == Spec => []OddCapHolds
<1>1. TypeOK /\ BudgetInv => OddCapHolds
  <2> SUFFICES ASSUME TypeOK, BudgetInv, cfg.MaxDeepBytes > 0, cfg.MaxDeepBytes % 2 = 1
               PROVE  spent <= cfg.MaxDeepBytes
    BY DEF OddCapHolds
  <2>1. cfg.MaxDeepBytes \in Int /\ deepBudget \in Int /\ spent \in Nat
    BY ConstantsTyped DEF TypeOK
  <2>2. PICK n \in Nat : cfg.MaxDeepBytes = deepBudget + 2 * n
    BY DEF BudgetInv
  <2>3. deepBudget # 0
    BY <2>1, <2>2
  <2> QED
    BY <2>1, <2>3 DEF BudgetInv, BudgetNeverOverdrawn
<1> QED
  BY <1>1, TypeCorrect, BudgetInvHolds, PTL

-----------------------------------------------------------------------------
(* Observations.                                                           *)

\* What a worker at `where` can have observed.
ObsAt(c, p, where, o) ==
  /\ where \in {"idle", "head", "reserve"} => o.deep = "none" /\ \A s \in Side : o.get[s] = "none"
  /\ where = "idle" => \A s \in Side : o.head[s] = "none"
  /\ where = "head" => \A s \in Side : o.head[s] \in HeadOutcomes(c) \cup {"none"}
  /\ where \in {"reserve", "hash"} => /\ \A s \in Side : o.head[s] \in HeadOutcomes(c)
                                      /\ NeedDeep(c, p, o)
  /\ where = "reserve" => c.MaxDeepBytes > 0
  /\ where = "hash" => o.deep = "granted"
  /\ where \in {"publish", "published", "released", "done"} => Complete(c, p, o)

ObsInv == \A k \in Keys : ObsAt(cfg, pair[k], pc[k], obs[k])

\* Past hw.Wait both HEAD requests have the outcome of a request, or none was
\* sent and none is expected.
LEMMA HeadsAreIn ==
  ASSUME TypeOK, NEW k \in Keys, HeadDone(k),
         \A s \in Side : obs[k].head[s] \in HeadOutcomes(cfg) \cup {"none"}
  PROVE  \A s \in Side : obs[k].head[s] \in HeadOutcomes(cfg)
<1>1. CASE cfg.Level < 2
  BY <1>1 DEF HeadOutcomes
<1>2. CASE cfg.Level >= 2
  BY <1>2 DEF HeadDone
<1> QED
  BY <1>1, <1>2, ConstantsTyped DEF TypeOK

\* No step of any worker takes a worker to a place its observation does not fit.
LEMMA ObsInvStep ==
  ASSUME TypeOK, SlotInv, BudgetInv, ObsInv, [Next \/ Returned]_vars
  PROVE  ObsInv'
<1>0. pc \in [Keys -> PC] /\ obs \in [Keys -> Observation]
  BY DEF TypeOK
\* A step that moves key k keeps the others, so k is what there is to show.
<1>a. ASSUME NEW k \in Keys, NEW x, NEW o,
             cfg' = cfg, pair' = pair,
             pc' = [pc EXCEPT ![k] = x], obs' = [obs EXCEPT ![k] = o],
             ObsAt(cfg, pair[k], x, o)
      PROVE  ObsInv'
  BY <1>0, <1>a DEF ObsInv
<1>b. ASSUME NEW k \in Keys, NEW x,
             cfg' = cfg, pair' = pair,
             pc' = [pc EXCEPT ![k] = x], obs' = obs,
             ObsAt(cfg, pair[k], x, obs[k])
      PROVE  ObsInv'
  BY <1>0, <1>b DEF ObsInv
<1>1. CASE Dispatch
  <2>1. /\ next \in Keys /\ pc' = [pc EXCEPT ![next] = "head"]
        /\ cfg' = cfg /\ pair' = pair /\ obs' = obs
    BY <1>1, ConstantsTyped DEF Dispatch, Goto, TypeOK, Keys
  <2>2. pc[next] = "idle"
    BY <2>1 DEF SlotInv, Keys
  <2>3. ObsAt(cfg, pair[next], "head", obs[next])
    BY <2>1, <2>2 DEF ObsInv, ObsAt
  <2> QED
    BY <1>b, <2>1, <2>3
<1>2. CASE Return \/ UNCHANGED vars
  BY <1>2 DEF Return, vars, ObsInv
<1>3. ASSUME NEW k \in Keys, NEW s \in Side, HeadSide(k, s)
      PROVE  ObsInv'
  <2>1. PICK h \in HeadOutcomes(cfg) : obs' = [obs EXCEPT ![k].head[s] = h]
    BY <1>3 DEF HeadSide
  <2> DEFINE o == [obs[k] EXCEPT !.head[s] = h]
  <2>2. /\ pc[k] = "head" /\ pc' = [pc EXCEPT ![k] = "head"]
        /\ cfg' = cfg /\ pair' = pair /\ obs' = [obs EXCEPT ![k] = o]
    BY <1>0, <1>3, <2>1 DEF HeadSide
  <2>3. obs[k] \in Observation
    BY <1>0
  <2>4. /\ o.deep = obs[k].deep /\ o.get = obs[k].get
        /\ \A t \in Side : o.head[t] = IF t = s THEN h ELSE obs[k].head[t]
    BY <2>3 DEF Observation
  <2>5. ObsAt(cfg, pair[k], "head", obs[k])
    BY <2>2 DEF ObsInv
  <2>6. ObsAt(cfg, pair[k], "head", o)
    BY <2>4, <2>5 DEF ObsAt
  <2> QED
    BY <1>a, <2>2, <2>6
<1>4. ASSUME NEW k \in Keys, NEW s \in Side, GetSide(k, s)
      PROVE  ObsInv'
  <2>1. PICK g \in {"ok", "err"} : obs' = [obs EXCEPT ![k].get[s] = g]
    BY <1>4 DEF GetSide
  <2> DEFINE o == [obs[k] EXCEPT !.get[s] = g]
  <2>2. /\ pc[k] = "hash" /\ pc' = [pc EXCEPT ![k] = "hash"]
        /\ cfg' = cfg /\ pair' = pair /\ obs' = [obs EXCEPT ![k] = o]
    BY <1>0, <1>4, <2>1 DEF GetSide
  <2>3. obs[k] \in Observation
    BY <1>0
  <2>4. o.deep = obs[k].deep /\ o.head = obs[k].head
    BY <2>3 DEF Observation
  <2>5. ObsAt(cfg, pair[k], "hash", obs[k])
    BY <2>2 DEF ObsInv
  <2>6. ObsAt(cfg, pair[k], "hash", o)
    <3>1. NeedDeep(cfg, pair[k], o)
      BY <2>4, <2>5, NeedDeepOfHead DEF ObsAt
    <3> QED
      BY <2>4, <2>5, <3>1 DEF ObsAt
  <2> QED
    BY <1>a, <2>2, <2>6
<1>5. ASSUME NEW k \in Keys, SkipDeep(k)
      PROVE  ObsInv'
  <2>1. /\ pc[k] = "head" /\ pc' = [pc EXCEPT ![k] = "publish"]
        /\ cfg' = cfg /\ pair' = pair /\ obs' = obs
        /\ ~NeedDeep(cfg, pair[k], obs[k])
    BY <1>5 DEF SkipDeep, Goto
  <2>2. ObsAt(cfg, pair[k], "head", obs[k])
    BY <2>1 DEF ObsInv
  <2>3. \A s \in Side : obs[k].head[s] \in HeadOutcomes(cfg)
    BY <1>5, <2>1, <2>2, HeadsAreIn DEF SkipDeep, ObsAt
  <2>4. ObsAt(cfg, pair[k], "publish", obs[k])
    BY <2>1, <2>2, <2>3 DEF ObsAt, Complete
  <2> QED
    BY <1>b, <2>1, <2>4
<1>6. ASSUME NEW k \in Keys, PeekBudget(k)
      PROVE  ObsInv'
  <2>1. /\ pc[k] = "head" /\ pc' = [pc EXCEPT ![k] = "reserve"]
        /\ cfg' = cfg /\ pair' = pair /\ obs' = obs
        /\ NeedDeep(cfg, pair[k], obs[k]) /\ deepBudget > 0
    BY <1>6 DEF PeekBudget, Goto
  <2>2. ObsAt(cfg, pair[k], "head", obs[k])
    BY <2>1 DEF ObsInv
  <2>3. \A s \in Side : obs[k].head[s] \in HeadOutcomes(cfg)
    BY <1>6, <2>1, <2>2, HeadsAreIn DEF PeekBudget, ObsAt
  <2>4. cfg.MaxDeepBytes > 0
    BY <2>1, ConstantsTyped DEF BudgetInv, TypeOK
  <2>5. ObsAt(cfg, pair[k], "reserve", obs[k])
    BY <2>1, <2>2, <2>3, <2>4 DEF ObsAt
  <2> QED
    BY <1>b, <2>1, <2>5
<1>7. ASSUME NEW k \in Keys, PeekUnlimited(k) \/ ReserveGranted(k)
      PROVE  ObsInv'
  <2> DEFINE o == [obs[k] EXCEPT !.deep = "granted"]
  <2>1. /\ pc' = [pc EXCEPT ![k] = "hash"] /\ cfg' = cfg /\ pair' = pair
        /\ obs' = [obs EXCEPT ![k] = o]
    BY <1>0, <1>7 DEF PeekUnlimited, ReserveGranted, Grant, Goto
  <2>2. o.deep = "granted" /\ o.head = obs[k].head
    BY <1>0 DEF Observation
  <2>3. \A s \in Side : obs[k].head[s] \in HeadOutcomes(cfg)
    BY <1>7, HeadsAreIn DEF ObsInv, ObsAt, PeekUnlimited, ReserveGranted
  <2>4. NeedDeep(cfg, pair[k], obs[k])
    BY <1>7 DEF ObsInv, ObsAt, PeekUnlimited, ReserveGranted
  <2>5. NeedDeep(cfg, pair[k], o)
    BY <2>2, <2>4, NeedDeepOfHead
  <2>6. ObsAt(cfg, pair[k], "hash", o)
    BY <2>2, <2>3, <2>5 DEF ObsAt
  <2> QED
    BY <1>a, <2>1, <2>6
<1>8. ASSUME NEW k \in Keys, ReserveDenied(k)
      PROVE  ObsInv'
  <2> DEFINE o == [obs[k] EXCEPT !.deep = "denied"]
  <2>1. /\ pc[k] = "reserve" /\ pc' = [pc EXCEPT ![k] = "publish"]
        /\ cfg' = cfg /\ pair' = pair /\ obs' = [obs EXCEPT ![k] = o]
    BY <1>0, <1>8 DEF ReserveDenied, Goto
  <2>2. o.deep = "denied" /\ o.head = obs[k].head /\ o.get = obs[k].get
    BY <1>0 DEF Observation
  <2>3. ObsAt(cfg, pair[k], "reserve", obs[k])
    BY <2>1 DEF ObsInv
  <2>4. NeedDeep(cfg, pair[k], o)
    BY <2>2, <2>3, NeedDeepOfHead DEF ObsAt
  <2>5. ObsAt(cfg, pair[k], "publish", o)
    BY <2>2, <2>3, <2>4 DEF ObsAt, Complete
  <2> QED
    BY <1>a, <2>1, <2>5
<1>9. ASSUME NEW k \in Keys, HashJoin(k)
      PROVE  ObsInv'
  <2>1. /\ pc[k] = "hash" /\ pc' = [pc EXCEPT ![k] = "publish"]
        /\ cfg' = cfg /\ pair' = pair /\ obs' = obs
        /\ \A s \in Side : obs[k].get[s] # "none"
    BY <1>9 DEF HashJoin, Goto
  <2>2. ObsAt(cfg, pair[k], "publish", obs[k])
    BY <2>1 DEF ObsInv, ObsAt, Complete
  <2> QED
    BY <1>b, <2>1, <2>2
<1>10. ASSUME NEW k \in Keys, Publish(k) \/ Release(k) \/ Exit(k)
       PROVE  ObsInv'
  <2>1. PICK x \in {"published", "released", "done"} :
           /\ pc' = [pc EXCEPT ![k] = x]
           /\ cfg' = cfg /\ pair' = pair /\ obs' = obs
    BY <1>10 DEF Publish, Release, Exit, Goto
  <2>2. pc[k] \in {"publish", "published", "released"}
    BY <1>10 DEF Publish, Release, Exit
  <2>3. ObsAt(cfg, pair[k], x, obs[k])
    BY <2>2 DEF ObsInv, ObsAt
  <2> QED
    BY <1>b, <2>1, <2>3
<1> QED
  BY <1>1, <1>2, <1>3, <1>4, <1>5, <1>6, <1>7, <1>8, <1>9, <1>10, StepKinds DEF Body

\* Where a worker is tells what it has observed, in every reachable state.
LEMMA ObsInvHolds == Spec => []ObsInv
<1>1. Init => ObsInv
  BY DEF Init, ObsInv, ObsAt, NothingRequested
<1> QED
  BY <1>1, ObsInvStep, TypeCorrect, SlotInvHolds, BudgetInvHolds, PTL DEF Spec

\* A worker judges on a complete observation, however the requests of both
\* sides, the budget and the other workers interleave.
THEOREM ObservationsAreComplete == Spec => []ObservationsComplete
<1>1. ObsInv => ObservationsComplete
  BY DEF ObsInv, ObsAt, ObservationsComplete, Judged
<1> QED
  BY <1>1, ObsInvHolds, PTL

-----------------------------------------------------------------------------
(* What a verdict is worth.                                                *)

\* "Never a silent PASS": for every object, every outcome of every request and
\* every schedule, what is reported as matching is the same on both sides.
THEOREM PassIsAlwaysEarned == Spec => []PassIsEarned
<1>1. TypeOK /\ ObsInv => PassIsEarned
  <2> SUFFICES ASSUME TypeOK, ObsInv, NEW k \in Keys, Verdict(k) = "PASS"
               PROVE  Equivalent(cfg, pair[k])
    BY DEF PassIsEarned, WithVerdict
  <2>1. Judged(k) /\ StatusOf(cfg, pair[k], obs[k]) = "PASS"
    BY DEF Verdict
  <2>2. Complete(cfg, pair[k], obs[k])
    BY <2>1 DEF ObsInv, ObsAt, Judged
  <2>3. cfg \in Configs /\ pair[k] \in Pairs /\ obs[k] \in Observation
    BY DEF TypeOK
  <2> QED
    BY <2>1, <2>2, <2>3, PassMeansEquivalent
<1> QED
  BY <1>1, TypeCorrect, ObsInvHolds, PTL

\* Under a sound configuration no faithful copy is ever reported as FAIL.
THEOREM FailIsAlwaysEarned == Spec => []FailIsEarned
<1>1. TypeOK /\ ObsInv => FailIsEarned
  <2> SUFFICES ASSUME TypeOK, ObsInv, SoundConfig(cfg), NEW k \in Keys, Verdict(k) = "FAIL"
               PROVE  ~Equivalent(cfg, pair[k])
    BY DEF FailIsEarned, WithVerdict
  <2>1. Judged(k) /\ StatusOf(cfg, pair[k], obs[k]) = "FAIL"
    BY DEF Verdict
  <2>2. Complete(cfg, pair[k], obs[k])
    BY <2>1 DEF ObsInv, ObsAt, Judged
  <2>3. cfg \in Configs /\ pair[k] \in Pairs /\ obs[k] \in Observation
    BY DEF TypeOK
  <2> QED
    BY <2>1, <2>2, <2>3, SoundVerdict
<1> QED
  BY <1>1, TypeCorrect, ObsInvHolds, PTL

-----------------------------------------------------------------------------
(* The bytes of the downloads.                                             *)

\* The keys whose download is running, and the bytes that were granted for
\* them, each numbered, which the report does not count yet.
Hashing == {k \in Keys : pc[k] = "hash"}
Owed(k) == {k} \X (1 .. Cost(k))
Outstanding == UNION {Owed(k) : k \in Hashing}

NoneFailed == \A k \in Keys : \A s \in Side : obs[k].get[s] # "err"

\* What was granted is reported, still being read, or lost to a failure.
LedgerInv ==
  /\ IsFiniteSet(Outstanding)
  /\ tally.deepBytes + Cardinality(Outstanding) <= spent
  /\ NoneFailed => tally.deepBytes + Cardinality(Outstanding) = spent

\* A download that starts or ends moves exactly its own bytes.
LEMMA OwedCount ==
  ASSUME TypeOK, NEW k \in Keys
  PROVE  IsFiniteSet(Owed(k)) /\ Cardinality(Owed(k)) = Cost(k)
<1>1. Cost(k) \in Nat
  BY CostTyped
<1>2. IsFiniteSet(1 .. Cost(k)) /\ Cardinality(1 .. Cost(k)) = Cost(k)
  BY <1>1, FS_Interval
<1>3. IsFiniteSet({k}) /\ Cardinality({k}) = 1
  BY FS_Singleton
<1> QED
  BY <1>1, <1>2, <1>3, FS_Product DEF Owed

\* What each worker's step does to the bytes: a grant, the end of a download,
\* or nothing.
LEMMA BytesStep ==
  ASSUME TypeOK, NEW k \in Keys, Worker(k)
  PROVE  \/ /\ pc[k] # "hash" /\ Hashing' = Hashing \cup {k}
            /\ spent' = spent + Cost(k) /\ tally' = tally
            /\ \A j \in Keys : obs'[j].get = obs[j].get
         \/ HashJoin(k)
         \/ /\ Hashing' = Hashing
            /\ spent' = spent /\ tally'.deepBytes = tally.deepBytes
            /\ NoneFailed' => NoneFailed
<1> USE DEF TypeOK
<1>1. ASSUME NEW s \in Side, HeadSide(k, s)
      PROVE  /\ UNCHANGED <<pc, spent, tally>>
             /\ \A j \in Keys : obs'[j].get = obs[j].get
  BY <1>1 DEF HeadSide, Observation, budget, counters
<1>2. ASSUME NEW s \in Side, GetSide(k, s)
      PROVE  UNCHANGED <<pc, spent, tally>> /\ (NoneFailed' => NoneFailed)
  <2>1. PICK g \in {"ok", "err"} : obs' = [obs EXCEPT ![k].get[s] = g]
    BY <1>2 DEF GetSide
  <2>2. \A j \in Keys, t \in Side : j # k \/ t # s => obs'[j].get[t] = obs[j].get[t]
    BY <2>1 DEF Observation
  <2>3. obs[k].get[s] = "none"
    BY <1>2 DEF GetSide
  <2> QED
    BY <1>2, <2>2, <2>3 DEF GetSide, NoneFailed, budget, counters
<1>3. CASE SkipDeep(k) \/ PeekBudget(k) \/ Release(k) \/ Exit(k)
  BY <1>3 DEF SkipDeep, PeekBudget, Release, Exit, Goto, Hashing, NoneFailed, budget, counters
<1>4. CASE PeekUnlimited(k) \/ ReserveGranted(k)
  <2>1. /\ pc[k] # "hash" /\ pc' = [pc EXCEPT ![k] = "hash"]
        /\ obs' = [obs EXCEPT ![k].deep = "granted"]
        /\ spent' = spent + Cost(k) /\ tally' = tally
    BY <1>4 DEF PeekUnlimited, ReserveGranted, Grant, Goto, counters
  <2>2. Hashing' = Hashing \cup {k}
    BY <2>1 DEF Hashing
  <2>3. \A j \in Keys : obs'[j].get = obs[j].get
    BY <2>1 DEF Observation
  <2> QED
    BY <2>1, <2>2, <2>3
<1>5. CASE ReserveDenied(k)
  <2>1. /\ pc[k] # "hash" /\ pc' = [pc EXCEPT ![k] = "publish"]
        /\ obs' = [obs EXCEPT ![k].deep = "denied"]
        /\ UNCHANGED <<spent, tally>>
    BY <1>5 DEF ReserveDenied, Goto, budget, counters
  <2>2. Hashing' = Hashing
    BY <2>1 DEF Hashing
  <2>3. \A j \in Keys : obs'[j].get = obs[j].get
    BY <2>1 DEF Observation
  <2> QED
    BY <2>1, <2>2, <2>3 DEF NoneFailed
<1>6. CASE Publish(k)
  <2>1. /\ pc[k] # "hash" /\ pc' = [pc EXCEPT ![k] = "published"]
        /\ UNCHANGED <<spent, obs>> /\ tally'.deepBytes = tally.deepBytes
    BY <1>6 DEF Publish, Goto, budget
  <2>2. Hashing' = Hashing
    BY <2>1 DEF Hashing
  <2> QED
    BY <2>1, <2>2 DEF NoneFailed
<1>7. ASSUME NEW s \in Side, HeadSide(k, s) \/ GetSide(k, s)
      PROVE  /\ Hashing' = Hashing
             /\ spent' = spent /\ tally'.deepBytes = tally.deepBytes
             /\ NoneFailed' => NoneFailed
  <2>1. UNCHANGED <<pc, spent, tally>> /\ (NoneFailed' => NoneFailed)
    BY <1>1, <1>2, <1>7 DEF NoneFailed
  <2> QED
    BY <2>1 DEF Hashing
<1> QED
  BY <1>3, <1>4, <1>5, <1>6, <1>7 DEF Worker

\* No step loses sight of a granted byte.
LEMMA LedgerInvStep ==
  ASSUME TypeOK, TypeOK', SlotInv, ObsInv, LedgerInv, [Next \/ Returned]_vars
  PROVE  LedgerInv'
<1>0. /\ spent \in Nat /\ tally.deepBytes \in Nat
      /\ IsFiniteSet(Outstanding) /\ Cardinality(Outstanding) \in Nat
  BY FS_CardinalityType DEF TypeOK, LedgerInv
<1>1. pair' = pair /\ \A k \in Keys : Cost(k)' = Cost(k) /\ Owed(k)' = Owed(k)
  BY DEF Next, Returned, vars, Dispatch, Return, Worker, HeadSide, GetSide, SkipDeep,
     PeekBudget, PeekUnlimited, ReserveGranted, ReserveDenied, HashJoin, Publish, Release,
     Exit, Cost, Owed
<1>2. Outstanding' = UNION {Owed(k) : k \in Hashing'}
  BY <1>1 DEF Outstanding, Hashing
<1>3. ASSUME Hashing' = Hashing, spent' = spent, tally'.deepBytes = tally.deepBytes,
             NoneFailed' => NoneFailed
      PROVE  LedgerInv'
  BY <1>2, <1>3 DEF LedgerInv, Outstanding
<1>4. ASSUME NEW k \in Keys,
             pc[k] # "hash", Hashing' = Hashing \cup {k},
             spent' = spent + Cost(k), tally' = tally,
             \A j \in Keys : obs'[j].get = obs[j].get
      PROVE  LedgerInv'
  <2>1. Outstanding' = Outstanding \cup Owed(k)
    BY <1>2, <1>4 DEF Outstanding
  <2>2. Outstanding \cap Owed(k) = {}
    BY <1>4 DEF Outstanding, Owed, Hashing
  <2>3. /\ IsFiniteSet(Outstanding')
        /\ Cardinality(Outstanding') = Cardinality(Outstanding) + Cost(k)
    <3>1. IsFiniteSet(Owed(k)) /\ Cardinality(Owed(k)) = Cost(k)
      BY OwedCount
    <3>2. /\ IsFiniteSet(Outstanding \cup Owed(k))
          /\ Cardinality(Outstanding \cup Owed(k)) =
               Cardinality(Outstanding) + Cardinality(Owed(k))
                 - Cardinality(Outstanding \cap Owed(k))
      BY <1>0, <3>1, FS_Union, Zenon
    <3>3. Cardinality(Outstanding \cap Owed(k)) = 0 /\ Cost(k) \in Nat
      BY <2>2, FS_EmptySet, CostTyped
    <3> QED
      BY <1>0, <2>1, <3>1, <3>2, <3>3
  <2>4. NoneFailed' => NoneFailed
    BY <1>4 DEF NoneFailed
  <2> QED
    BY <1>0, <1>4, <2>3, <2>4, CostTyped DEF LedgerInv
<1>5. ASSUME NEW k \in Keys, HashJoin(k)
      PROVE  LedgerInv'
  <2>1. /\ pc[k] = "hash" /\ pc' = [pc EXCEPT ![k] = "publish"]
        /\ UNCHANGED <<obs, spent>>
    BY <1>5 DEF HashJoin, Goto, budget
  <2>2. PICK ns \in BytesRead(k, "source"), nt \in BytesRead(k, "target") :
          tally'.deepBytes = tally.deepBytes + ns + nt
    BY <1>5 DEF HashJoin, TypeOK
  <2> DEFINE size == pair[k]["source"].size
  <2>3. size \in Nat /\ pair[k]["target"].size = size /\ Cost(k) = 2 * size
    BY <2>1, ConstantsTyped DEF ObsInv, ObsAt, NeedDeep, SameSize, Cost, TypeOK
  <2> HIDE DEF size
  <2>4. /\ ns \in Nat /\ nt \in Nat /\ ns + nt <= Cost(k)
        /\ NoneFailed => ns + nt = Cost(k)
    <3>1. \A s \in Side : BytesRead(k, s) = IF obs[k].get[s] = "ok" THEN {size} ELSE 0 .. size
      BY <2>3 DEF BytesRead, Side, size
    <3>2. \A s \in Side : NoneFailed => obs[k].get[s] = "ok"
      BY <1>5 DEF HashJoin, NoneFailed, TypeOK, Observation
    <3> QED
      BY <2>2, <2>3, <3>1, <3>2 DEF Side
  <2>5. Outstanding' = Outstanding \ Owed(k) /\ Owed(k) \subseteq Outstanding
    <3>1. k \in Hashing /\ Hashing' = Hashing \ {k}
      BY <2>1 DEF Hashing, TypeOK
    <3>2. \A j \in Keys : j # k => Owed(j) \cap Owed(k) = {}
      BY DEF Owed
    <3> QED
      BY <1>2, <3>1, <3>2 DEF Outstanding, Hashing
  <2>6. /\ IsFiniteSet(Outstanding')
        /\ Cardinality(Outstanding') = Cardinality(Outstanding) - Cost(k)
    <3>1. Outstanding \cap Owed(k) = Owed(k)
      BY <2>5
    <3>2. Cardinality(Owed(k)) = Cost(k)
      BY OwedCount
    <3>3. /\ IsFiniteSet(Outstanding \ Owed(k))
          /\ Cardinality(Outstanding \ Owed(k)) =
               Cardinality(Outstanding) - Cardinality(Outstanding \cap Owed(k))
      BY <1>0, FS_Difference, Zenon
    <3> QED
      BY <2>5, <3>1, <3>2, <3>3
  <2>7. NoneFailed' => NoneFailed
    BY <2>1 DEF NoneFailed
  <2>8. Cost(k) \in Nat
    BY CostTyped
  <2> QED
    BY <1>0, <2>1, <2>2, <2>4, <2>6, <2>7, <2>8 DEF LedgerInv
<1>6. CASE Dispatch
  <2>1. /\ pc' = [pc EXCEPT ![next] = "head"] /\ next \in Keys
        /\ UNCHANGED <<obs, spent, tally>>
    BY <1>6, ConstantsTyped DEF Dispatch, Goto, TypeOK, Keys, budget, counters
  <2>2. pc[next] = "idle"
    BY <2>1 DEF SlotInv, Keys
  <2>3. Hashing' = Hashing /\ (NoneFailed' => NoneFailed)
    BY <2>1, <2>2 DEF Hashing, NoneFailed, TypeOK
  <2> QED
    BY <1>3, <2>1, <2>3
<1>7. CASE Return \/ UNCHANGED vars
  <2>1. UNCHANGED <<pc, obs, spent, tally>>
    BY <1>7 DEF Return, vars, budget, counters
  <2> QED
    BY <1>3, <2>1 DEF Hashing, NoneFailed
<1>8. ASSUME NEW k \in Keys, Worker(k)
      PROVE  LedgerInv'
  BY <1>3, <1>4, <1>5, <1>8, BytesStep
<1> QED
  BY <1>6, <1>7, <1>8 DEF Next, Returned

\* The bytes the report counts never exceed those granted, and once no
\* download is running they fall short of them only by what failed downloads
\* left unread.
THEOREM DownloadsAreAccounted == Spec => []DeepBytesAccounted
<1>1. Init => LedgerInv
  <2> SUFFICES ASSUME Init PROVE LedgerInv
    OBVIOUS
  <2>1. Outstanding = {}
    BY DEF Init, Outstanding, Hashing
  <2>2. spent = 0 /\ tally.deepBytes = 0
    BY DEF Init
  <2> QED
    BY <2>1, <2>2, FS_EmptySet DEF LedgerInv
<1>2. TypeOK /\ LedgerInv => DeepBytesAccounted
  <2> SUFFICES ASSUME TypeOK, LedgerInv PROVE DeepBytesAccounted
    OBVIOUS
  <2>1. Cardinality(Outstanding) \in Nat /\ tally.deepBytes \in Nat /\ spent \in Nat
    BY FS_CardinalityType DEF LedgerInv, TypeOK
  <2>2. (\A k \in Keys : pc[k] # "hash") => Cardinality(Outstanding) = 0
    BY FS_EmptySet DEF Outstanding, Hashing
  <2> QED
    BY <2>1, <2>2 DEF LedgerInv, DeepBytesAccounted, NoneFailed
<1> QED
  BY <1>1, <1>2, LedgerInvStep, TypeCorrect, SlotInvHolds, ObsInvHolds, PTL DEF Spec

-----------------------------------------------------------------------------
(* The counters.                                                           *)

\* Apart from Publish no step judges a key, and no step at all changes what a
\* judged key was judged on.
LEMMA JudgedStays ==
  ASSUME TypeOK, SlotInv, [Next \/ Returned]_vars
  PROVE  /\ UNCHANGED <<cfg, pair>>
         /\ \A j \in Keys : Judged(j) => Judged(j)' /\ obs'[j] = obs[j]
         /\ (\A k \in Keys : ~Publish(k)) => \A j \in Keys : Judged(j)' <=> Judged(j)
<1>1. CASE Dispatch
  <2>1. /\ next \in Keys /\ pc' = [pc EXCEPT ![next] = "head"] /\ UNCHANGED <<cfg, pair, obs>>
    BY <1>1, ConstantsTyped DEF Dispatch, Goto, TypeOK, Keys
  <2>2. pc[next] = "idle"
    BY <2>1 DEF SlotInv, Keys
  <2> QED
    BY <2>1, <2>2 DEF Judged, TypeOK
<1>2. CASE Return \/ UNCHANGED vars
  BY <1>2 DEF Return, vars, Judged
<1>3. ASSUME NEW k \in Keys, Release(k) \/ Exit(k)
      PROVE  /\ UNCHANGED <<cfg, pair, obs>>
             /\ \A j \in Keys : Judged(j)' <=> Judged(j)
  BY <1>3 DEF Release, Exit, Goto, Judged, TypeOK
<1>4. ASSUME NEW k \in Keys, Body(k)
      PROVE  /\ UNCHANGED <<cfg, pair>>
             /\ \A j \in Keys : Judged(j) => Judged(j)' /\ obs'[j] = obs[j]
             /\ ~Publish(k) => \A j \in Keys : Judged(j)' <=> Judged(j)
  <2>1. pc[k] \in Working /\ UNCHANGED <<cfg, pair>>
    BY <1>4, BodyStep
  <2>2. PICK x \in Working \cup {"published"} : pc' = [pc EXCEPT ![k] = x]
    BY <1>4, BodyStep
  <2>3. \A j \in Keys : j # k => obs'[j] = obs[j]
    BY <1>4 DEF Body, HeadSide, GetSide, SkipDeep, PeekBudget, PeekUnlimited, ReserveGranted,
       ReserveDenied, Grant, HashJoin, Publish, TypeOK
  <2>4. ~Publish(k) => pc'[k] \in Working
    BY <1>4, <2>1 DEF Body, HeadSide, GetSide, SkipDeep, PeekBudget, PeekUnlimited,
       ReserveGranted, ReserveDenied, Grant, HashJoin, Goto, TypeOK, Working
  <2> QED
    BY <2>1, <2>2, <2>3, <2>4 DEF Judged, TypeOK, Working
<1> QED
  BY <1>1, <1>2, <1>3, <1>4, StepKinds DEF Body

\* Only Publish touches the counters a verdict goes into.
LEMMA CountersStay ==
  ASSUME [Next \/ Returned]_vars, \A k \in Keys : ~Publish(k)
  PROVE  /\ UNCHANGED <<reasonCount, results>>
         /\ tally' = tally \/ \E k \in Keys : HashJoin(k)
BY DEF Next, Returned, Worker, vars, counters, Dispatch, Return, HeadSide, GetSide, SkipDeep,
   PeekBudget, PeekUnlimited, ReserveGranted, ReserveDenied, HashJoin, Release, Exit

WithReason(r) == {k \in Keys : Judged(k) /\ Reasons(cfg, pair[k], obs[k])[r] > 0}

ListedKeys == {k \in Keys : Judged(k) /\ Listed(cfg, pair[k], obs[k])}

\* The downloads of a key are counted as they are joined, and no other step
\* changes what is counted.
LEMMA DownloadedStep ==
  ASSUME TypeOK, SlotInv, ObsInv, tally.deepVerified = Cardinality(Downloaded),
         [Next \/ Returned]_vars
  PROVE  tally'.deepVerified = Cardinality(Downloaded')
<1>0. pc \in [Keys -> PC] /\ obs \in [Keys -> Observation]
  BY DEF TypeOK
<1>1. CASE Dispatch
  <2>1. /\ next \in Keys /\ pc' = [pc EXCEPT ![next] = "head"] /\ UNCHANGED <<tally, obs>>
    BY <1>1, ConstantsTyped DEF Dispatch, Goto, TypeOK, Keys, counters
  <2>2. pc[next] = "idle"
    BY <2>1 DEF SlotInv, Keys
  <2>3. Downloaded' = Downloaded
    BY <1>0, <2>1, <2>2 DEF Downloaded
  <2> QED
    BY <2>1, <2>3
<1>2. CASE Return \/ UNCHANGED vars
  BY <1>2 DEF Return, vars, counters, Downloaded
<1>3. ASSUME NEW k \in Keys, HashJoin(k)
      PROVE  tally'.deepVerified = Cardinality(Downloaded')
  <2>1. /\ pc[k] = "hash" /\ pc' = [pc EXCEPT ![k] = "publish"] /\ obs' = obs
        /\ tally'.deepVerified = tally.deepVerified + One(Hashed(obs[k]))
    BY <1>3 DEF HashJoin, Goto, TypeOK
  <2>2. /\ Downloaded \in SUBSET Keys /\ k \notin Downloaded
        /\ Downloaded' = IF Hashed(obs[k]) THEN Downloaded \cup {k} ELSE Downloaded
    BY <1>0, <2>1 DEF Downloaded
  <2>3. CASE Hashed(obs[k])
    <3>1. Cardinality(Downloaded') = Cardinality(Downloaded) + 1
      BY <2>2, <2>3, CountKeys
    <3> QED
      BY <2>1, <2>3, <3>1 DEF One
  <2>4. CASE ~Hashed(obs[k])
    <3>1. Downloaded' = Downloaded /\ Cardinality(Downloaded) \in Nat
      BY <2>2, <2>4, CountKeys
    <3> QED
      BY <2>1, <2>4, <3>1 DEF One
  <2> QED
    BY <2>3, <2>4
<1>4. ASSUME NEW k \in Keys, Body(k) \/ Release(k) \/ Exit(k), ~HashJoin(k)
      PROVE  tally'.deepVerified = Cardinality(Downloaded')
  <2>1. tally'.deepVerified = tally.deepVerified
    BY <1>4 DEF Body, HeadSide, GetSide, SkipDeep, PeekBudget, PeekUnlimited, ReserveGranted,
       ReserveDenied, Publish, Release, Exit, counters, TypeOK
  <2>2. \A j \in Keys : j # k => pc'[j] = pc[j] /\ obs'[j] = obs[j]
    BY <1>0, <1>4 DEF Body, HeadSide, GetSide, SkipDeep, PeekBudget, PeekUnlimited,
       ReserveGranted, ReserveDenied, Grant, Publish, Release, Exit, Goto
  <2>3. k \in Downloaded' <=> k \in Downloaded
    <3>1. ASSUME NEW s \in Side, HeadSide(k, s)
          PROVE  k \in Downloaded' <=> k \in Downloaded
      <4>1. pc' = pc /\ obs'[k].deep = obs[k].deep /\ obs'[k].get = obs[k].get
        BY <1>0, <3>1 DEF HeadSide, Observation
      <4> QED
        BY <4>1 DEF Downloaded, Hashed
    <3>2. ASSUME NEW s \in Side, GetSide(k, s)
          PROVE  k \in Downloaded' <=> k \in Downloaded
      BY <3>2 DEF GetSide, Downloaded
    <3>3. CASE SkipDeep(k) \/ PeekBudget(k) \/ Publish(k) \/ Release(k) \/ Exit(k)
      BY <1>0, <3>3 DEF SkipDeep, PeekBudget, Publish, Release, Exit, Goto, Downloaded
    <3>4. CASE PeekUnlimited(k) \/ ReserveGranted(k)
      <4>1. pc[k] \in {"head", "reserve"} /\ pc'[k] = "hash"
        BY <1>0, <3>4 DEF PeekUnlimited, ReserveGranted, Grant, Goto
      <4>2. ~Hashed(obs[k])
        BY <4>1 DEF ObsInv, ObsAt, NothingRequested, Hashed
      <4> QED
        BY <4>1, <4>2 DEF Downloaded
    <3>5. CASE ReserveDenied(k)
      <4>1. pc[k] = "reserve" /\ obs'[k].deep = "denied"
        BY <1>0, <3>5 DEF ReserveDenied, Observation
      <4>2. ~Hashed(obs[k])
        BY <4>1 DEF ObsInv, ObsAt, NothingRequested, Hashed
      <4> QED
        BY <4>1, <4>2 DEF Downloaded, Hashed
    <3> QED
      BY <1>4, <3>1, <3>2, <3>3, <3>4, <3>5 DEF Body
  <2>4. Downloaded' = Downloaded
    <3>1. \A j \in Keys : j \in Downloaded' <=> j \in Downloaded
      BY <2>2, <2>3 DEF Downloaded
    <3> QED
      BY <3>1 DEF Downloaded
  <2> QED
    BY <2>1, <2>4
<1> QED
  BY <1>1, <1>2, <1>3, <1>4, StepKinds

\* Publish adds a key to the counters and the list as it becomes judged, and no
\* other step changes what either side of TalliesAddUp counts.
LEMMA TalliesStep ==
  ASSUME TypeOK, SlotInv, ObsInv, TalliesAddUp, [Next \/ Returned]_vars
  PROVE  TalliesAddUp'
<1>d. tally'.deepVerified = Cardinality(Downloaded')
  BY DownloadedStep DEF TalliesAddUp
<1>0. /\ UNCHANGED <<cfg, pair>>
      /\ \A j \in Keys : Judged(j) => Judged(j)' /\ obs'[j] = obs[j]
  BY JudgedStays
<1>1. CASE \A k \in Keys : ~Publish(k)
  <2>1. \A j \in Keys : Judged(j)' <=> Judged(j)
    BY <1>1, JudgedStays
  <2>2. /\ WithVerdict("PASS")' = WithVerdict("PASS")
        /\ WithVerdict("ERROR")' = WithVerdict("ERROR")
    BY <1>0, <2>1 DEF WithVerdict, Verdict
  <2>3. \A r \in Reason : WithReason(r)' = WithReason(r)
    BY <1>0, <2>1 DEF WithReason
  <2>4. ListedKeys' = ListedKeys
    BY <1>0, <2>1 DEF ListedKeys
  <2>5. UNCHANGED <<reasonCount, results>> /\ tally'.matched = tally.matched /\ tally'.errors = tally.errors
    BY <1>1, CountersStay DEF HashJoin, TypeOK
  <2> QED
    BY <1>d, <2>2, <2>3, <2>4, <2>5 DEF TalliesAddUp, WithReason, ListedKeys
<1>2. ASSUME NEW k \in Keys, Publish(k)
      PROVE  TalliesAddUp'
  <2> DEFINE status == StatusOf(cfg, pair[k], obs[k])
             R == Reasons(cfg, pair[k], obs[k])
  <2>1. /\ pc[k] = "publish" /\ pc' = [pc EXCEPT ![k] = "published"] /\ obs' = obs
        /\ tally' = [tally EXCEPT !.matched = @ + One(status = "PASS"),
                                  !.errors  = @ + One(status = "ERROR")]
        /\ reasonCount' = [r \in Reason |-> reasonCount[r] + R[r]]
        /\ results' = IF Listed(cfg, pair[k], obs[k]) THEN results \cup {k} ELSE results
    BY <1>2 DEF Publish, Goto
  <2>2. /\ ~Judged(k) /\ Judged(k)'
        /\ \A j \in Keys : j # k => (Judged(j)' <=> Judged(j))
    BY <2>1 DEF Judged, TypeOK
  <2>3. /\ tally'.matched = tally.matched + One(status = "PASS")
        /\ tally'.errors = tally.errors + One(status = "ERROR")
    BY <2>1 DEF TypeOK
  <2>4. \A v \in FinalStatus :
          /\ WithVerdict(v) \in SUBSET Keys /\ k \notin WithVerdict(v)
          /\ WithVerdict(v)' = IF status = v THEN WithVerdict(v) \cup {k} ELSE WithVerdict(v)
    BY <1>0, <2>1, <2>2 DEF WithVerdict, Verdict, FinalStatus
  <2>5. \A v \in FinalStatus :
          Cardinality(WithVerdict(v)') = Cardinality(WithVerdict(v)) + One(status = v)
    <3> SUFFICES ASSUME NEW v \in FinalStatus
                 PROVE  Cardinality(WithVerdict(v)') = Cardinality(WithVerdict(v)) + One(status = v)
      OBVIOUS
    <3>1. CASE status = v
      <4>1. One(status = v) = 1
        BY <3>1 DEF One
      <4> QED
        BY <2>4, <3>1, <4>1, CountKeys
    <3>2. CASE status # v
      <4>1. One(status = v) = 0
        BY <3>2 DEF One
      <4>2. Cardinality(WithVerdict(v)) \in Nat
        BY <2>4, CountKeys
      <4>3. WithVerdict(v)' = WithVerdict(v)
        BY <2>4, <3>2
      <4> QED
        BY <4>1, <4>2, <4>3
    <3> QED
      BY <3>1, <3>2
  <2>6. ASSUME NEW r \in Reason
        PROVE  Cardinality(WithReason(r)') = Cardinality(WithReason(r)) + One(R[r] > 0)
    <3>1. /\ WithReason(r) \in SUBSET Keys /\ k \notin WithReason(r)
          /\ WithReason(r)' = IF R[r] > 0 THEN WithReason(r) \cup {k} ELSE WithReason(r)
      BY <1>0, <2>1, <2>2 DEF WithReason
    <3>2. CASE R[r] > 0
      <4>1. One(R[r] > 0) = 1
        BY <3>2 DEF One
      <4> QED
        BY <3>1, <3>2, <4>1, CountKeys
    <3>3. CASE ~(R[r] > 0)
      <4>1. One(R[r] > 0) = 0
        BY <3>3 DEF One
      <4>2. Cardinality(WithReason(r)) \in Nat
        BY <3>1, CountKeys
      <4>3. WithReason(r)' = WithReason(r)
        BY <3>1, <3>3
      <4> QED
        BY <4>1, <4>2, <4>3
    <3> QED
      BY <3>2, <3>3
  <2>7. ListedKeys' = IF Listed(cfg, pair[k], obs[k]) THEN ListedKeys \cup {k} ELSE ListedKeys
    BY <1>0, <2>1, <2>2 DEF ListedKeys
  <2>8. \A r \in Reason \ {"etag-inconclusive"} : R[r] = One(R[r] > 0)
    BY ReasonsOnce
  <2>9. \A r \in Reason \ {"etag-inconclusive"} :
          reasonCount'[r] = Cardinality(WithReason(r)')
    BY <2>1, <2>6, <2>8 DEF TalliesAddUp, WithReason
  <2>10. /\ tally'.matched = Cardinality(WithVerdict("PASS")')
         /\ tally'.errors = Cardinality(WithVerdict("ERROR")')
    BY <2>3, <2>5 DEF TalliesAddUp, FinalStatus
  <2>11. results' = ListedKeys'
    BY <2>1, <2>7 DEF TalliesAddUp, ListedKeys
  <2> QED
    BY <1>d, <2>9, <2>10, <2>11 DEF TalliesAddUp, WithReason, ListedKeys
<1> QED
  BY <1>1, <1>2

\* The counters the bucket's checks are computed from lose nothing and count
\* nothing twice, for any number of workers publishing in any order.
THEOREM TalliesAlwaysAddUp == Spec => []TalliesAddUp
<1>1. Init => TalliesAddUp
  <2> SUFFICES ASSUME Init PROVE TalliesAddUp
    OBVIOUS
  <2>1. \A k \in Keys : ~Judged(k)
    BY DEF Init, Judged
  <2>2. /\ WithVerdict("PASS") = {} /\ WithVerdict("ERROR") = {}
        /\ \A r \in Reason : WithReason(r) = {}
        /\ ListedKeys = {} /\ Downloaded = {}
    BY <2>1 DEF WithVerdict, Verdict, WithReason, ListedKeys, Downloaded, Hashed, Init, NothingRequested
  <2> QED
    BY <2>2, FS_EmptySet DEF Init, TalliesAddUp, WithReason, ListedKeys
<1> QED
  BY <1>1, TalliesStep, TypeCorrect, SlotInvHolds, ObsInvHolds, PTL DEF Spec

-----------------------------------------------------------------------------
(* The refinement.                                                         *)

\* The audit speaks of the same objects: instantiated with the same constants,
\* its operators are those of this module.
LEMMA AuditSpeaksOfTheSame ==
  ASSUME NEW c, NEW p
  PROVE  /\ Audit!Equivalent(c, p) <=> Equivalent(c, p)
         /\ Audit!Incomparable(p) <=> Incomparable(p)
         /\ Audit!SameSize(p) <=> SameSize(p)
         /\ Audit!SameAttributes(c, p) <=> SameAttributes(c, p)
         /\ Audit!FinalStatus = FinalStatus
<1>1. Audit!SameAttributes(c, p) <=> SameAttributes(c, p)
  BY DEF Audit!SameAttributes, SameAttributes, Audit!Metadata, Metadata, Audit!Restrict, Restrict
<1> QED
  BY <1>1 DEF Audit!Equivalent, Equivalent, Audit!Incomparable, Incomparable, Audit!SameSize, SameSize,
     Audit!SameContent, SameContent, Audit!Encrypted, Encrypted, Audit!Side, Side,
     Audit!FinalStatus, FinalStatus

\* Returning means that every goroutine has ended, hence published.
LEMMA ReturnJudgesAll ==
  ASSUME TypeOK, SlotInv, Return
  PROVE  \A k \in Keys : Judged(k)
<1>1. Unfinished \in SUBSET Keys
  BY DEF Unfinished
<1>2. Unfinished = {}
  BY <1>1, CountKeys DEF Return, SlotInv
<1>3. \A k \in Keys : pc[k] # "idle"
  BY ConstantsTyped DEF Return, SlotInv, TypeOK, Keys
<1> QED
  BY <1>2, <1>3 DEF Unfinished, Judged

\* The pool of workers implements the audit: under sound configurations every
\* key gets one true and final verdict, and the comparison ends after the last.
THEOREM PoolImplementsAudit ==
  ASSUME \A c \in Configs : SoundConfig(c)
  PROVE  Spec => AuditContract
<1> DEFINE V == [k \in Keys |-> Verdict(k)]
<1>1. Init => Audit!Init
  <2> SUFFICES ASSUME Init PROVE Audit!Init
    OBVIOUS
  <2>1. \A k \in Keys : Verdict(k) = "open"
    BY DEF Init, Verdict, Judged
  <2> QED
    BY <2>1 DEF Init, Audit!Init, Audit!Keys, Keys
<1>2. TypeOK /\ SlotInv /\ ObsInv /\ ObsInv' /\ [Next \/ Returned]_vars => [Audit!Next]_(Audit!vars)
  <2> SUFFICES ASSUME TypeOK, SlotInv, ObsInv, ObsInv', [Next \/ Returned]_vars
               PROVE  Audit!Next \/ UNCHANGED Audit!vars
    OBVIOUS
  <2>0. /\ UNCHANGED <<cfg, pair>>
        /\ \A j \in Keys : Judged(j) => Judged(j)' /\ obs'[j] = obs[j]
    BY JudgedStays
  <2>1. ASSUME NEW k \in Keys, Publish(k)
        PROVE  Audit!Judge(k)
    <3>1. /\ pc[k] = "publish" /\ pc' = [pc EXCEPT ![k] = "published"] /\ obs' = obs
          /\ returned' = returned
      BY <2>1 DEF Publish, Goto
    <3>2. /\ Verdict(k) = "open"
          /\ Verdict(k)' = StatusOf(cfg, pair[k], obs[k])
          /\ \A j \in Keys : j # k => Verdict(j)' = Verdict(j)
      BY <2>0, <3>1 DEF Verdict, Judged, TypeOK
    <3>3. cfg \in Configs /\ pair[k] \in Pairs /\ obs[k] \in Observation
      BY DEF TypeOK
    <3>4. Complete(cfg, pair[k], obs[k])
      BY <3>1 DEF ObsInv, ObsAt
    <3>5. StatusOf(cfg, pair[k], obs[k]) \in Audit!Permitted(cfg, pair[k])
      <4> DEFINE status == StatusOf(cfg, pair[k], obs[k])
      <4>1. status \in FinalStatus
        BY StatusIsFinal
      <4>2. status = "PASS" => Audit!Equivalent(cfg, pair[k])
        BY <3>3, <3>4, PassMeansEquivalent, AuditSpeaksOfTheSame
      <4>3. status = "FAIL" => ~Audit!Equivalent(cfg, pair[k])
        BY <3>3, <3>4, SoundVerdict, AuditSpeaksOfTheSame
      <4>4. status = "WARN" => Audit!Unsettled(cfg, pair[k])
        BY <3>3, <3>4, SoundVerdict, AuditSpeaksOfTheSame DEF Audit!Unsettled
      <4> QED
        BY <4>1, <4>2, <4>3, <4>4, AuditSpeaksOfTheSame DEF Audit!Permitted
    <3>6. V' = [V EXCEPT ![k] = StatusOf(cfg, pair[k], obs[k])]
      BY <3>2
    <3> QED
      BY <2>0, <3>1, <3>2, <3>5, <3>6 DEF Audit!Judge
  <2>2. CASE Return
    <3>1. \A k \in Keys : Judged(k)
      BY <2>2, ReturnJudgesAll
    <3>2. \A k \in Keys : Verdict(k) # "open"
      BY <3>1, StatusIsFinal DEF Verdict, FinalStatus
    <3>3. \A k \in Keys : Verdict(k)' = Verdict(k)
      BY <2>2 DEF Return, Verdict, Judged
    <3>4. V' = V
      BY <3>3
    <3>5. Audit!Close
      BY <2>0, <2>2, <3>2, <3>4 DEF Return, Audit!Close, Audit!Keys, Keys
    <3> QED
      BY <3>5 DEF Audit!Next
  <2>3. CASE ~Return /\ \A k \in Keys : ~Publish(k)
    <3>1. \A j \in Keys : Judged(j)' <=> Judged(j)
      BY <2>3, JudgedStays
    <3>2. \A j \in Keys : Verdict(j)' = Verdict(j)
      BY <2>0, <3>1 DEF Verdict
    <3>3. returned' = returned
      BY <2>3 DEF Next, Returned, Worker, vars, Dispatch, HeadSide, GetSide, SkipDeep,
         PeekBudget, PeekUnlimited, ReserveGranted, ReserveDenied, HashJoin, Release, Exit
    <3> QED
      BY <2>0, <3>2, <3>3 DEF Audit!vars
  <2> QED
    BY <2>1, <2>2, <2>3 DEF Audit!Next, Audit!Keys, Keys
<1> QED
  BY <1>1, <1>2, TypeCorrect, SlotInvHolds, ObsInvHolds, PTL DEF Spec, AuditContract, Audit!Spec
=============================================================================
