-------------------------- MODULE MovingObject_proofs --------------------------
(***************************************************************************)
(* Proofs about an object that moves while it is verified, for any copies, *)
(* any number of writes between any two requests and any options.          *)
(***************************************************************************)
EXTENDS MovingObject, ObjectVerdict_proofs

\* A side is known from its listing on, unless that has no such key.
Known(s) == at[s] # "list" /\ (at[s] = "listed" => Listing(s))

\* The HEAD request of a side has come back.
HeadCame(s) == at[s] = "tags" \/ obs.head[s] \in {"ok", "tagErr"}

\* Everything that was seen of a side is of a copy it has held, and what a
\* HEAD says, ETag and headers, is of one copy.
SeenWasHeld(s) ==
  /\ at[s] = "list" => ~Listing(s)
  /\ Known(s) => \E c \in past[s] : seen[s].size = c.size
  /\ Known(s) => \E c \in past[s] :
       /\ seen[s].etag = c.etag
       /\ HeadCame(s) => seen[s].headers = c.headers /\ seen[s].contentType = c.contentType
  /\ obs.head[s] = "ok" /\ cfg.CheckTags => \E c \in past[s] : seen[s].tags = c.tags
  /\ obs.get[s] = "ok" => \E c \in past[s] : seen[s].content = c.content

\* The two sides are listed, then inspected, then downloaded and judged.
InListing ==
  /\ \A s \in Side : at[s] \in {"list", "listed"}
  /\ obs = NothingRequested

InHead ==
  /\ \A s \in Side : /\ at[s] \in {"stat", "tags", "decide"}
                     /\ obs.get[s] = "none"
                     /\ at[s] # "decide" => obs.head[s] = "none"
                     /\ at[s] = "decide" => obs.head[s] \in HeadOutcomes(cfg)
  /\ obs.deep = "none"

InGet ==
  /\ \A s \in Side : /\ at[s] \in {"get", "judge"}
                     /\ obs.head[s] \in HeadOutcomes(cfg)
                     /\ obs.deep = "granted" => (at[s] = "get" <=> obs.get[s] = "none")
                     /\ obs.deep # "granted" => at[s] = "judge" /\ obs.get[s] = "none"
  /\ obs.deep # "none" <=> NeedDeep(cfg, seen, obs)
  /\ obs.deep = "denied" => cfg.MaxDeepBytes > 0

\* The verdict is of what was seen, when every request has been answered.
JudgedOfSeen ==
  result \in FinalStatus => /\ \A s \in Side : at[s] = "judge"
                            /\ result = StatusOf(cfg, seen, obs)

MoveInv ==
  /\ \A s \in Side : SeenWasHeld(s)
  /\ InListing \/ InHead \/ InGet
  /\ JudgedOfSeen

-----------------------------------------------------------------------------
(* The types.                                                              *)

\* Everything a side holds is a copy.
LEMMA CopiesTyped ==
  /\ \A c \in Copies : c.size \in Nat
  /\ \A h \in Held : h \in SUBSET Copies
BY PairsAssumption DEF Copies, Held

\* Filling in a field of an objInfo keeps the others.
LEMMA SeenTyped ==
  ASSUME TypeOK, NEW s \in Side, NEW new, DOMAIN new = DOMAIN Nothing, new.size \in Nat,
         seen' = [seen EXCEPT ![s] = new]
  PROVE  /\ DOMAIN seen' = Side
         /\ \A z \in Side : DOMAIN seen'[z] = DOMAIN Nothing /\ seen'[z].size \in Nat
BY DEF TypeOK

\* Every action keeps the types.
LEMMA TypesHold == TypeOK /\ [Next \/ Judged]_vars => TypeOK'
<1> SUFFICES ASSUME TypeOK, [Next \/ Judged]_vars PROVE TypeOK'
  OBVIOUS
<1> USE DEF world
<1>0. obs \in Observation /\ at \in [Side -> Requests]
  BY DEF TypeOK
<1>1. ASSUME NEW s \in Side, Write(s) \/ Delete(s) PROVE TypeOK'
  <2>1. PICK held \in Held : Replace(s, held)
    BY <1>1 DEF Write, Delete, Held
  <2>2. held \in SUBSET Copies
    BY CopiesTyped
  <2>3. /\ now' \in [Side -> Held] /\ past' \in [Side -> SUBSET Copies]
        /\ \A z \in Side : now'[z] \subseteq past'[z]
    BY <2>1, <2>2 DEF Replace, TypeOK
  <2>4. writes' \in 0 .. MaxWrites
    BY <2>1, MaxWritesAssumption DEF Replace, TypeOK
  <2> QED
    BY <2>1, <2>3, <2>4 DEF Replace, TypeOK
<1>2. ASSUME NEW s \in Side, List(s) PROVE TypeOK'
  <2> DEFINE c == CHOOSE c \in now[s] : TRUE
             new == IF now[s] = {} THEN seen[s]
                    ELSE [seen[s] EXCEPT !.size = c.size, !.etag = c.etag]
  <2>1. seen' = [seen EXCEPT ![s] = new]
    BY <1>2 DEF List
  <2>2. DOMAIN new = DOMAIN Nothing /\ new.size \in Nat
    <3>1. CASE now[s] = {}
      BY <3>1 DEF TypeOK
    <3>2. CASE now[s] # {}
      <4>1. c \in Copies
        BY <3>2, CopiesTyped DEF TypeOK
      <4>2. DOMAIN new = DOMAIN seen[s] /\ new.size = c.size
        BY <3>2 DEF TypeOK, Nothing
      <4> QED
        BY <4>1, <4>2, CopiesTyped DEF TypeOK
    <3> QED
      BY <3>1, <3>2
  <2>3. DOMAIN seen' = Side
        /\ \A z \in Side : DOMAIN seen'[z] = DOMAIN Nothing /\ seen'[z].size \in Nat
    <3> HIDE DEF new
    <3> QED
      BY <2>1, <2>2, SeenTyped
  <2>4. at' \in [Side -> Requests] /\ at'[s] = "listed"
        /\ \A z \in Side \ {s} : at'[z] = at[z]
    BY <1>0, <1>2 DEF List, Requests
  <2> QED
    BY <1>2, <2>3, <2>4 DEF List, TypeOK
<1>3. CASE Match
  <2>1. CASE \A s \in Side : Listing(s)
    <3>1. at' = [s \in Side |-> IF cfg.Level >= 2 THEN "stat" ELSE "decide"]
          /\ UNCHANGED <<world, seen, obs, result>>
      BY <1>3, <2>1 DEF Match, MoveOn
    <3>2. at' \in [Side -> Requests]
      BY <3>1 DEF Requests
    <3> QED
      BY <3>1, <3>2 DEF TypeOK
  <2>2. CASE ~(\A s \in Side : Listing(s))
    BY <1>3, <2>2 DEF Match, TypeOK
  <2> QED
    BY <2>1, <2>2
<1>4. ASSUME NEW s \in Side, Stat(s) \/ StatFails(s) \/ Tags(s) \/ TagsFail(s)
      PROVE  TypeOK'
  <2>1. PICK h \in HeadOutcome : obs' = [obs EXCEPT !.head[s] = h]
    <3>1. obs.head[s] \in HeadOutcome
      BY <1>0 DEF Observation
    <3> QED
      BY <1>4, <3>1 DEF Stat, StatFails, Tags, TagsFail, HeadOutcome
  <2>2. obs' \in Observation /\ obs'.deep = obs.deep
    BY <1>0, <2>1 DEF Observation
  <2>3. /\ at' \in [Side -> Requests] /\ \A z \in Side \ {s} : at'[z] = at[z]
        /\ at'[s] \in {"tags", "decide"}
        /\ at'[s] = "tags" => cfg.CheckTags /\ at[s] = "stat"
    BY <1>0, <1>4 DEF Stat, StatFails, Tags, TagsFail, AfterStat, Requests
  <2>4. DOMAIN seen' = Side
        /\ \A z \in Side : DOMAIN seen'[z] = DOMAIN Nothing /\ seen'[z].size \in Nat
    <3>1. CASE Stat(s)
      <4>1. PICK c : seen' = [seen EXCEPT ![s].etag = c.etag, ![s].headers = c.headers,
                                          ![s].contentType = c.contentType]
        BY <3>1 DEF Stat
      <4> QED
        BY <4>1 DEF TypeOK, Nothing
    <3>2. CASE Tags(s)
      <4>1. PICK c : seen' = [seen EXCEPT ![s].tags = c.tags]
        BY <3>2 DEF Tags
      <4> QED
        BY <4>1 DEF TypeOK, Nothing
    <3>3. CASE StatFails(s) \/ TagsFail(s)
      BY <3>3 DEF StatFails, TagsFail, TypeOK
    <3> QED
      BY <1>4, <3>1, <3>2, <3>3
  <2>5. UNCHANGED <<world, result>>
    BY <1>4 DEF Stat, StatFails, Tags, TagsFail
  <2> QED
    BY <2>2, <2>3, <2>4, <2>5 DEF TypeOK
<1>5. CASE Decide
  <2>1. PICK deep \in {"none", "denied", "granted"}, next \in {"judge", "get"} :
          /\ obs' = [obs EXCEPT !.deep = deep] /\ at' = [s \in Side |-> next]
          /\ next = "get" => deep = "granted"
    <3>1. obs.deep \in {"none", "denied", "granted"} /\ obs = [obs EXCEPT !.deep = obs.deep]
      BY <1>0 DEF Observation
    <3> QED
      BY <1>5, <3>1 DEF Decide, MoveOn
  <2>2. obs' \in Observation /\ obs'.deep = deep
    BY <1>0, <2>1 DEF Observation
  <2>3. at' \in [Side -> Requests]
    BY <2>1 DEF Requests
  <2> QED
    BY <1>5, <2>1, <2>2, <2>3 DEF Decide, TypeOK
<1>6. ASSUME NEW s \in Side, Get(s) \/ GetFails(s) PROVE TypeOK'
  <2>1. PICK g \in {"ok", "err"} : obs' = [obs EXCEPT !.get[s] = g]
    BY <1>6 DEF Get, GetFails
  <2>2. obs' \in Observation /\ obs'.deep = obs.deep
    BY <1>0, <2>1 DEF Observation
  <2>3. at' \in [Side -> Requests] /\ at'[s] = "judge" /\ \A z \in Side \ {s} : at'[z] = at[z]
    BY <1>0, <1>6 DEF Get, GetFails, Requests
  <2>4. DOMAIN seen' = Side
        /\ \A z \in Side : DOMAIN seen'[z] = DOMAIN Nothing /\ seen'[z].size \in Nat
    <3>1. CASE Get(s)
      <4>1. PICK c : seen' = [seen EXCEPT ![s].content = c.content]
        BY <3>1 DEF Get
      <4> QED
        BY <4>1 DEF TypeOK, Nothing
    <3>2. CASE GetFails(s)
      BY <3>2 DEF GetFails, TypeOK
    <3> QED
      BY <1>6, <3>1, <3>2
  <2>5. UNCHANGED <<world, result>>
    BY <1>6 DEF Get, GetFails
  <2> QED
    BY <2>2, <2>3, <2>4, <2>5 DEF TypeOK
<1>7. CASE Judge
  <2>1. result' \in FinalStatus
    BY <1>7, StatusIsFinal DEF Judge
  <2> QED
    BY <1>7, <2>1 DEF Judge, TypeOK, FinalStatus
<1>8. CASE UNCHANGED vars
  BY <1>8 DEF vars, TypeOK
<1> QED
  BY <1>1, <1>2, <1>3, <1>4, <1>5, <1>6, <1>7, <1>8 DEF Next, Others, Worker, Judged

\* The types hold in every state, and the options decide which requests run.
THEOREM TypeCorrect == Spec => []TypeOK
<1>1. ASSUME Init PROVE TypeOK
  <2>1. NothingRequested \in Observation
    BY DEF NothingRequested, Observation, HeadOutcome
  <2>2. now \in [Side -> SUBSET Copies]
    BY <1>1, CopiesTyped DEF Init
  <2>3. DOMAIN seen = Side
        /\ \A s \in Side : DOMAIN seen[s] = DOMAIN Nothing /\ seen[s].size \in Nat
    BY <1>1 DEF Init, Nothing
  <2>4. at \in [Side -> Requests] /\ \A s \in Side : at[s] = "list"
    BY <1>1 DEF Init, Requests
  <2>5. writes \in 0 .. MaxWrites
    BY <1>1, MaxWritesAssumption DEF Init
  <2> QED
    BY <1>1, <2>1, <2>2, <2>3, <2>4, <2>5 DEF Init, TypeOK
<1> QED
  BY <1>1, TypesHold, PTL DEF Spec

-----------------------------------------------------------------------------
(* The inductive invariant.                                                *)

\* What was seen of a side stays true while others write.
LEMMA SeenStays ==
  ASSUME NEW s \in Side, SeenWasHeld(s), seen'[s] = seen[s], at'[s] = at[s],
         obs'.head[s] = obs.head[s], obs'.get[s] = obs.get[s],
         past[s] \subseteq past'[s], cfg' = cfg
  PROVE  SeenWasHeld(s)'
BY DEF SeenWasHeld, Known, Listing, HeadCame

\* A key is judged after its last request.
LEMMA NotJudgedYet ==
  ASSUME MoveInv, NEW s \in Side, at[s] # "judge", result' = result
  PROVE  JudgedOfSeen'
BY DEF MoveInv, JudgedOfSeen

\* Only sizes, ETags, headers and the HEAD answers decide on a download.
LEMMA NeedDeepOfSeen ==
  ASSUME NEW c, NEW p, NEW q, NEW o1, NEW o2, o1.head = o2.head,
         \A s \in Side : p[s].size = q[s].size /\ p[s].etag = q[s].etag
                         /\ p[s].headers = q[s].headers
  PROVE  NeedDeep(c, p, o1) <=> NeedDeep(c, q, o2)
<1>1. compareETags(p, o1) = compareETags(q, o2)
  BY DEF compareETags, SeenEncrypted, Encrypted, Side
<1>2. SameSize(p) <=> SameSize(q)
  BY DEF SameSize, Side
<1> QED
  BY <1>1, <1>2 DEF NeedDeep, HeadFailed

\* A write changes what will be seen, not what has been.
LEMMA ReplaceKeeps ==
  ASSUME TypeOK, MoveInv, NEW s \in Side, Write(s) \/ Delete(s)
  PROVE  MoveInv'
<1>1. PICK held : Replace(s, held)
  BY DEF Write, Delete
<1>2. /\ UNCHANGED <<cfg, seen, obs, at, result>> /\ result = "none"
      /\ \A z \in Side : past[z] \subseteq past'[z]
  BY <1>1 DEF Replace, TypeOK
<1>3. \A z \in Side : SeenWasHeld(z)'
  BY <1>2, SeenStays DEF MoveInv
<1>4. InListing' \/ InHead' \/ InGet'
  BY <1>2 DEF MoveInv, InListing, InHead, InGet
<1>5. JudgedOfSeen'
  BY <1>2 DEF JudgedOfSeen, FinalStatus
<1> QED
  BY <1>3, <1>4, <1>5 DEF MoveInv

\* A listing shows what the side held at that moment.
LEMMA ListKeeps ==
  ASSUME TypeOK, MoveInv, NEW s \in Side, List(s)
  PROVE  MoveInv'
<1> USE DEF world
<1>1. /\ at[s] = "list" /\ at' = [at EXCEPT ![s] = "listed"]
      /\ UNCHANGED <<cfg, past, obs, result>>
  BY DEF List
<1>2. InListing
  BY <1>1 DEF MoveInv, InListing, InHead, InGet
<1>3. \A z \in Side : obs.head[z] = "none" /\ obs.get[z] = "none"
  BY <1>2 DEF InListing, NothingRequested
<1>4. /\ at'[s] = "listed" /\ \A z \in Side \ {s} : at'[z] = at[z] /\ seen'[z] = seen[z]
  BY <1>1 DEF List, TypeOK
<1>5. SeenWasHeld(s)'
  <2>1. CASE now[s] = {}
    <3>1. seen'[s] = seen[s]
      BY <2>1 DEF List, TypeOK
    <3>2. ~Listing(s)
      BY <1>1 DEF MoveInv, SeenWasHeld
    <3>3. ~Known(s)'
      BY <1>4, <3>1, <3>2 DEF Known, Listing
    <3>4. at'[s] # "list" /\ obs'.head[s] # "ok" /\ obs'.get[s] # "ok"
      BY <1>1, <1>3, <1>4
    <3> QED
      BY <3>3, <3>4 DEF SeenWasHeld
  <2>2. CASE now[s] # {}
    <3>1. PICK c \in now[s] : seen' = [seen EXCEPT ![s] = [@ EXCEPT !.size = c.size, !.etag = c.etag]]
      BY <2>2 DEF List
    <3>2. seen'[s].size = c.size /\ seen'[s].etag = c.etag /\ c \in past[s]
      BY <3>1 DEF TypeOK, Nothing
    <3>3. ~HeadCame(s)' /\ obs'.head[s] = "none" /\ obs'.get[s] = "none"
      BY <1>1, <1>3, <1>4 DEF HeadCame
    <3>4. c \in past'[s] /\ at'[s] # "list"
      BY <1>1, <1>4, <3>2
    <3>5. \E d \in past'[s] : seen'[s].size = d.size
      BY <3>2, <3>4
    <3>6. \E d \in past'[s] : seen'[s].etag = d.etag
      BY <3>2, <3>4
    <3> QED
      BY <3>3, <3>4, <3>5, <3>6 DEF SeenWasHeld
  <2> QED
    BY <2>1, <2>2
<1>6. \A z \in Side : SeenWasHeld(z)'
  BY <1>1, <1>4, <1>5, SeenStays DEF MoveInv
<1>7. InListing'
  BY <1>1, <1>2, <1>4 DEF InListing
<1> QED
  BY <1>1, <1>6, <1>7, NotJudgedYet DEF MoveInv

\* A key that both sides list is inspected.
LEMMA MatchKeeps ==
  ASSUME TypeOK, MoveInv, Match
  PROVE  MoveInv'
<1> USE DEF world
<1>1. /\ \A s \in Side : at[s] = "listed"
      /\ UNCHANGED <<cfg, past, seen, obs>>
  BY DEF Match, BothListed
<1>2. InListing
  BY <1>1 DEF MoveInv, InListing, InHead, InGet, Side
<1>3. \A z \in Side : obs.head[z] = "none" /\ obs.get[z] = "none"
  BY <1>2 DEF InListing, NothingRequested
<1>4. CASE \A s \in Side : Listing(s)
  <2>1. /\ \A s \in Side : at'[s] = IF cfg.Level >= 2 THEN "stat" ELSE "decide"
        /\ result' = result
    BY <1>4 DEF Match, MoveOn
  <2>2. \A s \in Side : SeenWasHeld(s)'
    BY <1>1, <1>3, <1>4, <2>1 DEF MoveInv, SeenWasHeld, Known, Listing, HeadCame
  <2>3. InHead'
    <3>1. cfg.Level \in 1 .. 3
      BY InputsTyped DEF TypeOK
    <3>2. ~(cfg.Level >= 2) => HeadOutcomes(cfg) = {"none"}
      BY <3>1 DEF HeadOutcomes
    <3> QED
      BY <1>1, <1>2, <1>3, <2>1, <3>2 DEF InHead, InListing, NothingRequested
  <2>4. JudgedOfSeen'
    BY <1>1, <2>1, NotJudgedYet DEF Side
  <2> QED
    BY <2>2, <2>3, <2>4 DEF MoveInv
<1>5. CASE ~(\A s \in Side : Listing(s))
  <2>1. /\ result' \in {"missing", "extra", "absent"}
        /\ at' = at
    BY <1>5 DEF Match
  <2>2. \A s \in Side : SeenWasHeld(s)'
    BY <1>1, <2>1, SeenStays DEF MoveInv
  <2>3. InListing'
    BY <1>1, <1>2, <2>1 DEF InListing
  <2>4. JudgedOfSeen'
    BY <2>1 DEF JudgedOfSeen, FinalStatus
  <2> QED
    BY <2>2, <2>3, <2>4 DEF MoveInv
<1> QED
  BY <1>4, <1>5

\* The answer, or failure, of a HEAD or tagging request takes a side on.
LEMMA HeadKeeps ==
  ASSUME TypeOK, MoveInv, NEW s \in Side, at[s] \in {"stat", "tags"},
         NEW h \in HeadOutcome, NEW next \in {"tags", "decide"},
         obs' = [obs EXCEPT !.head[s] = h], at' = [at EXCEPT ![s] = next],
         next = "tags" => h = "none", next = "decide" => h \in HeadOutcomes(cfg),
         \A z \in Side \ {s} : seen'[z] = seen[z],
         UNCHANGED <<cfg, past, result>>, SeenWasHeld(s)'
  PROVE  MoveInv'
<1>1. /\ obs'.deep = obs.deep /\ obs'.get = obs.get /\ obs'.head[s] = h
      /\ \A z \in Side \ {s} : obs'.head[z] = obs.head[z]
      /\ at'[s] = next /\ \A z \in Side \ {s} : at'[z] = at[z]
  BY DEF TypeOK, Observation
<1>2. InHead
  BY DEF MoveInv, InListing, InHead, InGet
<1>3. InHead'
  BY <1>1, <1>2 DEF InHead
<1>4. \A z \in Side : SeenWasHeld(z)'
  BY <1>1, SeenStays DEF MoveInv
<1> QED
  BY <1>3, <1>4, NotJudgedYet DEF MoveInv

\* ETag and headers of a side come from the same answer.
LEMMA StatKeeps ==
  ASSUME TypeOK, MoveInv, NEW s \in Side, Stat(s)
  PROVE  MoveInv'
<1> USE DEF world
<1> DEFINE h == IF cfg.CheckTags THEN "none" ELSE "ok"
<1>1. at[s] = "stat" /\ UNCHANGED <<cfg, past, result>> /\ at' = [at EXCEPT ![s] = AfterStat]
  BY DEF Stat
<1>2. InHead
  BY <1>1 DEF MoveInv, InListing, InHead, InGet
<1>3. obs.head[s] = "none" /\ obs.get[s] = "none"
  BY <1>1, <1>2 DEF InHead
<1>4. obs' = [obs EXCEPT !.head[s] = h]
  BY <1>3 DEF Stat
<1>5. h \in HeadOutcome /\ AfterStat \in {"tags", "decide"}
  BY DEF HeadOutcome, AfterStat
<1>6. AfterStat = "tags" => h = "none"
  BY DEF AfterStat
<1>7. AfterStat = "decide" => h \in HeadOutcomes(cfg)
  <2>1. cfg.Level >= 2 /\ cfg.Level \in 1 .. 3
    BY <1>1, InputsTyped DEF TypeOK
  <2> QED
    BY <2>1 DEF AfterStat, HeadOutcomes
<1>8. PICK c \in now[s] :
        seen' = [seen EXCEPT ![s].etag = c.etag, ![s].headers = c.headers,
                             ![s].contentType = c.contentType]
  BY DEF Stat
<1>9. /\ \A z \in Side \ {s} : seen'[z] = seen[z]
      /\ seen'[s].etag = c.etag /\ seen'[s].headers = c.headers
      /\ seen'[s].contentType = c.contentType /\ seen'[s].size = seen[s].size
      /\ c \in past[s]
  BY <1>8 DEF TypeOK, Nothing
<1>10. SeenWasHeld(s)'
  <2>1. /\ obs'.head[s] = h /\ obs'.get[s] = obs.get[s]
        /\ at'[s] = AfterStat
    BY <1>1, <1>4 DEF TypeOK, Observation
  <2>2. at'[s] # "list" /\ Known(s)
    BY <1>1, <1>5, <2>1 DEF Known
  <2>3. \E d \in past'[s] : seen'[s].size = d.size
    BY <1>1, <1>9, <2>2 DEF MoveInv, SeenWasHeld
  <2>4. ~(obs'.head[s] = "ok" /\ cfg'.CheckTags) /\ obs'.get[s] # "ok"
    BY <1>1, <1>3, <2>1
  <2> QED
    BY <1>1, <1>9, <2>2, <2>3, <2>4 DEF SeenWasHeld
<1> HIDE DEF h
<1> QED
  BY <1>1, <1>4, <1>5, <1>6, <1>7, <1>9, <1>10, HeadKeeps

\* The tags may be those of another copy than the headers.
LEMMA TagsKeeps ==
  ASSUME TypeOK, MoveInv, NEW s \in Side, Tags(s)
  PROVE  MoveInv'
<1> USE DEF world
<1>1. /\ at[s] = "tags" /\ UNCHANGED <<cfg, past, result>>
      /\ at' = [at EXCEPT ![s] = "decide"] /\ obs' = [obs EXCEPT !.head[s] = "ok"]
  BY DEF Tags
<1>2. InHead
  BY <1>1 DEF MoveInv, InListing, InHead, InGet
<1>3. "ok" \in HeadOutcomes(cfg) /\ "ok" \in HeadOutcome
  <2>1. cfg.Level >= 2 /\ cfg.Level \in 1 .. 3
    BY <1>1, InputsTyped DEF TypeOK
  <2> QED
    BY <2>1 DEF HeadOutcomes, HeadOutcome
<1>4. PICK c \in now[s] : seen' = [seen EXCEPT ![s].tags = c.tags]
  BY DEF Tags
<1>5. /\ \A z \in Side \ {s} : seen'[z] = seen[z]
      /\ seen'[s].etag = seen[s].etag /\ seen'[s].headers = seen[s].headers
      /\ seen'[s].contentType = seen[s].contentType /\ seen'[s].size = seen[s].size
      /\ seen'[s].tags = c.tags /\ c \in past[s]
  BY <1>4 DEF TypeOK, Nothing
<1>6. SeenWasHeld(s)'
  <2>1. /\ at'[s] = "decide" /\ obs'.get[s] = "none"
    BY <1>1, <1>2 DEF TypeOK, Observation, InHead
  <2>2. Known(s) /\ HeadCame(s)
    BY <1>1 DEF Known, HeadCame
  <2>3. /\ \E d \in past'[s] : seen'[s].size = d.size
        /\ \E d \in past'[s] : /\ seen'[s].etag = d.etag /\ seen'[s].headers = d.headers
                               /\ seen'[s].contentType = d.contentType
        /\ \E d \in past'[s] : seen'[s].tags = d.tags
    BY <1>1, <1>5, <2>2 DEF MoveInv, SeenWasHeld
  <2> QED
    BY <2>1, <2>3 DEF SeenWasHeld
<1> QED
  BY <1>1, <1>3, <1>5, <1>6, HeadKeeps

\* A HEAD or tagging request that fails says nothing.
LEMMA HeadFailsKeeps ==
  ASSUME TypeOK, MoveInv, NEW s \in Side, StatFails(s) \/ TagsFail(s)
  PROVE  MoveInv'
<1> USE DEF world
<1>1. PICK h \in {"statErr", "tagErr"} : /\ obs' = [obs EXCEPT !.head[s] = h]
                                         /\ h = "tagErr" => at[s] = "tags"
  BY DEF StatFails, TagsFail
<1>2. /\ at[s] \in {"stat", "tags"} /\ UNCHANGED <<cfg, past, result, seen>>
      /\ at' = [at EXCEPT ![s] = "decide"]
      /\ h = "statErr" => at[s] = "stat"
  BY <1>1 DEF StatFails, TagsFail, TypeOK, Observation
<1>3. InHead
  BY <1>2 DEF MoveInv, InListing, InHead, InGet
<1>4. h \in HeadOutcomes(cfg) /\ h \in HeadOutcome
  <2>1. cfg.Level >= 2 /\ cfg.Level \in 1 .. 3 /\ (h = "tagErr" => cfg.CheckTags)
    BY <1>1, <1>2, InputsTyped DEF TypeOK
  <2> QED
    BY <2>1 DEF HeadOutcomes, HeadOutcome
<1>5. SeenWasHeld(s)'
  <2>1. /\ at'[s] = "decide" /\ obs'.get[s] = "none" /\ obs'.head[s] = h
    BY <1>1, <1>2, <1>3 DEF TypeOK, Observation, InHead
  <2>2. Known(s) /\ (h = "tagErr" => HeadCame(s))
    BY <1>1, <1>2 DEF Known, HeadCame
  <2>3. HeadCame(s)' => HeadCame(s)
    BY <1>1, <2>1, <2>2 DEF HeadCame
  <2> QED
    BY <1>1, <1>2, <2>1, <2>2, <2>3 DEF MoveInv, SeenWasHeld
<1> QED
  BY <1>1, <1>2, <1>4, <1>5, HeadKeeps

\* The decision on a download is taken once, of what the HEADs told.
LEMMA DecideKeeps ==
  ASSUME TypeOK, MoveInv, Decide
  PROVE  MoveInv'
<1> USE DEF world
<1>1. PICK deep \in {"none", "denied", "granted"}, next \in {"judge", "get"} :
        /\ obs' = [obs EXCEPT !.deep = deep] /\ at' = [s \in Side |-> next]
        /\ next = "get" <=> deep = "granted"
        /\ deep # "none" <=> NeedDeep(cfg, seen, obs)
        /\ deep = "denied" => cfg.MaxDeepBytes > 0
  <2>1. obs.deep = "none"
    <3>1. InHead
      BY DEF Decide, MoveInv, InListing, InHead, InGet, Side
    <3> QED
      BY <3>1 DEF InHead
  <2>2. obs = [obs EXCEPT !.deep = "none"]
    BY <2>1 DEF TypeOK, Observation
  <2> QED
    BY <2>2 DEF Decide, MoveOn
<1>2. /\ \A s \in Side : at[s] = "decide" /\ at'[s] = next
      /\ UNCHANGED <<cfg, past, seen, result>>
      /\ obs'.head = obs.head /\ obs'.get = obs.get /\ obs'.deep = deep
  BY <1>1 DEF Decide, TypeOK, Observation
<1>3. InHead
  BY <1>2 DEF MoveInv, InListing, InHead, InGet, Side
<1>4. InGet'
  <2>1. NeedDeep(cfg, seen, obs') <=> NeedDeep(cfg, seen, obs)
    BY <1>2, NeedDeepOfHead
  <2> QED
    BY <1>1, <1>2, <1>3, <2>1 DEF InHead, InGet
<1>5. ASSUME NEW s \in Side PROVE SeenWasHeld(s)'
  <2>1. at'[s] # "list" /\ Known(s) /\ (HeadCame(s)' => HeadCame(s))
    BY <1>2 DEF Known, HeadCame
  <2> QED
    BY <1>2, <2>1 DEF MoveInv, SeenWasHeld
<1> QED
  BY <1>2, <1>4, <1>5, NotJudgedYet DEF MoveInv, Side

\* The content may be that of another copy than the ETag.
LEMMA GetKeeps ==
  ASSUME TypeOK, MoveInv, NEW s \in Side, Get(s) \/ GetFails(s)
  PROVE  MoveInv'
<1> USE DEF world
<1>1. PICK g \in {"ok", "err"} :
        /\ obs' = [obs EXCEPT !.get[s] = g]
        /\ g = "ok" => \E c \in now[s] : seen' = [seen EXCEPT ![s].content = c.content]
        /\ g = "err" => seen' = seen
  BY DEF Get, GetFails
<1>2. at[s] = "get" /\ at' = [at EXCEPT ![s] = "judge"] /\ UNCHANGED <<cfg, past, result>>
  BY DEF Get, GetFails
<1>3. InGet
  BY <1>2 DEF MoveInv, InListing, InHead, InGet
<1>4. /\ obs'.deep = obs.deep /\ obs'.head = obs.head /\ obs'.get[s] = g
      /\ \A z \in Side \ {s} : obs'.get[z] = obs.get[z]
      /\ at'[s] = "judge" /\ \A z \in Side \ {s} : at'[z] = at[z]
  BY <1>1, <1>2 DEF TypeOK, Observation
<1>5. /\ \A z \in Side \ {s} : seen'[z] = seen[z]
      /\ seen'[s].etag = seen[s].etag /\ seen'[s].headers = seen[s].headers
      /\ seen'[s].contentType = seen[s].contentType /\ seen'[s].size = seen[s].size
      /\ seen'[s].tags = seen[s].tags
      /\ g = "ok" => \E c \in past[s] : seen'[s].content = c.content
  <2>1. CASE g = "ok"
    <3>1. PICK c \in now[s] : seen' = [seen EXCEPT ![s].content = c.content]
      BY <1>1, <2>1
    <3> QED
      BY <3>1 DEF TypeOK, Nothing
  <2>2. CASE g = "err"
    BY <1>1, <2>2
  <2> QED
    BY <2>1, <2>2
<1>6. InGet'
  <2>1. NeedDeep(cfg, seen', obs') <=> NeedDeep(cfg, seen, obs)
    BY <1>4, <1>5, NeedDeepOfSeen
  <2>2. obs.deep = "granted"
    BY <1>2, <1>3 DEF InGet
  <2>3. \A z \in Side : /\ at'[z] \in {"get", "judge"}
                        /\ at'[z] = "get" <=> obs'.get[z] = "none"
    BY <1>3, <1>4, <2>2 DEF InGet
  <2> QED
    BY <1>2, <1>3, <1>4, <2>1, <2>2, <2>3 DEF InGet
<1>7. SeenWasHeld(s)'
  <2>1. at'[s] # "list" /\ Known(s) /\ (HeadCame(s)' => HeadCame(s))
    BY <1>2, <1>4 DEF Known, HeadCame
  <2>2. /\ \E c \in past'[s] : seen'[s].size = c.size
        /\ \E c \in past'[s] :
             /\ seen'[s].etag = c.etag
             /\ HeadCame(s)' => seen'[s].headers = c.headers /\ seen'[s].contentType = c.contentType
    BY <1>2, <1>5, <2>1 DEF MoveInv, SeenWasHeld
  <2>3. obs'.head[s] = "ok" /\ cfg'.CheckTags => \E c \in past'[s] : seen'[s].tags = c.tags
    BY <1>2, <1>4, <1>5 DEF MoveInv, SeenWasHeld
  <2> QED
    BY <1>2, <1>4, <1>5, <2>1, <2>2, <2>3 DEF SeenWasHeld
<1>8. \A z \in Side : SeenWasHeld(z)'
  BY <1>2, <1>4, <1>5, <1>7, SeenStays DEF MoveInv
<1> QED
  BY <1>2, <1>6, <1>8, NotJudgedYet DEF MoveInv

\* The verdict holds of what every request has shown.
LEMMA MoveInvHolds == Spec => [](TypeOK /\ MoveInv)
<1> USE DEF world
<1>1. ASSUME Init PROVE MoveInv
  <2>1. \A s \in Side : at[s] = "list" /\ ~Listing(s)
                        /\ obs.head[s] = "none" /\ obs.get[s] = "none"
    BY <1>1 DEF Init, Nothing, NothingRequested, Listing
  <2>2. \A s \in Side : SeenWasHeld(s)
    BY <2>1 DEF SeenWasHeld, Known
  <2>3. InListing /\ JudgedOfSeen
    BY <1>1, <2>1 DEF Init, InListing, JudgedOfSeen, FinalStatus
  <2> QED
    BY <2>2, <2>3 DEF MoveInv
<1>2. ASSUME TypeOK, MoveInv, Judge PROVE MoveInv'
  <2>1. /\ \A s \in Side : at[s] = "judge"
        /\ result' = StatusOf(cfg, seen, obs)
        /\ UNCHANGED <<cfg, past, seen, obs, at>>
    BY <1>2 DEF Judge
  <2>2. \A s \in Side : SeenWasHeld(s)'
    BY <1>2, <2>1, SeenStays DEF MoveInv
  <2>3. InListing' \/ InHead' \/ InGet'
    BY <1>2, <2>1 DEF MoveInv, InListing, InHead, InGet
  <2>4. JudgedOfSeen'
    BY <2>1 DEF JudgedOfSeen
  <2> QED
    BY <2>2, <2>3, <2>4 DEF MoveInv
<1>3. ASSUME MoveInv, UNCHANGED vars PROVE MoveInv'
  <2>1. UNCHANGED <<cfg, past, seen, obs, at, result>>
    BY <1>3 DEF vars
  <2>2. \A s \in Side : SeenWasHeld(s)'
    BY <1>3, <2>1, SeenStays DEF MoveInv
  <2>3. InListing' \/ InHead' \/ InGet'
    BY <1>3, <2>1 DEF MoveInv, InListing, InHead, InGet
  <2>4. JudgedOfSeen'
    BY <1>3, <2>1 DEF MoveInv, JudgedOfSeen
  <2> QED
    BY <2>2, <2>3, <2>4 DEF MoveInv
<1>4. TypeOK /\ MoveInv /\ [Next \/ Judged]_vars => MoveInv'
  BY <1>2, <1>3, ReplaceKeeps, ListKeeps, MatchKeeps, StatKeeps, TagsKeeps, HeadFailsKeeps,
     DecideKeeps, GetKeeps DEF Next, Others, Worker, Judged
<1> QED
  BY <1>1, <1>4, TypeCorrect, PTL DEF Spec

-----------------------------------------------------------------------------
(* What a verdict on a moving object is worth.                             *)

\* A copy of each side makes a pair the sides have held.
LEMMA HeldTogether ==
  ASSUME TypeOK, NEW c \in past["source"], NEW d \in past["target"]
  PROVE  \E p \in HeldPairs : p \in Pairs /\ p["source"] = c /\ p["target"] = d
<1> DEFINE p == [s \in Side |-> IF s = "source" THEN c ELSE d]
<1>1. c \in Copies /\ d \in Copies
  BY DEF TypeOK, Side
<1>2. p \in [Side -> Copies] /\ p["source"] = c /\ p["target"] = d
  BY <1>1 DEF Side
<1>3. p \in HeldPairs /\ p \in Pairs
  BY <1>2, CopiesAssumption DEF HeldPairs, Side
<1> QED
  BY <1>2, <1>3

\* When a key is judged, every request the options ask for has an answer, and
\* what was seen came from copies the sides have held.
LEMMA JudgedComplete ==
  ASSUME TypeOK, MoveInv, result \in FinalStatus
  PROVE  /\ result = StatusOf(cfg, seen, obs)
         /\ Complete(cfg, seen, obs)
         /\ cfg \in Configs /\ obs \in Observation
         /\ \A s \in Side : Known(s)
<1>1. /\ \A s \in Side : at[s] = "judge"
      /\ result = StatusOf(cfg, seen, obs)
  BY DEF MoveInv, JudgedOfSeen
<1>2. InGet
  BY <1>1 DEF MoveInv, InListing, InHead, Side
<1>3. Complete(cfg, seen, obs)
  BY <1>1, <1>2 DEF InGet, Complete
<1> QED
  BY <1>1, <1>3 DEF TypeOK, Known

\* Some copy of the source and some copy of the target had the hashes seen.
LEMMA HashesWereHeld ==
  ASSUME TypeOK, MoveInv, Hashed(obs)
  PROVE  \E p \in HeldPairs : SameContent(p) <=> SameContent(seen)
<1>1. obs.get["source"] = "ok" /\ obs.get["target"] = "ok"
  BY DEF Hashed, Side
<1>2. PICK c \in past["source"] : seen["source"].content = c.content
  BY <1>1 DEF MoveInv, SeenWasHeld, Side
<1>3. PICK d \in past["target"] : seen["target"].content = d.content
  BY <1>1 DEF MoveInv, SeenWasHeld, Side
<1>4. PICK p \in HeldPairs : p["source"] = c /\ p["target"] = d
  BY HeldTogether
<1> QED
  BY <1>2, <1>3, <1>4 DEF SameContent

\* Some copy of the source and some copy of the target had the ETags seen
\* and, if the HEADs came back, the headers seen with them.
LEMMA ETagsWereHeld ==
  ASSUME TypeOK, MoveInv, \A s \in Side : Known(s)
  PROVE  \E p \in HeldPairs :
           /\ p \in Pairs
           /\ \A s \in Side : /\ seen[s].etag = p[s].etag
                              /\ HeadCame(s) => /\ seen[s].headers = p[s].headers
                                                /\ seen[s].contentType = p[s].contentType
<1>1. PICK c \in past["source"] :
        /\ seen["source"].etag = c.etag
        /\ HeadCame("source") => /\ seen["source"].headers = c.headers
                                 /\ seen["source"].contentType = c.contentType
  BY DEF MoveInv, SeenWasHeld, Side
<1>2. PICK d \in past["target"] :
        /\ seen["target"].etag = d.etag
        /\ HeadCame("target") => /\ seen["target"].headers = d.headers
                                 /\ seen["target"].contentType = d.contentType
  BY DEF MoveInv, SeenWasHeld, Side
<1>3. PICK p \in HeldPairs : p \in Pairs /\ p["source"] = c /\ p["target"] = d
  BY HeldTogether
<1> QED
  BY <1>1, <1>2, <1>3 DEF Side

\* A PASS is never made of thin air.
THEOREM PassIsOfHeldContent == Spec => []PassedContentWasOnBothSides
<1>1. TypeOK /\ MoveInv => PassedContentWasOnBothSides
  <2> SUFFICES ASSUME TypeOK, MoveInv, result = "PASS"
               PROVE  \E p \in HeldPairs : SameContent(p)
    BY DEF PassedContentWasOnBothSides
  <2>1. result \in FinalStatus
    BY DEF FinalStatus
  <2>2. \/ compareETags(seen, obs) = "match"
        \/ Hashed(obs) /\ SameContent(seen)
    BY <2>1, JudgedComplete, PassIsExplained
  <2>3. CASE compareETags(seen, obs) = "match"
    <3>1. seen["source"].etag = seen["target"].etag
      BY <2>3 DEF compareETags
    <3>2. PICK p \in HeldPairs : p \in Pairs /\ \A s \in Side : seen[s].etag = p[s].etag
      BY <2>1, JudgedComplete, ETagsWereHeld
    <3> QED
      BY <3>1, <3>2, ETagFidelity DEF Side
  <2>4. CASE Hashed(obs) /\ SameContent(seen)
    BY <2>4, HashesWereHeld
  <2> QED
    BY <2>2, <2>3, <2>4
<1> QED
  BY <1>1, MoveInvHolds, PTL

\* A PASS with a HEAD and nothing after it is of two copies that really were
\* equivalent.
THEOREM PassByHeadIsOfOneCopy == Spec => []PassByHeadIsOneCopy
<1>1. TypeOK /\ MoveInv => PassByHeadIsOneCopy
  <2> SUFFICES ASSUME TypeOK, MoveInv, result = "PASS", ~Hashed(obs),
                      cfg.Level >= 2 => ~cfg.CheckTags
               PROVE  \E p \in HeldPairs : Equivalent(cfg, p)
    BY DEF PassByHeadIsOneCopy
  <2>1. result \in FinalStatus
    BY DEF FinalStatus
  <2>2. /\ compareETags(seen, obs) = "match"
        /\ cfg.Level >= 2 => Headed(obs) /\ SameAttributes(cfg, seen)
    BY <2>1, JudgedComplete, PassIsExplained
  <2>3. seen["source"].etag = seen["target"].etag
    BY <2>2 DEF compareETags
  <2>4. PICK p \in HeldPairs :
          /\ p \in Pairs
          /\ \A s \in Side : /\ seen[s].etag = p[s].etag
                             /\ HeadCame(s) => /\ seen[s].headers = p[s].headers
                                               /\ seen[s].contentType = p[s].contentType
    BY <2>1, JudgedComplete, ETagsWereHeld
  <2>5. SameContent(p)
    BY <2>3, <2>4, ETagFidelity DEF Side
  <2>6. ASSUME cfg.Level >= 2 PROVE SameAttributes(cfg, p)
    <3>1. HeadCame("source") /\ HeadCame("target")
      BY <2>2, <2>6 DEF Headed, HeadCame, Side
    <3>2. \A s \in Side : /\ seen[s].headers = p[s].headers
                          /\ seen[s].contentType = p[s].contentType
      BY <2>4, <3>1 DEF Side
    <3>3. \A s \in Side : Metadata(cfg, seen[s]) = Metadata(cfg, p[s])
      BY <3>2 DEF Metadata
    <3> QED
      BY <2>2, <2>6, <3>2, <3>3 DEF SameAttributes, Side
  <2> QED
    BY <2>5, <2>6 DEF Equivalent
<1> QED
  BY <1>1, MoveInvHolds, PTL

\* A FAIL shows a difference that two copies really had.
THEOREM FailIsOfHeldCopies == Spec => []FailedCopiesDiffered
<1>1. TypeOK /\ MoveInv => FailedCopiesDiffered
  <2> SUFFICES ASSUME TypeOK, MoveInv, result = "FAIL", SoundConfig(cfg),
                      \A p \in HeldPairs : Equivalent(cfg, p)
               PROVE  FALSE
    BY DEF FailedCopiesDiffered
  <2>1. result \in FinalStatus
    BY DEF FinalStatus
  <2>2. /\ Headed(obs)
        /\ \/ ~SameSize(seen) \/ ~SameAttributes(cfg, seen)
           \/ compareETags(seen, obs) = "mismatch"
           \/ Hashed(obs) /\ ~SameContent(seen)
    BY <2>1, JudgedComplete, FailIsExplained
  <2>3. /\ \A p \in HeldPairs : SameContent(p) /\ SameAttributes(cfg, p)
        /\ \A s \in Side : Known(s) /\ HeadCame(s)
    BY <2>1, <2>2, JudgedComplete DEF Equivalent, SoundConfig, Headed, HeadCame
  <2>4. PICK p \in HeldPairs :
          /\ p \in Pairs
          /\ \A s \in Side : /\ seen[s].etag = p[s].etag /\ seen[s].headers = p[s].headers
                             /\ seen[s].contentType = p[s].contentType
    BY <2>3, ETagsWereHeld
  <2>5. SameSize(seen)
    <3>1. PICK c \in past["source"] : seen["source"].size = c.size
      BY <2>3 DEF MoveInv, SeenWasHeld, Side
    <3>2. PICK d \in past["target"] : seen["target"].size = d.size
      BY <2>3 DEF MoveInv, SeenWasHeld, Side
    <3>3. PICK q \in HeldPairs : q \in Pairs /\ q["source"] = c /\ q["target"] = d
      BY HeldTogether
    <3> QED
      BY <2>3, <3>1, <3>2, <3>3, ETagFidelity DEF SameSize
  <2>6. SameAttributes(cfg, seen)
    <3>1. \A s \in Side : Metadata(cfg, seen[s]) = Metadata(cfg, p[s])
      BY <2>4 DEF Metadata
    <3>2. ASSUME cfg.CheckTags PROVE seen["source"].tags = seen["target"].tags
      <4>1. PICK c \in past["source"] : seen["source"].tags = c.tags
        BY <2>2, <3>2 DEF MoveInv, SeenWasHeld, Headed, Side
      <4>2. PICK d \in past["target"] : seen["target"].tags = d.tags
        BY <2>2, <3>2 DEF MoveInv, SeenWasHeld, Headed, Side
      <4>3. PICK q \in HeldPairs : q["source"] = c /\ q["target"] = d
        BY HeldTogether
      <4> QED
        BY <2>3, <3>2, <4>1, <4>2, <4>3 DEF SameAttributes
    <3> QED
      BY <2>3, <2>4, <3>1, <3>2 DEF SameAttributes, Side
  <2>7. compareETags(seen, obs) # "mismatch"
    <3>1. compareETags(seen, obs) = compareETags(p, obs)
      BY <2>4 DEF compareETags, SeenEncrypted, Encrypted, Side
    <3>2. compareETags(p, obs) # "mismatch"
      BY <2>2, <2>3, <2>4, <2>1, JudgedComplete, ETagFidelity, VerdictOfETags DEF compareETags
    <3> QED
      BY <3>1, <3>2
  <2>8. Hashed(obs) => SameContent(seen)
    BY <2>3, HashesWereHeld
  <2> QED
    BY <2>2, <2>5, <2>6, <2>7, <2>8
<1> QED
  BY <1>1, MoveInvHolds, PTL
=============================================================================
