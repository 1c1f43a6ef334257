------------------------------ MODULE ObjectAudit ------------------------------
(***************************************************************************)
(* What the report promises about the keys two buckets share: every one of *)
(* them is judged exactly once, in any order, the judgement is true of the *)
(* two copies, and the comparison ends once all are judged.  Workers,      *)
(* requests and the download budget do not appear here.                    *)
(***************************************************************************)
EXTENDS ObjectVerdict

CONSTANT NumKeys

VARIABLES
  cfg,       \* the options of the run
  pair,      \* the two copies of each key
  verdict,   \* "open", or the status reported for the key
  returned   \* the comparison has ended

vars == <<cfg, pair, verdict, returned>>

Keys == 1 .. NumKeys

\* A WARN leaves open whether the content is the same, so it needs ETags that
\* prove nothing and a reason not to have downloaded the object.
Unsettled(c, p) ==
  /\ Incomparable(p) /\ SameSize(p)
  /\ c.Level >= 2 => SameAttributes(c, p)
  /\ ~c.DeepOnInconclusive \/ c.MaxDeepBytes > 0

\* Any request may fail, so ERROR is always possible.
Permitted(c, p) ==
  {s \in FinalStatus :
     /\ s = "PASS" => Equivalent(c, p)
     /\ s = "FAIL" => ~Equivalent(c, p)
     /\ s = "WARN" => Unsettled(c, p)}

Init ==
  /\ cfg \in Configs
  /\ pair \in [Keys -> Pairs]
  /\ verdict = [k \in Keys |-> "open"]
  /\ returned = FALSE

Judge(k) ==
  /\ verdict[k] = "open"
  /\ \E s \in Permitted(cfg, pair[k]) : verdict' = [verdict EXCEPT ![k] = s]
  /\ UNCHANGED <<cfg, pair, returned>>

Close ==
  /\ \A k \in Keys : verdict[k] # "open"
  /\ ~returned
  /\ returned' = TRUE
  /\ UNCHANGED <<cfg, pair, verdict>>

Next == Close \/ \E k \in Keys : Judge(k)

Spec == Init /\ [][Next]_vars

FairSpec == Spec /\ WF_vars(Next)
=============================================================================
