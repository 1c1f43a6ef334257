------------------------------ MODULE MCVerdicts ------------------------------
(***************************************************************************)
(* One key, every pair of copies and every combination of options: what a  *)
(* single worker concludes.                                                *)
(***************************************************************************)
EXTENDS CompareObjects, MCObjects

Copies == {Plain, Multipart, Changed, ChangedMP, Longer, Sealed, Stamped,
           Described, Retyped, Tagged}

AllPairs == {PairOf(s, t) : s \in Copies, t \in Copies}

AllConfigs == {Config(level, deep, tags, cap, 1, list) :
                 level \in 1 .. 3, deep \in BOOLEAN, tags \in BOOLEAN,
                 cap \in {0, 1, 2}, list \in BOOLEAN}
=============================================================================
