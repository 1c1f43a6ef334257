-------------------------------- MODULE MCPool --------------------------------
(***************************************************************************)
(* More keys than slots, and objects whose content only a download tells:  *)
(* the workers compete for slots and for the download budget.              *)
(***************************************************************************)
EXTENDS CompareObjects, MCObjects

PoolPairs == {PairOf(Plain, Multipart), PairOf(Plain, Changed)}

\* Two downloads of one byte a side fit a cap of 4 exactly, and one fits a cap
\* of 3.  At level 1 the workers go straight to the budget.
PoolConfigs == {Config(1, TRUE, FALSE, cap, 2, FALSE) : cap \in {3, 4}}
                 \cup {Config(2, TRUE, FALSE, 3, 2, FALSE)}
=============================================================================
