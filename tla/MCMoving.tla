------------------------------- MODULE MCMoving -------------------------------
(***************************************************************************)
(* An object whose content, ETag, headers and tags change under the run:   *)
(* two contents, each uploaded in one part and in several, with SSE, with  *)
(* a header and with a tag.  Two writes let either side move twice, or     *)
(* each once, between any two requests.                                    *)
(***************************************************************************)
EXTENDS MovingObject, MCObjects

ChangedDescribed == Copy(1, "md5B", "meta-owner" :> "1", "text", {}, "B")

AllPairs == [Side -> {Plain, ChangedMP, Longer, Sealed, Described,
                      ChangedDescribed, Tagged}]

\* Levels, with and without downloads on demand, tags and a download budget.
SomeConfigs == {Config(1, FALSE, TRUE, 0, 1, FALSE),
                Config(2, FALSE, FALSE, 0, 1, FALSE),
                Config(2, TRUE, FALSE, 2, 1, FALSE),
                Config(2, TRUE, TRUE, 0, 1, FALSE),
                Config(3, TRUE, FALSE, 2, 1, FALSE)}
=============================================================================
