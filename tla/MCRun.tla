-------------------------------- MODULE MCRun --------------------------------
(***************************************************************************)
(* Two bucket names, and the ways of asking for buckets: all of them, with *)
(* and without a bucket to fall back on, one by name, and two with the     *)
(* target's name given or forgotten.  Zeros ask for the defaults, and one  *)
(* command line for each thing that Validate and New refuse.               *)
(***************************************************************************)
EXTENDS VerifierRun

b1 == "b1"
b2 == "b2"

NamesDef == {<<b1>>, <<b2>>}

\* Everything, or one bucket, with and without the right to list them.
RightsDef ==
  {[list |-> TRUE, read |-> NamesDef], [list |-> TRUE, read |-> {<<b1>>}],
   [list |-> FALSE, read |-> {<<b1>>}], [list |-> FALSE, read |-> {<<b2>>}]}

Line(all, args, failOnWarn) ==
  [Endpoint |-> [s \in Side |-> "url"], Keys |-> TRUE, Level |-> 2, Versions |-> "",
   Concurrency |-> 0, RequestTimeout |-> 0,
   AllBuckets |-> all, Args |-> args, FailOnWarn |-> failOnWarn]

Renamed == <<b1, Colon, b2>>

Good ==
  {Line(TRUE, <<>>, FALSE), Line(TRUE, <<<<b1>>>>, TRUE), Line(FALSE, <<<<b1>>>>, FALSE),
   Line(FALSE, <<Renamed, <<b2>>>>, FALSE), Line(FALSE, <<<<b2, Colon>>, <<Colon, b1>>>>, FALSE)}

Bad ==
  {Line(FALSE, <<>>, FALSE),
   [Line(TRUE, <<>>, FALSE) EXCEPT !.Endpoint["target"] = "broken"],
   [Line(TRUE, <<>>, FALSE) EXCEPT !.Endpoint["source"] = "none"],
   [Line(TRUE, <<>>, FALSE) EXCEPT !.Keys = FALSE],
   [Line(TRUE, <<>>, FALSE) EXCEPT !.Level = 4],
   [Line(TRUE, <<>>, FALSE) EXCEPT !.Versions = "always"]}

LinesDef == Good \cup Bad
=============================================================================
